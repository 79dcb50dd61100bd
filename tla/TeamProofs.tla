------------------------------- MODULE TeamProofs -------------------------------
(***************************************************************************)
(* For every hierarchy of plans, team and number of disturbances: what a   *)
(* robot's picture of the team keeps.                                      *)
(***************************************************************************)
EXTENDS TeamProperties, DataInduction, SequenceTheorems

-------------------------------------------------------------------------------
(* The hierarchy *)

LEMMA PlansAreFinite == IsFiniteSet(Plans) /\ Cardinality(Plans) \in Nat
BY TeamAssumption, FS_CardinalityType

LEMMA PlansOfStates ==
  ASSUME NEW s \in States
  PROVE  /\ PlansIn[s] \in Seq(Plans)
         /\ ToSet(PlansIn[s]) \subseteq Plans
         /\ PlanOf[s] \in Plans /\ EntryOf[s] \in EntryPoints
BY TeamAssumption DEF ToSet

\* The sets of plans that are closed under what their states run.
Closed(P) ==
  P \subseteq Plans /\ \A t \in States : PlanOf[t] \in P => ToSet(PlansIn[t]) \subseteq P

LEMMA UnderIsClosed ==
  ASSUME NEW s \in States
  PROVE  Closed(PlansUnder(s)) /\ ToSet(PlansIn[s]) \subseteq PlansUnder(s)
<1>1. ToSet(PlansIn[s]) \subseteq Plans
  BY PlansOfStates
<1>2. ToSet(PlansIn[s]) \subseteq PlansUnder(s)
  BY <1>1 DEF PlansUnder
<1>3. ASSUME NEW t \in States, PlanOf[t] \in PlansUnder(s)
      PROVE  ToSet(PlansIn[t]) \subseteq PlansUnder(s)
  <2>1. ToSet(PlansIn[t]) \subseteq Plans
    BY PlansOfStates
  <2>2. QED
    BY <1>3, <2>1 DEF PlansUnder
<1>4. PlansUnder(s) \subseteq Plans
  BY DEF PlansUnder
<1>5. QED
  BY <1>2, <1>3, <1>4 DEF Closed

LEMMA UnderIsLeast ==
  ASSUME NEW s \in States, NEW P, Closed(P), ToSet(PlansIn[s]) \subseteq P
  PROVE  PlansUnder(s) \subseteq P
BY DEF PlansUnder, Closed

\* Two states of a plan have different plans under them.
LEMMA UnderIsDisjoint ==
  ASSUME NEW s \in States, NEW t \in States, s # t, PlanOf[s] = PlanOf[t]
  PROVE  PlansUnder(s) \cap PlansUnder(t) = {}
<1> DEFINE p == PlanOf[s]
<1>1. p \in Plans
  BY PlansOfStates
<1>2. PICK level \in [Plans -> 1..Cardinality(Plans)] :
        \A u \in States : \A c \in ToSet(PlansIn[u]) : level[PlanOf[u]] < level[c]
  BY HierarchyAssumption
<1>3. \A u, v \in States : u # v => ToSet(PlansIn[u]) \cap ToSet(PlansIn[v]) = {}
  BY HierarchyAssumption
<1>4. \A q \in Plans : level[q] \in Int
  BY <1>2, PlansAreFinite
<1> DEFINE Deep == {q \in Plans : level[p] < level[q]}
<1>5. ASSUME NEW u \in States, PlanOf[u] = p PROVE PlansUnder(u) \subseteq Deep
  <2>1. ToSet(PlansIn[u]) \subseteq Deep
    BY <1>2, <1>5, PlansOfStates
  <2>2. ASSUME NEW v \in States, PlanOf[v] \in Deep, NEW c \in ToSet(PlansIn[v])
        PROVE  c \in Deep
    <3>1. c \in Plans /\ level[PlanOf[v]] < level[c] /\ level[p] < level[PlanOf[v]]
      BY <1>2, <2>2, PlansOfStates
    <3>2. QED
      BY <1>1, <1>4, <2>2, <3>1
  <2>3. Closed(Deep)
    BY <2>2 DEF Closed
  <2> HIDE DEF Deep
  <2>4. QED
    BY <2>1, <2>3, UnderIsLeast
\* A plan under t is in t, or the plan that runs it is under t.
<1> DEFINE Ran == {q \in PlansUnder(t) : \/ q \in ToSet(PlansIn[t])
                                         \/ \E u \in States : /\ PlanOf[u] \in PlansUnder(t)
                                                              /\ q \in ToSet(PlansIn[u])}
<1>6. PlansUnder(t) \subseteq Ran
  <2>1. Closed(PlansUnder(t)) /\ ToSet(PlansIn[t]) \subseteq PlansUnder(t)
    BY UnderIsClosed
  <2>2. Closed(Ran) /\ ToSet(PlansIn[t]) \subseteq Ran
    BY <2>1 DEF Closed
  <2> HIDE DEF Ran
  <2>3. QED
    BY <2>2, UnderIsLeast
<1> DEFINE Other == Deep \ PlansUnder(t)
<1>7. ASSUME NEW u \in States, u # t, PlanOf[u] = p \/ PlanOf[u] \in Other,
             NEW c \in ToSet(PlansIn[u])
      PROVE  c \notin PlansUnder(t)
  <2>1. SUFFICES ASSUME c \in PlansUnder(t) PROVE FALSE
    OBVIOUS
  <2>2. c \notin ToSet(PlansIn[t])
    BY <1>3, <1>7
  <2>3. PICK v \in States : PlanOf[v] \in PlansUnder(t) /\ c \in ToSet(PlansIn[v])
    BY <1>6, <2>1, <2>2
  <2>4. v = u
    BY <1>3, <1>7, <2>3
  <2>5. PlanOf[u] \in PlansUnder(t) /\ PlansUnder(t) \subseteq Deep
    BY <1>5, <2>3, <2>4
  <2>6. ~ (level[p] < level[p])
    BY <1>1, <1>4
  <2>7. QED
    BY <1>7, <2>5, <2>6
<1>8. Closed(Other)
  <2>1. ASSUME NEW u \in States, PlanOf[u] \in Other, NEW c \in ToSet(PlansIn[u])
        PROVE  c \in Other
    <3>1. u # t
      BY <1>1, <1>4, <2>1
    <3>2. c \notin PlansUnder(t)
      BY <1>7, <2>1, <3>1
    <3>3. c \in Plans /\ level[PlanOf[u]] < level[c] /\ level[p] < level[PlanOf[u]]
      BY <1>2, <2>1, PlansOfStates
    <3>4. level[p] < level[c]
      BY <1>1, <1>4, <2>1, <3>3
    <3>5. QED
      BY <3>2, <3>3, <3>4
  <2>2. QED
    BY <2>1 DEF Closed
<1>9. ToSet(PlansIn[s]) \subseteq Other
  <2>1. \A c \in ToSet(PlansIn[s]) : c \notin PlansUnder(t)
    BY <1>7
  <2>2. ToSet(PlansIn[s]) \subseteq Deep
    BY <1>2, PlansOfStates
  <2>3. QED
    BY <2>1, <2>2
<1> HIDE DEF Other
<1>10. PlansUnder(s) \subseteq Other
  BY <1>8, <1>9, UnderIsLeast
<1>11. QED
  BY <1>10 DEF Other
-------------------------------------------------------------------------------
(* Visiting the running plans *)

RunningPlans == [Plans -> RunningPlan]

\* Plans with the children of those of them that run.
Family(R, W) ==
  W \subseteq Plans /\ \A q \in W \cap MyPlans(R) : ToSet(PlansIn[R[q].state]) \subseteq W

\* What is known at each step of DepthFirst.
Visits(R, W) == [todo : Seq(W), order : Seq(W \cap MyPlans(R))]

LEMMA VisitStays ==
  ASSUME NEW R \in RunningPlans, NEW W, Family(R, W), NEW v \in Visits(R, W)
  PROVE  Visit(R, v) \in Visits(R, W)
<1>1. v.todo \in Seq(W) /\ v.order \in Seq(W \cap MyPlans(R))
  BY DEF Visits
<1>2. CASE v.todo = << >>
  BY <1>2 DEF Visit
<1>3. CASE v.todo # << >>
  <2> DEFINE q == Head(v.todo)
  <2>1. q \in W /\ Tail(v.todo) \in Seq(W)
    BY <1>1, <1>3
  <2>2. CASE R[q].state = None
    <3>1. Visit(R, v) = [v EXCEPT !.todo = Tail(@)]
      BY <1>3, <2>2 DEF Visit
    <3>2. QED
      BY <1>1, <2>1, <3>1 DEF Visits
  <2>3. CASE R[q].state # None
    <3>1. Visit(R, v) = [todo  |-> PlansIn[R[q].state] \o Tail(v.todo),
                         order |-> Append(v.order, q)]
      BY <1>3, <2>3 DEF Visit
    <3>2. R[q].state \in States /\ q \in W \cap MyPlans(R)
      BY <2>1, <2>3 DEF RunningPlans, RunningPlan, MyPlans, Family
    <3>3. PlansIn[R[q].state] \in Seq(W)
      <4>1. PlansIn[R[q].state] \in Seq(Plans) /\ ToSet(PlansIn[R[q].state]) \subseteq W
        BY <3>2, PlansOfStates DEF Family
      <4>2. QED
        BY <4>1 DEF ToSet
    <3> HIDE DEF q
    <3>4. PlansIn[R[q].state] \o Tail(v.todo) \in Seq(W)
      BY <2>1, <3>3
    <3>5. Append(v.order, q) \in Seq(W \cap MyPlans(R))
      BY <1>1, <3>2
    <3>6. QED
      BY <3>1, <3>4, <3>5 DEF Visits
  <2>4. QED
    BY <2>2, <2>3
<1>4. QED
  BY <1>2, <1>3

\* f is the course of DepthFirst(R, p) within W.
Course(f, R, p, W) ==
  /\ f \in [0..Cardinality(Plans) -> Visits(R, W)]
  /\ f[0] = [todo |-> <<p>>, order |-> << >>]
  /\ \A k \in 1..Cardinality(Plans) : f[k] = Visit(R, f[k - 1])
  /\ DepthFirst(R, p) = f[Cardinality(Plans)].order

LEMMA DepthFirstVisits ==
  ASSUME NEW R \in RunningPlans, NEW W, Family(R, W), NEW p \in W
  PROVE  /\ \E f : Course(f, R, p, W)
         /\ DepthFirst(R, p) \in Seq(W \cap MyPlans(R))
<1> DEFINE n == Cardinality(Plans)
           c == [todo |-> <<p>>, order |-> << >>]
           S == Visits(R, W)
           steps == [k \in 1..n |-> [v \in S |-> Visit(R, v)]]
           g == CHOOSE h : h = [k \in 0..n |-> IF k = 0 THEN c ELSE Visit(R, h[k - 1])]
<1>1. n \in Nat
  BY PlansAreFinite
<1>2. c \in S
  BY DEF Visits
<1>3. \A v \in S : Visit(R, v) \in S
  BY VisitStays
<1>4. DepthFirst(R, p) = g[n].order
  BY DEF DepthFirst
<1>5. \A v \in S : v.order \in Seq(W \cap MyPlans(R))
  BY DEF Visits
<1> HIDE DEF n, c, S
<1>6. steps \in StepsOn(S, n)
  BY <1>3 DEF StepsOn
<1> HIDE DEF steps
<1>7. PICK f : StaysIn(f, S, n) /\ Unfolds(f, c, steps, n)
  BY <1>1, <1>2, <1>6, IntervalRecursion
<1>8. f \in [0..n -> S] /\ f[0] = c /\ \A k \in 1..n : f[k] = steps[k][f[k - 1]]
  BY <1>7 DEF StaysIn, Unfolds
<1>9. ASSUME NEW k \in 1..n PROVE f[k] = Visit(R, f[k - 1])
  <2>1. f[k - 1] \in S
    BY <1>1, <1>8
  <2>2. QED
    BY <1>8, <2>1 DEF steps
<1>10. f = [k \in 0..n |-> IF k = 0 THEN c ELSE Visit(R, f[k - 1])]
  BY <1>1, <1>8, <1>9
<1>11. g = [k \in 0..n |-> IF k = 0 THEN c ELSE Visit(R, g[k - 1])]
  BY <1>10
<1> HIDE DEF g
<1>12. SameSteps(f, g, n)
  BY <1>1, <1>8, <1>9, <1>11 DEF SameSteps
<1>13. f[n] = g[n] /\ f[n] \in S
  BY <1>1, <1>8, <1>12, IntervalUnique DEF SameValues
<1>14. Course(f, R, p, W)
  BY <1>4, <1>8, <1>9, <1>13 DEF Course, n, S, c
<1>15. QED
  BY <1>4, <1>5, <1>13, <1>14

LEMMA AllPlansAreFamily ==
  ASSUME NEW R \in RunningPlans
  PROVE  Family(R, Plans)
<1>1. \A q \in MyPlans(R) : R[q].state \in States
  BY DEF RunningPlans, RunningPlan, MyPlans
<1>2. QED
  BY <1>1, PlansOfStates DEF Family

-------------------------------------------------------------------------------
(* Running plans whose assignments are consistent *)

\* No agent has two places, and Me has that of the plan's state.
Placed(rp) ==
  /\ \A x, y \in rp.agents : x[1] = y[1] => x = y
  /\ <<Me, rp.state>> \in rp.agents

Runs(rp, p) ==
  rp \in RunningPlan /\ rp.state \in States /\ PlanOf[rp.state] = p /\ Placed(rp)

GoodPlans(R) ==
  /\ R \in RunningPlans
  /\ Master \in MyPlans(R)
  /\ \A p \in MyPlans(R) : Runs(R[p], p)

LEMMA PlanChanged ==
  ASSUME NEW R, GoodPlans(R), NEW p \in Plans, NEW rp, Runs(rp, p)
  PROVE  /\ GoodPlans([R EXCEPT ![p] = rp])
         /\ MyPlans([R EXCEPT ![p] = rp]) = MyPlans(R) \cup {p}
<1> DEFINE Q == [R EXCEPT ![p] = rp]
<1>1. R \in RunningPlans /\ Q \in RunningPlans /\ Q[p] = rp
      /\ \A q \in Plans \ {p} : Q[q] = R[q]
  BY DEF GoodPlans, Runs, RunningPlans
<1>2. rp.state # None
  BY TeamAssumption DEF Runs
<1> HIDE DEF Q
<1>3. MyPlans(Q) = MyPlans(R) \cup {p}
  BY <1>1, <1>2 DEF MyPlans
<1>4. \A q \in MyPlans(Q) : Runs(Q[q], q)
  BY <1>1, <1>3 DEF GoodPlans, MyPlans
<1>5. Master \in MyPlans(Q)
  BY <1>3 DEF GoodPlans
<1>6. QED
  BY <1>1, <1>3, <1>4, <1>5 DEF GoodPlans, Q

LEMMA PlanOfMine ==
  ASSUME NEW R, GoodPlans(R), NEW p \in MyPlans(R)
  PROVE  p \in Plans /\ Runs(R[p], p) /\ R[p].state \in States
BY DEF GoodPlans, MyPlans, Runs

LEMMA PlaceOfMe ==
  ASSUME NEW rp, NEW p, Runs(rp, p)
  PROVE  Me \in Agents /\ PlaceOf(rp, Me) = {<<Me, rp.state>>} /\ Me \in InState(rp, rp.state)
<1>1. <<Me, rp.state>> \in rp.agents /\ \A x, y \in rp.agents : x[1] = y[1] => x = y
  BY DEF Runs, Placed
<1>2. <<Me, rp.state>>[1] = Me /\ <<Me, rp.state>>[2] = rp.state
  OBVIOUS
<1>3. PlaceOf(rp, Me) = {<<Me, rp.state>>}
  BY <1>1, <1>2 DEF PlaceOf
<1>4. Me \in InState(rp, rp.state)
  BY <1>1, <1>2 DEF InState
<1>5. QED
  BY <1>3, <1>4 DEF Agents

\* What each allocation starts.
LEMMA StartedRuns ==
  ASSUME NEW up, NEW u, Runs(up, u), NEW p,
         NEW task \in [Agents -> EntryPoints \cup {None}], task[Me] # None,
         \A a \in Agents : task[a] # None => PlanOfMark(task[a]) = p
  PROVE  Runs(Started(up, task), p)
<1> DEFINE rp == Started(up, task)
           crew == Crew(up, task)
<1>1. Me \in crew
  BY PlaceOfMe DEF Crew
<1>2. crew \subseteq {a \in Agents : task[a] # None}
  <2>1. up.agents \subseteq Agents \X States
    BY DEF Runs, RunningPlan
  <2>2. InState(up, up.state) \subseteq Agents
    BY <2>1 DEF InState
  <2>3. QED
    BY <2>2 DEF Crew
<1>3. \A a \in Agents : task[a] # None => InitialState[task[a]] \in States
  BY TeamAssumption
<1> HIDE DEF crew
<1>4. /\ rp.state = InitialState[task[Me]] /\ rp.protected = "plan" /\ rp.cycle = "observing"
      /\ rp.agents = {<<a, InitialState[task[a]]>> : a \in crew}
      /\ rp = [state |-> rp.state, protected |-> rp.protected, cycle |-> rp.cycle,
               agents |-> rp.agents]
  BY DEF Started, crew
<1> HIDE DEF rp
<1>5. rp.state \in States /\ PlanOf[rp.state] = p
  BY <1>1, <1>2, <1>3, <1>4 DEF PlanOfMark
<1>6. rp.agents \subseteq Agents \X States
  BY <1>2, <1>3, <1>4
<1>7. rp \in RunningPlan
  BY <1>4, <1>5, <1>6 DEF RunningPlan
<1>8. Placed(rp)
  BY <1>1, <1>4 DEF Placed
<1>9. QED
  BY <1>5, <1>7, <1>8 DEF Runs, rp

LEMMA AllocateGood ==
  ASSUME NEW P \in SUBSET Plans, NEW tasks \in Tasks(P), NEW R, GoodPlans(R)
  PROVE  /\ GoodPlans(Allocate(R, tasks))
         /\ MyPlans(Allocate(R, tasks)) \subseteq MyPlans(R) \cup P
         /\ MyPlans(R) \subseteq MyPlans(Allocate(R, tasks))
<1>1. CASE Missing(R, tasks) = {}
  BY <1>1 DEF Allocate
<1>2. CASE Missing(R, tasks) # {}
  <2> DEFINE m == CHOOSE m \in Missing(R, tasks) : TRUE
  <2>1. m \in Missing(R, tasks)
    BY <1>2
  <2>2. Allocate(R, tasks) = [R EXCEPT ![m[2]] = Started(R[m[1]], tasks[m[2]])]
    BY <1>2 DEF Allocate
  <2> HIDE DEF m
  <2>3. /\ tasks \in [P -> [Agents -> EntryPoints \cup {None}]]
        /\ \A p \in P : /\ tasks[p][Me] # None
                        /\ \A a \in Agents : tasks[p][a] # None => PlanOfMark(tasks[p][a]) = p
    BY DEF Tasks
  <2>4. m[1] \in MyPlans(R) /\ m[2] \in P /\ m[2] \in Plans
    BY <2>1, <2>3 DEF Missing
  <2>5. Runs(R[m[1]], m[1])
    BY <2>4, PlanOfMine
  <2>6. Runs(Started(R[m[1]], tasks[m[2]]), m[2])
    <3>1. tasks[m[2]] \in [Agents -> EntryPoints \cup {None}]
      BY <2>3, <2>4
    <3>2. tasks[m[2]][Me] # None
          /\ \A a \in Agents : tasks[m[2]][a] # None => PlanOfMark(tasks[m[2]][a]) = m[2]
      BY <2>3, <2>4
    <3>3. QED
      BY <2>5, <3>1, <3>2, StartedRuns
  <2> DEFINE rp == Started(R[m[1]], tasks[m[2]])
  <2>7. Runs(rp, m[2])
    BY <2>6
  <2>8. Allocate(R, tasks) = [R EXCEPT ![m[2]] = rp]
    BY <2>2
  <2> HIDE DEF rp
  <2>9. GoodPlans([R EXCEPT ![m[2]] = rp])
        /\ MyPlans([R EXCEPT ![m[2]] = rp]) = MyPlans(R) \cup {m[2]}
    BY <2>4, <2>7, PlanChanged
  <2>10. QED
    BY <2>4, <2>8, <2>9
<1>3. QED
  BY <1>1, <1>2

\* allocationRule keeps the picture consistent and starts plans of P only.
LEMMA AllocatedGood ==
  ASSUME NEW P \in SUBSET Plans, NEW tasks \in Tasks(P), NEW R, GoodPlans(R)
  PROVE  /\ GoodPlans(Allocated(R, tasks))
         /\ MyPlans(Allocated(R, tasks)) \subseteq MyPlans(R) \cup P
<1> DEFINE n == Cardinality(Plans)
           S == {Q \in RunningPlans : GoodPlans(Q) /\ MyPlans(Q) \subseteq MyPlans(R) \cup P}
           steps == [k \in 1..n |-> [Q \in S |-> Allocate(Q, tasks)]]
           g == CHOOSE h : h = [k \in 0..n |-> IF k = 0 THEN R ELSE Allocate(h[k - 1], tasks)]
<1>1. n \in Nat
  BY PlansAreFinite
<1>2. R \in S
  BY DEF GoodPlans
<1>3. ASSUME NEW Q \in S PROVE Allocate(Q, tasks) \in S
  <2>1. GoodPlans(Q) /\ MyPlans(Q) \subseteq MyPlans(R) \cup P
    BY <1>3
  <2>2. GoodPlans(Allocate(Q, tasks))
        /\ MyPlans(Allocate(Q, tasks)) \subseteq MyPlans(Q) \cup P
    BY <2>1, AllocateGood
  <2>3. Allocate(Q, tasks) \in RunningPlans
    BY <2>2 DEF GoodPlans
  <2>4. QED
    BY <2>1, <2>2, <2>3
<1>4. Allocated(R, tasks) = g[n]
  BY DEF Allocated
<1>5. \A Q \in S : GoodPlans(Q) /\ MyPlans(Q) \subseteq MyPlans(R) \cup P
  OBVIOUS
<1> HIDE DEF n, S
<1>6. steps \in StepsOn(S, n)
  BY <1>3 DEF StepsOn
<1> HIDE DEF steps
<1>7. PICK f : StaysIn(f, S, n) /\ Unfolds(f, R, steps, n)
  BY <1>1, <1>2, <1>6, IntervalRecursion
<1>8. f \in [0..n -> S] /\ f[0] = R /\ \A k \in 1..n : f[k] = steps[k][f[k - 1]]
  BY <1>7 DEF StaysIn, Unfolds
<1>9. ASSUME NEW k \in 1..n PROVE f[k] = Allocate(f[k - 1], tasks)
  <2>1. f[k - 1] \in S
    BY <1>1, <1>8
  <2>2. QED
    BY <1>8, <2>1 DEF steps
<1>10. f = [k \in 0..n |-> IF k = 0 THEN R ELSE Allocate(f[k - 1], tasks)]
  BY <1>1, <1>8, <1>9
<1>11. g = [k \in 0..n |-> IF k = 0 THEN R ELSE Allocate(g[k - 1], tasks)]
  BY <1>10
<1> HIDE DEF g
<1>12. SameSteps(f, g, n)
  BY <1>1, <1>8, <1>9, <1>11 DEF SameSteps
<1>13. g[n] \in S
  BY <1>1, <1>8, <1>12, IntervalUnique DEF SameValues
<1>14. QED
  BY <1>4, <1>5, <1>13

SameStates(Q, R) == \A q \in Plans : Q[q].state = R[q].state

LEMMA SameStatesSamePlans ==
  ASSUME NEW Q, NEW R, SameStates(Q, R)
  PROVE  MyPlans(Q) = MyPlans(R)
BY DEF SameStates, MyPlans

\* limitToRobots takes agents out, never Me.
LEMMA LimitGood ==
  ASSUME NEW R, GoodPlans(R), NEW l \in [rps : RunningPlans, touched : SUBSET Plans],
         GoodPlans(l.rps), SameStates(l.rps, R), NEW p, NEW q \in Plans,
         NEW agents, Me \in agents
  PROVE  /\ Limit(l, p, q, agents) \in [rps : RunningPlans, touched : SUBSET Plans]
         /\ GoodPlans(Limit(l, p, q, agents).rps)
         /\ SameStates(Limit(l, p, q, agents).rps, R)
<1> DEFINE Q  == l.rps
           rp == [Q[q] EXCEPT !.agents = {x \in @ : x[1] \in agents}]
<1>1. Q \in RunningPlans /\ l.touched \in SUBSET Plans
  OBVIOUS
<1>2. CASE Parents(Q, q) \cap ({p} \cup l.touched) = {} \/ Q[q].cycle = "overridden"
  <2>1. Limit(l, p, q, agents) = l
    BY <1>2 DEF Limit
  <2>2. QED
    BY <2>1
<1>3. CASE ~ (Parents(Q, q) \cap ({p} \cup l.touched) = {} \/ Q[q].cycle = "overridden")
  <2> DEFINE touched == IF InState(Q[q], Q[q].state) \subseteq agents
                        THEN l.touched ELSE l.touched \cup {q}
  <2>1. Limit(l, p, q, agents)
          = [rps |-> [Q EXCEPT ![q].agents = {x \in @ : x[1] \in agents}], touched |-> touched]
    BY <1>3 DEF Limit
  <2>2. Q[q] \in RunningPlan
    BY <1>1 DEF RunningPlans
  <2>3. [Q EXCEPT ![q].agents = {x \in @ : x[1] \in agents}] = [Q EXCEPT ![q] = rp]
    OBVIOUS
  <2>4. touched \in SUBSET Plans
    BY <1>1
  <2> HIDE DEF touched
  <2>5. rp \in RunningPlan /\ rp.state = Q[q].state
        /\ rp.agents = {x \in Q[q].agents : x[1] \in agents}
    BY <2>2 DEF RunningPlan
  <2> HIDE DEF rp
  <2>6. CASE q \in MyPlans(Q)
    <3>1. Runs(Q[q], q)
      BY <2>6, PlanOfMine
    <3>2. Placed(rp)
      BY <2>5, <3>1 DEF Runs, Placed
    <3>3. Runs(rp, q)
      BY <2>5, <3>1, <3>2 DEF Runs
    <3>4. GoodPlans([Q EXCEPT ![q] = rp]) /\ MyPlans([Q EXCEPT ![q] = rp]) = MyPlans(Q)
      BY <2>6, <3>3, PlanChanged
    <3>5. SameStates([Q EXCEPT ![q] = rp], R)
      BY <1>1, <2>5 DEF SameStates, RunningPlans
    <3> HIDE DEF Q
    <3>6. [Q EXCEPT ![q] = rp] \in RunningPlans
      BY <3>4 DEF GoodPlans
    <3>7. QED
      BY <2>1, <2>3, <2>4, <3>4, <3>5, <3>6 DEF Q
  <2>7. CASE q \notin MyPlans(Q)
    <3> DEFINE W == [Q EXCEPT ![q] = rp]
    <3>1. W \in RunningPlans /\ W[q] = rp /\ \A u \in Plans \ {q} : W[u] = Q[u]
      BY <1>1, <2>5 DEF RunningPlans
    <3>7. SameStates(W, R)
      BY <1>1, <2>5, <3>1 DEF SameStates
    <3>2. Q[q].state = None
      BY <2>7 DEF MyPlans
    <3> HIDE DEF W
    <3>3. MyPlans(W) = MyPlans(Q)
      BY <2>5, <3>1, <3>2 DEF MyPlans
    <3>4. \A u \in MyPlans(W) : Runs(W[u], u)
      BY <2>7, <3>1, <3>3 DEF GoodPlans, MyPlans
    <3>5. GoodPlans(W)
      BY <3>1, <3>3, <3>4 DEF GoodPlans
    <3>6. QED
      BY <2>1, <2>3, <2>4, <3>1, <3>5, <3>7 DEF W
  <2>8. QED
    BY <2>6, <2>7
<1>4. QED
  BY <1>2, <1>3

LEMMA LimitedGood ==
  ASSUME NEW R, GoodPlans(R), NEW p \in Plans, NEW agents, Me \in agents
  PROVE  /\ GoodPlans(Limited(R, p, agents)) /\ SameStates(Limited(R, p, agents), R)
         /\ MyPlans(Limited(R, p, agents)) = MyPlans(R)
<1> DEFINE order == DepthFirst(R, p)
           n == Len(order)
           L == [rps : RunningPlans, touched : SUBSET Plans]
           S == {l \in L : GoodPlans(l.rps) /\ SameStates(l.rps, R)}
           c == [rps |-> R, touched |-> {}]
           steps == [k \in 1..n |-> [l \in S |-> Limit(l, p, order[k], agents)]]
           g == CHOOSE h : h = [k \in 0..n |-> IF k = 0 THEN c
                                               ELSE Limit(h[k - 1], p, order[k], agents)]
<1>1. n \in Nat /\ \A k \in 1..n : order[k] \in Plans
  <2>1. R \in RunningPlans
    BY DEF GoodPlans
  <2>2. order \in Seq(Plans \cap MyPlans(R))
    BY <2>1, AllPlansAreFamily, DepthFirstVisits
  <2> HIDE DEF order
  <2>3. QED
    BY <2>2
<1>2. c \in S
  BY DEF GoodPlans, SameStates
<1>3. ASSUME NEW k \in 1..n, NEW l \in S PROVE Limit(l, p, order[k], agents) \in S
  <2>1. l \in L /\ GoodPlans(l.rps) /\ SameStates(l.rps, R)
    BY <1>3
  <2>2. order[k] \in Plans
    BY <1>1
  <2> HIDE DEF order
  <2>3. QED
    BY <2>1, <2>2, LimitGood
<1>4. Limited(R, p, agents) = g[n].rps
  BY DEF Limited
<1>5. \A l \in S : GoodPlans(l.rps) /\ SameStates(l.rps, R)
  OBVIOUS
<1> HIDE DEF n, S, c, order
<1>6. steps \in StepsOn(S, n)
  BY <1>3 DEF StepsOn
<1> HIDE DEF steps
<1>7. PICK f : StaysIn(f, S, n) /\ Unfolds(f, c, steps, n)
  BY <1>1, <1>2, <1>6, IntervalRecursion
<1>8. f \in [0..n -> S] /\ f[0] = c /\ \A k \in 1..n : f[k] = steps[k][f[k - 1]]
  BY <1>7 DEF StaysIn, Unfolds
<1>9. ASSUME NEW k \in 1..n PROVE f[k] = Limit(f[k - 1], p, order[k], agents)
  <2>1. f[k - 1] \in S
    BY <1>1, <1>8
  <2>2. QED
    BY <1>8, <2>1 DEF steps
<1>10. f = [k \in 0..n |-> IF k = 0 THEN c ELSE Limit(f[k - 1], p, order[k], agents)]
  BY <1>1, <1>8, <1>9
<1>11. g = [k \in 0..n |-> IF k = 0 THEN c ELSE Limit(g[k - 1], p, order[k], agents)]
  BY <1>10
<1> HIDE DEF g
<1>12. SameSteps(f, g, n)
  BY <1>1, <1>8, <1>9, <1>11 DEF SameSteps
<1>13. g[n] \in S
  BY <1>1, <1>8, <1>12, IntervalUnique DEF SameValues
<1>14. QED
  BY <1>4, <1>5, <1>13, SameStatesSamePlans

\* The robot enters state s, alone or with all of its state.
LEMMA MoveAllRuns ==
  ASSUME NEW rp, NEW p, Runs(rp, p), NEW s \in States, PlanOf[s] = p
  PROVE  Runs(MoveAll(rp, s), p)
<1> DEFINE to(x) == IF x[2] = rp.state THEN <<x[1], s>> ELSE x
           new == MoveAll(rp, s)
<1>1. rp \in RunningPlan /\ Placed(rp)
  BY DEF Runs
<1>2. rp.agents \subseteq Agents \X States
  BY <1>1 DEF RunningPlan
<1>3. new.state = s /\ new.agents = {to(x) : x \in rp.agents}
      /\ new.protected \in {"plan", "state", "no"}
      /\ new.cycle = rp.cycle
      /\ new = [state |-> new.state, protected |-> new.protected, cycle |-> new.cycle,
                agents |-> new.agents]
  <2> DEFINE e == Entered(rp, s)
  <2>1. /\ e \in RunningPlan /\ e.state = s /\ e.agents = rp.agents /\ e.cycle = rp.cycle
    BY <1>1 DEF Entered, RunningPlan
  <2>2. new = [e EXCEPT !.agents = {to(x) : x \in rp.agents}]
    BY <2>1 DEF MoveAll
  <2> HIDE DEF e, new, to
  <2>3. QED
    BY <2>1, <2>2 DEF RunningPlan
<1> HIDE DEF new
<1>4. \A x \in rp.agents : to(x) \in Agents \X States /\ to(x)[1] = x[1]
  BY <1>2
<1>5. new \in RunningPlan
  <2> HIDE DEF to
  <2>1. new.agents \in SUBSET (Agents \X States)
    BY <1>3, <1>4
  <2>2. QED
    BY <1>1, <1>3, <2>1 DEF RunningPlan
<1>6. Placed(new)
  <2>1. <<Me, rp.state>> \in rp.agents /\ \A x, y \in rp.agents : x[1] = y[1] => x = y
    BY <1>1 DEF Placed
  <2>2. <<Me, s>> = to(<<Me, rp.state>>)
    OBVIOUS
  <2>3. <<Me, s>> \in new.agents
    BY <1>3, <2>1, <2>2
  <2> HIDE DEF to
  <2>4. ASSUME NEW x \in new.agents, NEW y \in new.agents, x[1] = y[1] PROVE x = y
    BY <1>3, <1>4, <2>1, <2>4
  <2>5. QED
    BY <1>3, <2>3, <2>4 DEF Placed
<1>7. QED
  BY <1>3, <1>5, <1>6 DEF Runs, new

\* Whoever keeps its task keeps its state; nobody has two, and Me has one.
LEMMA AdaptedPlaces ==
  ASSUME NEW rp, NEW p, Runs(rp, p), NEW crew \in SUBSET Agents, Me \in crew,
         NEW task \in [Agents -> EntryPoints \cup {None}], task[Me] # None,
         \A a \in Agents : task[a] # None => PlanOfMark(task[a]) = p
  PROVE  /\ Adapted(rp, crew, task) \subseteq Agents \X States
         /\ \A x, y \in Adapted(rp, crew, task) : x[1] = y[1] => x = y
         /\ \E s \in States : PlanOf[s] = p /\ <<Me, s>> \in Adapted(rp, crew, task)
<1> DEFINE kept(a) == \E x \in PlaceOf(rp, a) : EntryOf[x[2]] = task[a]
           new(a) == IF kept(a) THEN CHOOSE x \in PlaceOf(rp, a) : TRUE
                     ELSE <<a, InitialState[task[a]]>>
           who == {b \in crew : task[b] # None}
<1>1. Adapted(rp, crew, task) = {new(a) : a \in who}
  BY DEF Adapted
<1>2. ASSUME NEW a \in who PROVE new(a) \in Agents \X States /\ new(a)[1] = a
  <2>1. CASE kept(a)
    <3>1. new(a) \in PlaceOf(rp, a)
      BY <2>1
    <3>2. rp.agents \subseteq Agents \X States
      BY DEF Runs, RunningPlan
    <3> HIDE DEF new
    <3>3. QED
      BY <3>1, <3>2 DEF PlaceOf
  <2>2. CASE ~ kept(a)
    <3>1. task[a] \in EntryPoints
      BY <1>2
    <3>2. InitialState[task[a]] \in States
      BY <3>1, TeamAssumption
    <3>3. QED
      BY <2>2, <3>2
  <2>3. QED
    BY <2>1, <2>2
<1>3. \E s \in States : PlanOf[s] = p /\ new(Me) = <<Me, s>>
  <2>1. CASE kept(Me)
    <3>1. new(Me) \in PlaceOf(rp, Me)
      BY <2>1
    <3>2. new(Me) = <<Me, rp.state>>
      BY <3>1, PlaceOfMe
    <3>3. QED
      BY <3>2 DEF Runs
  <2>2. CASE ~ kept(Me)
    <3>1. task[Me] \in EntryPoints /\ PlanOfMark(task[Me]) = p
      BY DEF Agents
    <3>2. InitialState[task[Me]] \in States
      BY <3>1, TeamAssumption
    <3>3. QED
      BY <2>2, <3>1, <3>2 DEF PlanOfMark
  <2>3. QED
    BY <2>1, <2>2
<1>4. Me \in who
  OBVIOUS
<1> HIDE DEF new
<1>5. Adapted(rp, crew, task) \subseteq Agents \X States
  BY <1>1, <1>2
<1>6. \A x, y \in Adapted(rp, crew, task) : x[1] = y[1] => x = y
  BY <1>1, <1>2
<1>7. QED
  BY <1>1, <1>3, <1>4, <1>5, <1>6

\* A plan is entered anew after those below it were left.
LEMMA DropGood ==
  ASSUME NEW R, GoodPlans(R), NEW p \in MyPlans(R), NEW rp, Runs(rp, p)
  PROVE  /\ GoodPlans([Drop(R, p) EXCEPT ![p] = rp])
         /\ MyPlans([Drop(R, p) EXCEPT ![p] = rp]) = MyPlans(R) \ Below(R, p)
<1> DEFINE B == Below(R, p)
           Q == [Drop(R, p) EXCEPT ![p] = rp]
<1>1. p \in Plans /\ R \in RunningPlans /\ p \notin B
  BY PlanOfMine DEF GoodPlans, Below
<1>2. Drop(R, p) = [q \in Plans |-> IF q \in B THEN NoPlan ELSE R[q]]
  BY DEF Drop
<1>3. Master \notin B
  <2> DEFINE W == {p} \cup (Plans \ {Master})
  <2>1. ASSUME NEW q \in W \cap MyPlans(R), NEW c \in ToSet(PlansIn[R[q].state]) PROVE c \in W
    <3>1. R[q].state \in States
      BY PlanOfMine
    <3>2. QED
      BY <2>1, <3>1, PlansOfStates, HierarchyAssumption
  <2>2. Family(R, W) /\ p \in W
    BY <1>1, <2>1 DEF Family
  <2>3. CASE p = Master
    BY <1>1, <2>3
  <2>4. CASE p # Master
    <3>1. Master \notin W
      BY <2>4
    <3> HIDE DEF W
    <3>2. DepthFirst(R, p) \in Seq(W \cap MyPlans(R))
      BY <1>1, <2>2, DepthFirstVisits
    <3>3. QED
      BY <3>1, <3>2 DEF Below, ToSet
  <2>5. QED
    BY <2>3, <2>4
<1>4. rp \in RunningPlan /\ rp.state # None
  BY TeamAssumption DEF Runs
<1>5. Q \in RunningPlans /\ Q[p] = rp
      /\ \A q \in Plans \ {p} : Q[q] = IF q \in B THEN NoPlan ELSE R[q]
  <2>1. NoPlan \in RunningPlan
    BY DEF NoPlan, RunningPlan
  <2> HIDE DEF B
  <2>2. Drop(R, p) \in RunningPlans
    BY <1>1, <1>2, <2>1 DEF RunningPlans
  <2>3. QED
    BY <1>1, <1>2, <1>4, <2>2 DEF RunningPlans
<1> HIDE DEF B, Q
<1>6. MyPlans(Q) = MyPlans(R) \ B
  BY <1>1, <1>4, <1>5 DEF MyPlans, NoPlan
<1>7. \A q \in MyPlans(Q) : Runs(Q[q], q)
  BY <1>5, <1>6, PlanOfMine
<1>8. Master \in MyPlans(Q)
  BY <1>3, <1>6 DEF GoodPlans
<1>9. QED
  BY <1>5, <1>6, <1>7, <1>8 DEF GoodPlans, Q, B

-------------------------------------------------------------------------------
(* The update of the assignments *)

LEMMA TreesAreTrees ==
  ASSUME NEW t \in Trees
  PROVE  t \subseteq States \X (States \cup {None})
<1>1. PICK S \in SUBSET States :
        /\ t = {<<s, Holder(S, s)>> : s \in S}
        /\ \A s \in S : \/ PlanOf[s] = Master
                        \/ \E h \in S : PlanOf[s] \in ToSet(PlansIn[h])
  BY DEF Trees
<1>2. \A s \in S : Holder(S, s) \in States \cup {None}
  <2>1. ASSUME NEW s \in S, PlanOf[s] # Master
        PROVE  (CHOOSE h \in S : PlanOf[s] \in ToSet(PlansIn[h])) \in S
    BY <1>1, <2>1
  <2>2. QED
    BY <2>1 DEF Holder
<1>3. QED
  BY <1>1, <1>2

TreesKnown(trees) == trees \in [Others -> SimplePlanTree]

LEMMA ReportingIsKnown ==
  ASSUME NEW R, GoodPlans(R), NEW p \in MyPlans(R), NEW trees, TreesKnown(trees),
         NEW a \in Reporting(R, trees, p)
  PROVE  /\ a \in Others /\ a # Me
         /\ (CHOOSE s \in InTree(trees[a].tree, p) : TRUE) \in InTree(trees[a].tree, p)
         /\ InTree(trees[a].tree, p) \subseteq States
<1> DEFINE tree == trees[a].tree
<1>1. a \in Others /\ tree # {} /\ Leads(tree, R, p)
  BY DEF Reporting, Known
<1>2. tree \in Trees
  BY <1>1 DEF TreesKnown, SimplePlanTree
<1>3. tree \subseteq States \X (States \cup {None})
  BY <1>2, TreesAreTrees
<1>4. p \in Upto(R, p)
  BY DEF Upto
<1>5. InTree(tree, p) # {}
  <2>1. CASE p = Master
    BY <1>1, <1>4, <2>1 DEF Leads, ContainsPlan
  <2>2. CASE p # Master
    <3>1. PICK e \in tree : PlanOf[e[1]] = p
      BY <1>1, <1>4, <2>2 DEF Leads
    <3>2. e[1] \in InTree(tree, p)
      BY <3>1 DEF InTree, StatesOf
    <3>3. QED
      BY <3>2
  <2>3. QED
    BY <2>1, <2>2
<1>6. InTree(tree, p) \subseteq States
  BY <1>3 DEF InTree, StatesOf
<1>7. QED
  BY <1>1, <1>5, <1>6, TeamAssumption

LEMMA ReportedPlaces ==
  ASSUME NEW rp, NEW p, Runs(rp, p), NEW a \in Agents, NEW s \in States
  PROVE  /\ Reported(rp, a, s) \subseteq Agents \X States
         /\ \A x \in Reported(rp, a, s) : x[1] = a
         /\ \A x, y \in Reported(rp, a, s) : x = y
         /\ Reported(rp, a, s) # {}
<1> DEFINE old == PlaceOf(rp, a)
<1>1. /\ rp.agents \subseteq Agents \X States
      /\ \A x, y \in rp.agents : x[1] = y[1] => x = y
  BY DEF Runs, RunningPlan, Placed
<1>2. old \subseteq Agents \X States /\ (\A x \in old : x[1] = a) /\ \A x, y \in old : x = y
  BY <1>1 DEF PlaceOf
<1>3. Reported(rp, a, s) = {<<a, s>>} \/ (Reported(rp, a, s) = old /\ old # {})
  BY DEF Reported
<1> HIDE DEF old
<1>4. CASE Reported(rp, a, s) = {<<a, s>>}
  BY <1>4
<1>5. CASE Reported(rp, a, s) = old /\ old # {}
  BY <1>2, <1>5
<1>6. QED
  BY <1>3, <1>4, <1>5

\* One plan's assignment after the update: nobody has two places, Me keeps its
\* own, which only rules change.
LEMMA AgentsAfterPlaces ==
  ASSUME NEW R, GoodPlans(R), NEW p \in MyPlans(R), NEW trees, TreesKnown(trees),
         NEW available, Me \in available
  PROVE  /\ AgentsAfter(R, trees, p, available) \subseteq Agents \X States
         /\ \A x, y \in AgentsAfter(R, trees, p, available) : x[1] = y[1] => x = y
         /\ <<Me, R[p].state>> \in AgentsAfter(R, trees, p, available)
<1> DEFINE rp == R[p]
           new == Reporting(R, trees, p)
           told(a) == Reported(rp, a, CHOOSE s \in InTree(trees[a].tree, p) : TRUE)
           heard == Heard(rp, trees, p, new)
<1>1. Runs(rp, p)
  BY PlanOfMine
<1>2. /\ rp.agents \subseteq Agents \X States
      /\ \A x, y \in rp.agents : x[1] = y[1] => x = y
      /\ <<Me, rp.state>> \in rp.agents
  BY <1>1 DEF Runs, RunningPlan, Placed
<1>3. ASSUME NEW a \in new
      PROVE  /\ told(a) \subseteq Agents \X States
             /\ (\A x \in told(a) : x[1] = a) /\ \A x, y \in told(a) : x = y
  <2> DEFINE s == CHOOSE s \in InTree(trees[a].tree, p) : TRUE
  <2>1. a \in Others /\ s \in States
    BY ReportingIsKnown
  <2>2. a \in Agents
    BY <2>1 DEF Agents
  <2> HIDE DEF s
  <2>3. /\ Reported(rp, a, s) \subseteq Agents \X States
        /\ (\A x \in Reported(rp, a, s) : x[1] = a) /\ \A x, y \in Reported(rp, a, s) : x = y
    BY <1>1, <2>1, <2>2, ReportedPlaces
  <2>4. QED
    BY <2>3 DEF s
<1>4. Me \notin new
  BY TeamAssumption DEF Reporting, Known
<1>5. heard = {x \in rp.agents : x[1] \notin new} \cup (UNION {told(a) : a \in new})
  BY DEF Heard
<1>6. AgentsAfter(R, trees, p, available)
        = {x \in heard : Stays(rp, x, new, NoUpdates(trees)) /\ Available(rp, x, available)}
  BY DEF AgentsAfter
<1> HIDE DEF told, new, rp, heard
<1>7. heard \subseteq Agents \X States
  BY <1>2, <1>3, <1>5
<1>8. \A x, y \in heard : x[1] = y[1] => x = y
  BY <1>2, <1>3, <1>5
<1>9. <<Me, rp.state>> \in heard
  BY <1>2, <1>4, <1>5
<1>10. Stays(rp, <<Me, rp.state>>, new, NoUpdates(trees))
  BY DEF Stays
<1>11. Available(rp, <<Me, rp.state>>, available)
  BY DEF Available
<1>12. QED
  BY <1>6, <1>7, <1>8, <1>9, <1>10, <1>11 DEF rp

\* What is known between the updates of two plans: the list of available agents,
\* and running plans that differ from R in their assignments only.
Updates(R) ==
  {u \in [rps : RunningPlans, available : SUBSET Agents] :
     /\ GoodPlans(u.rps) /\ Me \in u.available
     /\ \A q \in Plans : u.rps[q].state = R[q].state}

LEMMA UpdateAssignmentGood ==
  ASSUME NEW R, GoodPlans(R), NEW p \in MyPlans(R), NEW trees, TreesKnown(trees),
         NEW u \in Updates(R)
  PROVE  /\ UpdateAssignment(R, trees, u, p) \in Updates(R)
         /\ UpdateAssignment(R, trees, u, p).rps[p].agents
              = AgentsAfter(R, trees, p, u.available)
         /\ \A q \in Plans \ {p} : UpdateAssignment(R, trees, u, p).rps[q] = u.rps[q]
<1> DEFINE after == AgentsAfter(R, trees, p, u.available)
           rp == [R[p] EXCEPT !.agents = after]
           w == UpdateAssignment(R, trees, u, p)
<1>1. u.rps \in RunningPlans /\ u.available \subseteq Agents /\ GoodPlans(u.rps)
      /\ Me \in u.available /\ \A q \in Plans : u.rps[q].state = R[q].state
  BY DEF Updates
<1>2. Runs(R[p], p) /\ p \in Plans
  BY PlanOfMine
<1>3. /\ after \subseteq Agents \X States
      /\ \A x, y \in after : x[1] = y[1] => x = y
      /\ <<Me, R[p].state>> \in after
  BY <1>1, AgentsAfterPlaces
<1>4. w = [rps |-> [u.rps EXCEPT ![p] = rp], available |-> AvailableAfter(rp, u.available)]
  BY DEF UpdateAssignment
<1> HIDE DEF after, w
<1>5. rp \in RunningPlan /\ rp.state = R[p].state /\ rp.agents = after
      /\ rp.cycle = R[p].cycle
  BY <1>2, <1>3 DEF Runs, RunningPlan
<1> HIDE DEF rp
<1>6. Runs(rp, p)
  BY <1>2, <1>3, <1>5 DEF Runs, Placed
<1>7. GoodPlans([u.rps EXCEPT ![p] = rp])
  BY <1>1, <1>2, <1>6, PlanChanged
<1>8. w.rps = [u.rps EXCEPT ![p] = rp] /\ w.available = AvailableAfter(rp, u.available)
      /\ w = [rps |-> w.rps, available |-> w.available]
  BY <1>4
<1>9. w.rps \in RunningPlans /\ w.rps[p] = rp /\ \A q \in Plans \ {p} : w.rps[q] = u.rps[q]
  BY <1>1, <1>2, <1>5, <1>8 DEF RunningPlans
<1>10. w.available \subseteq Agents
  BY <1>1, <1>8 DEF AvailableAfter
<1>11. Me \in w.available
  <2>1. <<Me, rp.state>> \in rp.agents
    BY <1>6 DEF Runs, Placed
  <2>2. Me \in InState(rp, rp.state) /\ Me \in InTask(rp, EntryOf[rp.state])
    BY <2>1 DEF InState, InTask
  <2>3. QED
    BY <1>1, <1>8, <2>2 DEF AvailableAfter
<1>12. \A q \in Plans : w.rps[q].state = R[q].state
  BY <1>1, <1>5, <1>9
<1>13. w \in Updates(R)
  BY <1>7, <1>8, <1>9, <1>10, <1>11, <1>12 DEF Updates
<1>14. QED
  BY <1>5, <1>9, <1>13 DEF w, after

\* g is the course of RecursiveUpdateAssignment(R, trees, agents).
UpdateCourse(g, R, trees, agents) ==
  LET order == DepthFirst(R, Master) IN
  /\ g \in [0..Len(order) -> Updates(R)]
  /\ g[0] = [rps |-> R, available |-> agents]
  /\ \A k \in 1..Len(order) : g[k] = UpdateAssignment(R, trees, g[k - 1], order[k])
  /\ RecursiveUpdateAssignment(R, trees, agents) = g[Len(order)].rps

LEMMA UpdateCourseExists ==
  ASSUME NEW R, GoodPlans(R), NEW trees, TreesKnown(trees),
         NEW agents \in SUBSET Agents, Me \in agents
  PROVE  /\ \E g : UpdateCourse(g, R, trees, agents)
         /\ RecursiveUpdateAssignment(R, trees, agents)
              \in {Q \in RunningPlans : GoodPlans(Q) /\ MyPlans(Q) = MyPlans(R)}
<1> DEFINE order == DepthFirst(R, Master)
           n == Len(order)
           S == Updates(R)
           c == [rps |-> R, available |-> agents]
           steps == [k \in 1..n |-> [u \in S |-> UpdateAssignment(R, trees, u, order[k])]]
           g == CHOOSE h : h = [k \in 0..n |->
                  IF k = 0 THEN c ELSE UpdateAssignment(R, trees, h[k - 1], order[k])]
<1>1. n \in Nat /\ \A k \in 1..n : order[k] \in MyPlans(R)
  <2>1. R \in RunningPlans /\ Master \in Plans
    BY TeamAssumption DEF GoodPlans
  <2>2. order \in Seq(Plans \cap MyPlans(R))
    BY <2>1, AllPlansAreFamily, DepthFirstVisits
  <2> HIDE DEF order
  <2>3. QED
    BY <2>2
<1>2. c \in S
  BY DEF GoodPlans, Updates
<1>3. ASSUME NEW k \in 1..n, NEW u \in S
      PROVE  UpdateAssignment(R, trees, u, order[k]) \in S
  BY <1>1, UpdateAssignmentGood
<1>4. RecursiveUpdateAssignment(R, trees, agents) = g[n].rps
  BY DEF RecursiveUpdateAssignment
<1>5. \A u \in S : u.rps \in RunningPlans /\ GoodPlans(u.rps) /\ MyPlans(u.rps) = MyPlans(R)
  BY DEF Updates, MyPlans
<1> HIDE DEF n, S, c, order
<1>6. steps \in StepsOn(S, n)
  BY <1>3 DEF StepsOn
<1> HIDE DEF steps
<1>7. PICK f : StaysIn(f, S, n) /\ Unfolds(f, c, steps, n)
  BY <1>1, <1>2, <1>6, IntervalRecursion
<1>8. f \in [0..n -> S] /\ f[0] = c /\ \A k \in 1..n : f[k] = steps[k][f[k - 1]]
  BY <1>7 DEF StaysIn, Unfolds
<1>9. ASSUME NEW k \in 1..n PROVE f[k] = UpdateAssignment(R, trees, f[k - 1], order[k])
  <2>1. f[k - 1] \in S
    BY <1>1, <1>8
  <2>2. QED
    BY <1>8, <2>1 DEF steps
<1>10. f = [k \in 0..n |->
              IF k = 0 THEN c ELSE UpdateAssignment(R, trees, f[k - 1], order[k])]
  BY <1>1, <1>8, <1>9
<1>11. g = [k \in 0..n |->
              IF k = 0 THEN c ELSE UpdateAssignment(R, trees, g[k - 1], order[k])]
  BY <1>10
<1> HIDE DEF g
<1>12. SameSteps(f, g, n)
  BY <1>1, <1>8, <1>9, <1>11 DEF SameSteps
<1>13. f[n] = g[n] /\ g[n] \in S
  BY <1>1, <1>8, <1>12, IntervalUnique DEF SameValues
<1>14. UpdateCourse(f, R, trees, agents)
  BY <1>4, <1>8, <1>9, <1>13 DEF UpdateCourse, n, S, c, order
<1>15. QED
  BY <1>4, <1>5, <1>13, <1>14

-------------------------------------------------------------------------------
(* Messages *)

Ids == States \cup {"open", "close"}

\* Reading ids takes the reader from a to b.
Reading(ids, a, b) ==
  \E r : /\ r[0] = a /\ r[Len(ids)] = b
         /\ \A k \in 1..Len(ids) : r[k] = Read(r[k - 1], ids[k])

LEMMA ReadNothing ==
  ASSUME NEW a
  PROVE  Reading(<< >>, a, a)
<1> DEFINE r == [k \in 0..0 |-> a]
<1>1. r[0] = a /\ Len(<< >>) = 0 /\ \A k \in 1..0 : r[k] = Read(r[k - 1], << >>[k])
  OBVIOUS
<1> HIDE DEF r
<1>2. QED
  BY <1>1 DEF Reading

LEMMA ReadOne ==
  ASSUME NEW a, NEW id
  PROVE  Reading(<<id>>, a, Read(a, id))
<1> DEFINE r == [k \in 0..1 |-> IF k = 0 THEN a ELSE Read(a, id)]
<1>1. r[0] = a /\ r[1] = Read(a, id) /\ Len(<<id>>) = 1 /\ <<id>>[1] = id
  OBVIOUS
<1> HIDE DEF r
<1>2. \A k \in 1..1 : r[k] = Read(r[k - 1], <<id>>[k])
  <2>1. \A k \in 1..1 : k = 1 /\ k - 1 = 0
    OBVIOUS
  <2>2. QED
    BY <1>1, <2>1
<1>3. QED
  BY <1>1, <1>2 DEF Reading

LEMMA ReadOn ==
  ASSUME NEW S, NEW x \in Seq(S), NEW y \in Seq(S), NEW a, NEW b, NEW c,
         Reading(x, a, b), Reading(y, b, c)
  PROVE  Reading(x \o y, a, c)
<1> DEFINE m == Len(x)
           n == Len(y)
           z == x \o y
<1>1. PICK r : r[0] = a /\ r[m] = b /\ \A k \in 1..m : r[k] = Read(r[k - 1], x[k])
  BY DEF Reading
<1>2. PICK q : q[0] = b /\ q[n] = c /\ \A k \in 1..n : q[k] = Read(q[k - 1], y[k])
  BY DEF Reading
<1>3. m \in Nat /\ n \in Nat /\ Len(z) = m + n
      /\ (\A k \in 1..m : z[k] = x[k]) /\ \A k \in (m + 1)..(m + n) : z[k] = y[k - m]
  OBVIOUS
<1> DEFINE f == [k \in 0..(m + n) |-> IF k <= m THEN r[k] ELSE q[k - m]]
<1> HIDE DEF z, m, n
<1>4. f[0] = a
  BY <1>1, <1>3
<1>5. f[m + n] = c
  <2>1. CASE n = 0
    BY <1>1, <1>2, <1>3, <2>1
  <2>2. CASE n # 0
    BY <1>2, <1>3, <2>2
  <2>3. QED
    BY <2>1, <2>2
<1>6. ASSUME NEW k \in 1..(m + n) PROVE f[k] = Read(f[k - 1], z[k])
  <2>1. CASE k <= m
    BY <1>1, <1>3, <2>1
  <2>2. CASE k = m + 1
    <3>1. k - m = 1 /\ 1 \in 1..n /\ 1 - 1 = 0 /\ k - 1 = m /\ ~ (k <= m)
          /\ k \in 0..(m + n) /\ m \in 0..(m + n) /\ k \in (m + 1)..(m + n)
      BY <1>3, <2>2
    <3>2. f[k] = q[1] /\ f[m] = r[m]
      BY <1>3, <3>1
    <3>3. z[k] = y[1]
      BY <1>3, <3>1
    <3>4. q[1] = Read(q[0], y[1])
      BY <1>2, <3>1
    <3> HIDE DEF f
    <3>5. QED
      BY <1>1, <1>2, <3>1, <3>2, <3>3, <3>4
  <2>3. CASE k > m + 1
    <3>1. k - m \in 1..n /\ k \in (m + 1)..(m + n) /\ ~ (k <= m) /\ ~ (k - 1 <= m)
          /\ k \in 0..(m + n) /\ k - 1 \in 0..(m + n) /\ (k - 1) - m = (k - m) - 1
      BY <1>3, <2>3
    <3>2. f[k] = q[k - m] /\ f[k - 1] = q[(k - m) - 1]
      BY <3>1
    <3>3. z[k] = y[k - m]
      BY <1>3, <3>1
    <3> HIDE DEF f
    <3>4. QED
      BY <1>2, <3>1, <3>2, <3>3
  <2>4. QED
    BY <1>3, <2>1, <2>2, <2>3
<1> HIDE DEF f
<1>7. QED
  BY <1>3, <1>4, <1>5, <1>6 DEF Reading, z

LEMMA SptIsRead ==
  ASSUME NEW ids, Len(ids) \in Nat, NEW b,
         Reading(ids, [spt |-> {}, cur |-> None, parent |-> None], b)
  PROVE  SptFromMessage(ids) = b.spt
<1> DEFINE n == Len(ids)
           c == [spt |-> {}, cur |-> None, parent |-> None]
           g == CHOOSE h : h = [k \in 0..n |-> IF k = 0 THEN c ELSE Read(h[k - 1], ids[k])]
<1>1. SptFromMessage(ids) = g[n].spt
  BY DEF SptFromMessage
<1> HIDE DEF c
<1>2. PICK r : r[0] = c /\ r[n] = b /\ \A k \in 1..n : r[k] = Read(r[k - 1], ids[k])
  BY DEF Reading, c
<1> HIDE DEF n
<1>3. n \in Nat
  BY DEF n
<1> DEFINE f == [k \in 0..n |-> r[k]]
<1>4. f[0] = c /\ f[n] = b /\ \A k \in 1..n : f[k] = Read(f[k - 1], ids[k])
  BY <1>2, <1>3
<1>5. f = [k \in 0..n |-> IF k = 0 THEN c ELSE Read(f[k - 1], ids[k])]
  <2>1. \A k \in 0..n : k # 0 => k \in 1..n
    BY <1>3
  <2>2. \A k \in 0..n : f[k] = IF k = 0 THEN c ELSE Read(f[k - 1], ids[k])
    BY <1>4, <2>1
  <2>3. f = [k \in 0..n |-> f[k]]
    OBVIOUS
  <2> HIDE DEF f
  <2>4. QED
    BY <2>2, <2>3
<1> HIDE DEF f
<1>6. g = [k \in 0..n |-> IF k = 0 THEN c ELSE Read(g[k - 1], ids[k])]
  BY <1>5
<1> HIDE DEF g
<1>7. SameSteps(f, g, n)
  <2>1. g[0] = c
    BY <1>3, <1>6
  <2>2. \A k \in 1..n : g[k] = Read(g[k - 1], ids[k])
    BY <1>3, <1>6
  <2>3. QED
    BY <1>4, <2>1, <2>2 DEF SameSteps
<1>8. f[n] = g[n]
  BY <1>3, <1>7, IntervalUnique DEF SameValues
<1>9. QED
  BY <1>1, <1>4, <1>8

\* FlattenSeq, one part after the other.
Flattens(f, parts) ==
  /\ f[1] = parts[1]
  /\ \A i \in 2..Len(parts) : f[i] = f[i - 1] \o parts[i]
  /\ FlattenSeq(parts) = f[Len(parts)]

LEMMA FlattenIs ==
  ASSUME NEW S, NEW parts \in Seq(Seq(S)), Len(parts) # 0
  PROVE  \E f \in [1..Len(parts) -> Seq(S)] : Flattens(f, parts)
<1> DEFINE n == Len(parts)
           T == Seq(S)
           steps == [k \in 1..(n - 1) |-> [x \in T |-> x \o parts[k + 1]]]
           g == CHOOSE h : h = [i \in 1..n |-> IF i = 1 THEN parts[i]
                                               ELSE h[i - 1] \o parts[i]]
<1>1. n \in Nat /\ n >= 1 /\ n - 1 \in Nat /\ \A i \in 1..n : parts[i] \in T
  OBVIOUS
<1>2. FlattenSeq(parts) = g[n]
  BY DEF FlattenSeq
<1>3. \A x, y \in T : x \o y \in T
  OBVIOUS
<1> HIDE DEF n, T
<1>4. steps \in StepsOn(T, n - 1)
  <2>1. \A k \in 1..(n - 1) : parts[k + 1] \in T
    BY <1>1
  <2>2. QED
    BY <1>3, <2>1 DEF StepsOn
<1>5. parts[1] \in T
  BY <1>1
<1> HIDE DEF steps
<1>6. PICK d : StaysIn(d, T, n - 1) /\ Unfolds(d, parts[1], steps, n - 1)
  BY <1>1, <1>4, <1>5, IntervalRecursion
<1>7. d \in [0..(n - 1) -> T] /\ d[0] = parts[1]
      /\ \A k \in 1..(n - 1) : d[k] = steps[k][d[k - 1]]
  BY <1>6 DEF StaysIn, Unfolds
<1> DEFINE f == [i \in 1..n |-> d[i - 1]]
<1>8. f \in [1..n -> T] /\ f[1] = parts[1]
  BY <1>1, <1>7
<1>9. ASSUME NEW i \in 2..n PROVE f[i] = f[i - 1] \o parts[i]
  <2>1. i - 1 \in 1..(n - 1) /\ i - 2 \in 0..(n - 1) /\ i - 1 \in 1..n /\ i \in 1..n
        /\ (i - 1) - 1 = i - 2 /\ (i - 1) + 1 = i
    BY <1>1
  <2>2. d[i - 1] = steps[i - 1][d[i - 2]] /\ d[i - 2] \in T
    BY <1>7, <2>1
  <2>3. d[i - 1] = d[i - 2] \o parts[i]
    BY <2>1, <2>2 DEF steps
  <2>4. f[i] = d[i - 1] /\ f[i - 1] = d[i - 2]
    BY <2>1
  <2>5. QED
    BY <2>3, <2>4
<1>10. f = [i \in 1..n |-> IF i = 1 THEN parts[i] ELSE f[i - 1] \o parts[i]]
  <2>1. \A i \in 1..n : i # 1 => i \in 2..n
    BY <1>1
  <2>2. \A i \in 1..n : f[i] = IF i = 1 THEN parts[i] ELSE f[i - 1] \o parts[i]
    BY <1>8, <1>9, <2>1
  <2>3. f = [i \in 1..n |-> f[i]]
    OBVIOUS
  <2> HIDE DEF f
  <2>4. QED
    BY <2>2, <2>3
<1> HIDE DEF f
<1>11. g = [i \in 1..n |-> IF i = 1 THEN parts[i] ELSE g[i - 1] \o parts[i]]
  BY <1>10
<1> HIDE DEF g
<1> DEFINE f0 == [k \in 0..(n - 1) |-> f[k + 1]]
           g0 == [k \in 0..(n - 1) |-> g[k + 1]]
<1>12. SameSteps(f0, g0, n - 1)
  <2>1. f0[0] = parts[1] /\ g0[0] = parts[1]
    BY <1>1, <1>8, <1>11
  <2>2. ASSUME NEW k \in 1..(n - 1)
        PROVE  f0[k] = f0[k - 1] \o parts[k + 1] /\ g0[k] = g0[k - 1] \o parts[k + 1]
    <3>1. k + 1 \in 2..n /\ k + 1 \in 1..n /\ k + 1 # 1 /\ (k + 1) - 1 = k /\ (k - 1) + 1 = k
          /\ k \in 0..(n - 1) /\ k - 1 \in 0..(n - 1)
      BY <1>1
    <3>2. f[k + 1] = f[k] \o parts[k + 1] /\ g[k + 1] = g[k] \o parts[k + 1]
      BY <1>9, <1>11, <3>1
    <3>3. QED
      BY <3>1, <3>2
  <2> HIDE DEF f0, g0
  <2>3. QED
    BY <2>1, <2>2 DEF SameSteps
<1>13. f[n] = g[n]
  <2>1. \A k \in 0..(n - 1) : f0[k] = g0[k]
    <3> HIDE DEF f0, g0
    <3>1. QED
      BY <1>1, <1>12, IntervalUnique DEF SameValues
  <2>2. n - 1 \in 0..(n - 1) /\ (n - 1) + 1 = n
    BY <1>1
  <2>3. QED
    BY <2>1, <2>2
<1>14. Flattens(f, parts)
  BY <1>2, <1>8, <1>9, <1>13 DEF Flattens, n
<1>15. QED
  BY <1>8, <1>14 DEF n, T

\* What makes a set of <<state, parent>> a tree that a robot can be in.
IsTree(t) ==
  /\ t \subseteq States \X (States \cup {None})
  /\ \A d, e \in t : PlanOf[d[1]] = PlanOf[e[1]] => d = e
  /\ \A e \in t : e[2] = None <=> PlanOf[e[1]] = Master
  /\ \A e \in t : e[2] # None => /\ PlanOf[e[1]] \in ToSet(PlansIn[e[2]])
                                 /\ \E d \in t : d[1] = e[2]
  /\ \E e \in t : e[2] = None

LEMMA TreeFacts ==
  ASSUME NEW t \in Trees
  PROVE  IsTree(t)
<1>1. PICK S \in SUBSET States :
        /\ t = {<<s, Holder(S, s)>> : s \in S}
        /\ \E s \in S : PlanOf[s] = Master
        /\ \A s, u \in S : PlanOf[s] = PlanOf[u] => s = u
        /\ \A s \in S : \/ PlanOf[s] = Master
                        \/ \E h \in S : PlanOf[s] \in ToSet(PlansIn[h])
  BY DEF Trees
<1>2. ASSUME NEW s \in S, PlanOf[s] # Master
      PROVE  Holder(S, s) \in S /\ PlanOf[s] \in ToSet(PlansIn[Holder(S, s)])
  <2>1. (CHOOSE h \in S : PlanOf[s] \in ToSet(PlansIn[h]))
          \in {h \in S : PlanOf[s] \in ToSet(PlansIn[h])}
    BY <1>1, <1>2
  <2>2. QED
    BY <1>2, <2>1 DEF Holder
<1>3. \A s \in S : PlanOf[s] = Master => Holder(S, s) = None
  BY DEF Holder
<1>4. None \notin S
  BY TeamAssumption
<1>5. t \subseteq States \X (States \cup {None})
  BY TreesAreTrees
<1>6. \A d, e \in t : PlanOf[d[1]] = PlanOf[e[1]] => d = e
  BY <1>1
<1>7. \A e \in t : e[2] = None <=> PlanOf[e[1]] = Master
  BY <1>1, <1>2, <1>3, <1>4
<1>8. ASSUME NEW e \in t, e[2] # None
      PROVE  PlanOf[e[1]] \in ToSet(PlansIn[e[2]]) /\ \E d \in t : d[1] = e[2]
  <2>1. PICK s \in S : e = <<s, Holder(S, s)>>
    BY <1>1
  <2>2. Holder(S, s) \in S /\ PlanOf[s] \in ToSet(PlansIn[Holder(S, s)])
    BY <1>2, <1>3, <1>8, <2>1
  <2>3. <<Holder(S, s), Holder(S, Holder(S, s))>> \in t
    BY <1>1, <2>2
  <2>4. QED
    BY <2>1, <2>2, <2>3
<1>9. \E e \in t : e[2] = None
  <2>1. PICK s \in S : PlanOf[s] = Master
    BY <1>1
  <2>2. <<s, Holder(S, s)>> \in t /\ Holder(S, s) = None
    BY <1>1, <1>3, <2>1
  <2>3. QED
    BY <2>2
<1>10. QED
  BY <1>5, <1>6, <1>7, <1>8, <1>9 DEF IsTree

\* The only child of state s that runs plan p.
LEMMA OneChild ==
  ASSUME NEW t, IsTree(t), NEW s \in States, NEW p, ChildrenIn(t, s, p) # {}
  PROVE  /\ ChildIn(t, s, p) \in States /\ <<ChildIn(t, s, p), s>> \in t
         /\ PlanOf[ChildIn(t, s, p)] = p
         /\ \A d \in t : d[2] = s /\ PlanOf[d[1]] = p => d = <<ChildIn(t, s, p), s>>
<1> DEFINE c == ChildIn(t, s, p)
<1>1. c \in ChildrenIn(t, s, p)
  BY DEF ChildIn
<1>2. c \in StatesOf(t) /\ PlanOf[c] = p /\ <<c, s>> \in t
  BY <1>1 DEF ChildrenIn, InTree
<1>3. c \in States
  BY <1>2 DEF IsTree
<1>4. \A d \in t : d[2] = s /\ PlanOf[d[1]] = p => d = <<c, s>>
  <2> DEFINE e == <<c, s>>
  <2>1. e \in t /\ PlanOf[e[1]] = p
    BY <1>2
  <2> HIDE DEF e, c
  <2>2. \A d \in t : d[2] = s /\ PlanOf[d[1]] = p => d = e
    BY <2>1 DEF IsTree
  <2>3. QED
    BY <2>2 DEF e
<1>5. QED
  BY <1>2, <1>3, <1>4

\* The children of a state are those of its plans.
LEMMA ChildrenByPlan ==
  ASSUME NEW t, IsTree(t), NEW s \in States, NEW d \in t, d[2] = s
  PROVE  PlanOf[d[1]] \in ToSet(PlansIn[s]) /\ d[1] \in ChildrenIn(t, s, PlanOf[d[1]])
<1>1. s # None
  BY TeamAssumption
<1>2. PlanOf[d[1]] \in ToSet(PlansIn[s])
  BY <1>1 DEF IsTree
<1>3. d = <<d[1], s>>
  BY DEF IsTree
<1>4. d[1] \in StatesOf(t)
  BY DEF StatesOf
<1>5. QED
  BY <1>2, <1>3, <1>4 DEF ChildrenIn, InTree

Texts == [States -> Seq(Ids)]

Parts(t, s, texts) ==
  [k \in DOMAIN PlansIn[s] |-> IF ChildrenIn(t, s, PlansIn[s][k]) = {} THEN << >>
                               ELSE texts[ChildIn(t, s, PlansIn[s][k])]]

LEMMA PartsType ==
  ASSUME NEW t, IsTree(t), NEW s \in States, NEW texts \in Texts
  PROVE  Parts(t, s, texts) \in Seq(Seq(Ids)) /\ Len(Parts(t, s, texts)) = Len(PlansIn[s])
<1> DEFINE n == Len(PlansIn[s])
           part(k) == IF ChildrenIn(t, s, PlansIn[s][k]) = {} THEN << >>
                      ELSE texts[ChildIn(t, s, PlansIn[s][k])]
<1>1. n \in Nat /\ DOMAIN PlansIn[s] = 1..n
  BY PlansOfStates
<1>2. ASSUME NEW k \in 1..n PROVE part(k) \in Seq(Ids)
  <2>1. CASE ChildrenIn(t, s, PlansIn[s][k]) = {}
    BY <2>1
  <2>2. CASE ChildrenIn(t, s, PlansIn[s][k]) # {}
    <3> DEFINE p == PlansIn[s][k]
    <3>1. ChildrenIn(t, s, p) # {}
      BY <2>2
    <3> HIDE DEF p
    <3>2. ChildIn(t, s, p) \in States
      BY <3>1, OneChild
    <3>3. texts[ChildIn(t, s, p)] \in Seq(Ids)
      BY <3>2 DEF Texts
    <3>4. QED
      BY <2>2, <3>3 DEF p
  <2>3. QED
    BY <2>1, <2>2
<1>3. Parts(t, s, texts) = [k \in 1..n |-> part(k)]
  BY <1>1 DEF Parts
<1> HIDE DEF part
<1> DEFINE T == Seq(Ids)
<1>4. \A k \in 1..n : part(k) \in T
  BY <1>2
<1> HIDE DEF T, n
<1>5. [k \in 1..n |-> part(k)] \in Seq(T) /\ Len([k \in 1..n |-> part(k)]) = n
  BY <1>1, <1>4
<1>6. QED
  BY <1>3, <1>5 DEF T, n

LEMMA FlattenType ==
  ASSUME NEW S, NEW parts \in Seq(Seq(S))
  PROVE  FlattenSeq(parts) \in Seq(S)
<1>1. CASE Len(parts) = 0
  <2>1. FlattenSeq(parts) = parts /\ parts = << >>
    BY <1>1 DEF FlattenSeq
  <2>2. QED
    BY <2>1
<1>2. CASE Len(parts) # 0
  <2>1. PICK f \in [1..Len(parts) -> Seq(S)] : Flattens(f, parts)
    BY <1>2, FlattenIs
  <2>2. Len(parts) \in 1..Len(parts)
    BY <1>2
  <2>3. f[Len(parts)] \in Seq(S)
    BY <2>1, <2>2
  <2>4. QED
    BY <2>1, <2>3 DEF Flattens
<1>3. QED
  BY <1>1, <1>2

LEMMA TextType ==
  ASSUME NEW t, IsTree(t), NEW s \in States, NEW texts \in Texts
  PROVE  Text(t, s, texts) \in Seq(Ids)
<1>1. Parts(t, s, texts) \in Seq(Seq(Ids))
  BY PartsType
<1>2. FlattenSeq(Parts(t, s, texts)) \in Seq(Ids)
  BY <1>1, FlattenType
<1> DEFINE w == FlattenSeq(Parts(t, s, texts))
<1>3. \/ Text(t, s, texts) = <<s, "open">> \o w \o <<"close">>
      \/ Text(t, s, texts) = <<s>>
  BY DEF Text, Parts
<1> HIDE DEF w
<1>4. s \in Ids /\ "open" \in Ids /\ "close" \in Ids
  BY DEF Ids
<1>5. w \in Seq(Ids)
  BY <1>2 DEF w
<1>6. <<s, "open">> \in Seq(Ids) /\ <<"close">> \in Seq(Ids) /\ <<s>> \in Seq(Ids)
  BY <1>4
<1>7. <<s, "open">> \o w \o <<"close">> \in Seq(Ids)
  BY <1>5, <1>6
<1>8. QED
  BY <1>3, <1>6, <1>7

\* f holds the texts of all states, deeper at each step, of which ToMessage takes
\* the root's.
TextCourse(f, t) ==
  /\ f \in [0..Cardinality(Plans) -> Texts]
  /\ \A n \in 1..Cardinality(Plans) : \A s \in States : f[n][s] = Text(t, s, f[n - 1])
  /\ ToMessage(t) = f[Cardinality(Plans)][CHOOSE s \in StatesOf(t) : ParentIn(t, s) = None]

LEMMA TextCourseExists ==
  ASSUME NEW t, IsTree(t)
  PROVE  \E f : TextCourse(f, t)
<1> DEFINE n == Cardinality(Plans)
           c == [s \in States |-> << >>]
           Next1(x) == [s \in States |-> Text(t, s, x)]
           steps == [k \in 1..n |-> [x \in Texts |-> Next1(x)]]
           g == CHOOSE h : h = [k \in 0..n |->
                  [s \in States |-> IF k = 0 THEN << >> ELSE Text(t, s, h[k - 1])]]
           root == CHOOSE s \in StatesOf(t) : ParentIn(t, s) = None
<1>1. n \in Nat
  BY PlansAreFinite
<1>2. c \in Texts
  BY DEF Texts
<1>3. ASSUME NEW x \in Texts PROVE Next1(x) \in Texts
  <2>1. \A s \in States : Text(t, s, x) \in Seq(Ids)
    BY TextType
  <2>2. QED
    BY <2>1 DEF Texts
<1>4. ToMessage(t) = g[n][root]
  BY DEF ToMessage
<1>5. \A h : [k \in 0..n |-> [s \in States |-> IF k = 0 THEN << >> ELSE Text(t, s, h[k - 1])]]
               = [k \in 0..n |-> IF k = 0 THEN c ELSE Next1(h[k - 1])]
  <2>1. ASSUME NEW h, NEW k \in 0..n
        PROVE  [s \in States |-> IF k = 0 THEN << >> ELSE Text(t, s, h[k - 1])]
                 = IF k = 0 THEN c ELSE Next1(h[k - 1])
    BY Zenon
  <2>2. QED
    BY <2>1, Zenon
<1> HIDE DEF n, c, Next1, root
<1>6. steps \in StepsOn(Texts, n)
  BY <1>3 DEF StepsOn
<1> HIDE DEF steps
<1>7. PICK f : StaysIn(f, Texts, n) /\ Unfolds(f, c, steps, n)
  BY <1>1, <1>2, <1>6, IntervalRecursion
<1>8. f \in [0..n -> Texts] /\ f[0] = c /\ \A k \in 1..n : f[k] = steps[k][f[k - 1]]
  BY <1>7 DEF StaysIn, Unfolds
<1>9. ASSUME NEW k \in 1..n PROVE f[k] = Next1(f[k - 1])
  <2>1. f[k - 1] \in Texts
    BY <1>1, <1>8
  <2>2. QED
    BY <1>8, <2>1 DEF steps
<1>10. f = [k \in 0..n |-> IF k = 0 THEN c ELSE Next1(f[k - 1])]
  BY <1>1, <1>8, <1>9
<1>11. g = [k \in 0..n |-> IF k = 0 THEN c ELSE Next1(g[k - 1])]
  <2>1. f = [k \in 0..n |-> [s \in States |-> IF k = 0 THEN << >> ELSE Text(t, s, f[k - 1])]]
    BY <1>5, <1>10
  <2>2. g = [k \in 0..n |-> [s \in States |-> IF k = 0 THEN << >> ELSE Text(t, s, g[k - 1])]]
    BY <2>1, Zenon
  <2> HIDE DEF g
  <2>3. QED
    BY <1>5, <2>2
<1> HIDE DEF g
<1>12. SameSteps(f, g, n)
  BY <1>1, <1>8, <1>9, <1>11 DEF SameSteps
<1>13. f[n] = g[n]
  BY <1>1, <1>8, <1>12, IntervalUnique DEF SameValues
<1>14. ASSUME NEW k \in 1..n, NEW s \in States PROVE f[k][s] = Text(t, s, f[k - 1])
  BY <1>9 DEF Next1
<1>15. TextCourse(f, t)
  BY <1>4, <1>8, <1>13, <1>14 DEF TextCourse, n, root
<1>16. QED
  BY <1>15

-------------------------------------------------------------------------------
(* What was written is read back *)

\* Y adds to X entries of t, each with all its children.
Adds(t, X, Y) ==
  /\ X \subseteq Y /\ Y \subseteq t
  /\ \A e \in Y \ X : \A d \in t : d[2] = e[1] => d \in Y

\* Reading the text of s below h adds s and all below it.
ReadsState(t, text, s, h) ==
  \A X \in SUBSET t : \A cur :
    \E Y \in SUBSET t :
      /\ Adds(t, X, Y) /\ <<s, h>> \in Y
      /\ Reading(text, [spt |-> X, cur |-> cur, parent |-> h],
                       [spt |-> Y, cur |-> s, parent |-> h])

\* Reading text adds all below state s.
ReadsParts(t, text, s, X) ==
  \E Y \in SUBSET t : \E cur :
    /\ Adds(t, X, Y) /\ \A d \in t : d[2] = s => d \in Y
    /\ Reading(text, [spt |-> X, cur |-> None, parent |-> s],
                     [spt |-> Y, cur |-> cur, parent |-> s])

\* The parts of a state: its children, one by one.
LEMMA PartsAreRead ==
  ASSUME NEW t, IsTree(t), NEW s \in States, NEW texts \in Texts,
         \A d \in t : d[2] = s => ReadsState(t, texts[d[1]], d[1], s),
         NEW X \in SUBSET t
  PROVE  ReadsParts(t, FlattenSeq(Parts(t, s, texts)), s, X)
<1> SUFFICES
      \E Y \in SUBSET t : \E cur :
        /\ Adds(t, X, Y) /\ \A d \in t : d[2] = s => d \in Y
        /\ Reading(FlattenSeq(Parts(t, s, texts)), [spt |-> X, cur |-> None, parent |-> s],
                                                   [spt |-> Y, cur |-> cur, parent |-> s])
  BY DEF ReadsParts
<1> DEFINE parts == Parts(t, s, texts)
           n == Len(PlansIn[s])
           a == [spt |-> X, cur |-> None, parent |-> s]
           Has(Y, k) == \A d \in t : \A j \in 1..k :
                          d[2] = s /\ PlanOf[d[1]] = PlansIn[s][j] => d \in Y
           Goes(Y, cur, text) == Reading(text, a, [spt |-> Y, cur |-> cur, parent |-> s])
<1>1. n \in Nat /\ PlansIn[s] \in Seq(Plans) /\ DOMAIN PlansIn[s] = 1..n
  BY PlansOfStates
<1>2. parts \in Seq(Seq(Ids)) /\ Len(parts) = n
  BY PartsType
\* One part.
<1>3. ASSUME NEW k \in 1..n, NEW Y \in SUBSET t, NEW cur
      PROVE  \E Z \in SUBSET t : \E now :
               /\ Adds(t, Y, Z)
               /\ \A d \in t : d[2] = s /\ PlanOf[d[1]] = PlansIn[s][k] => d \in Z
               /\ Reading(parts[k], [spt |-> Y, cur |-> cur, parent |-> s],
                                    [spt |-> Z, cur |-> now, parent |-> s])
  <2> DEFINE p == PlansIn[s][k]
  <2>1. parts[k] = IF ChildrenIn(t, s, p) = {} THEN << >> ELSE texts[ChildIn(t, s, p)]
    BY <1>1 DEF Parts
  <2> HIDE DEF p
  <2>2. CASE ChildrenIn(t, s, p) = {}
    <3>1. \A d \in t : ~ (d[2] = s /\ PlanOf[d[1]] = p)
      BY <2>2, ChildrenByPlan
    <3>2. Adds(t, Y, Y)
      BY DEF Adds
    <3>3. Reading(parts[k], [spt |-> Y, cur |-> cur, parent |-> s],
                            [spt |-> Y, cur |-> cur, parent |-> s])
      BY <2>1, <2>2, ReadNothing
    <3> HIDE DEF parts
    <3>4. QED
      BY <3>1, <3>2, <3>3 DEF p
  <2>3. CASE ChildrenIn(t, s, p) # {}
    <3> DEFINE c == ChildIn(t, s, p)
    <3>1. c \in States /\ <<c, s>> \in t
          /\ \A d \in t : d[2] = s /\ PlanOf[d[1]] = p => d = <<c, s>>
      BY <2>3, OneChild
    <3> HIDE DEF c
    <3>2. ReadsState(t, texts[c], c, s)
      BY <3>1
    <3>3. PICK Z \in SUBSET t :
            /\ Adds(t, Y, Z) /\ <<c, s>> \in Z
            /\ Reading(texts[c], [spt |-> Y, cur |-> cur, parent |-> s],
                                 [spt |-> Z, cur |-> c, parent |-> s])
      BY <3>2 DEF ReadsState
    <3>4. parts[k] = texts[c]
      BY <2>1, <2>3 DEF c
    <3>5. \A d \in t : d[2] = s /\ PlanOf[d[1]] = p => d \in Z
      BY <3>1, <3>3
    <3> HIDE DEF parts
    <3>6. QED
      BY <3>3, <3>4, <3>5 DEF p
  <2>4. QED
    BY <2>2, <2>3
<1>4. CASE n = 0
  <2>1. parts = << >> /\ FlattenSeq(parts) = << >>
    <3>1. Len(parts) = 0
      BY <1>2, <1>4
    <3>2. FlattenSeq(parts) = parts
      BY <3>1 DEF FlattenSeq
    <3> HIDE DEF parts
    <3>3. parts = << >>
      BY <1>2, <3>1
    <3>4. QED
      BY <3>2, <3>3
  <2>2. \A d \in t : d[2] # s
    <3>1. ToSet(PlansIn[s]) = {}
      BY <1>1, <1>4 DEF ToSet
    <3>2. QED
      BY <3>1, ChildrenByPlan
  <2>3. Adds(t, X, X)
    BY DEF Adds
  <2>4. Reading(FlattenSeq(parts), a, a)
    BY <2>1, ReadNothing
  <2> HIDE DEF parts
  <2>5. QED
    BY <2>2, <2>3, <2>4 DEF parts
<1>5. CASE n # 0
  <2>1. PICK f \in [1..n -> Seq(Ids)] : Flattens(f, parts)
    <3> HIDE DEF parts
    <3>1. QED
      BY <1>2, <1>5, FlattenIs
  <2>2. f[1] = parts[1] /\ (\A i \in 2..n : f[i] = f[i - 1] \o parts[i])
        /\ FlattenSeq(parts) = f[n]
    BY <1>2, <2>1 DEF Flattens
  <2> DEFINE G == {k \in 0..(n - 1) : \E Y \in SUBSET t : \E cur :
                     Adds(t, X, Y) /\ Has(Y, k + 1) /\ Goes(Y, cur, f[k + 1])}
  <2> HIDE DEF parts, n
  <2>3. 0 \in G
    <3>1. 1 \in 1..n
      BY <1>1, <1>5
    <3>2. PICK Z, now :
               /\ Z \in SUBSET t
               /\ Adds(t, X, Z)
               /\ \A d \in t : d[2] = s /\ PlanOf[d[1]] = PlansIn[s][1] => d \in Z
               /\ Reading(parts[1], [spt |-> X, cur |-> None, parent |-> s],
                                    [spt |-> Z, cur |-> now, parent |-> s])
      BY <1>3, <3>1
    <3>3. Has(Z, 0 + 1)
      BY <3>2
    <3>4. Goes(Z, now, f[0 + 1])
      BY <2>2, <3>2
    <3> HIDE DEF Has, Goes
    <3>5. 0 \in 0..(n - 1)
      BY <1>1, <1>5
    <3>6. QED
      BY <3>2, <3>3, <3>4, <3>5
  <2>4. ASSUME NEW k \in 0..((n - 1) - 1), k \in G PROVE k + 1 \in G
    <3>1. k + 2 \in 2..n /\ k + 2 \in 1..n /\ (k + 2) - 1 = k + 1 /\ k + 1 \in 1..n
          /\ (k + 1) + 1 = k + 2 /\ k + 1 \in 0..(n - 1) /\ k \in Nat
      BY <1>1, <1>5
    <3>2. PICK Y, cur :
               Y \in SUBSET t /\ Adds(t, X, Y) /\ Has(Y, k + 1) /\ Goes(Y, cur, f[k + 1])
      BY <2>4
    <3>3. PICK Z, now :
               /\ Z \in SUBSET t
               /\ Adds(t, Y, Z)
               /\ \A d \in t : d[2] = s /\ PlanOf[d[1]] = PlansIn[s][k + 2] => d \in Z
               /\ Reading(parts[k + 2], [spt |-> Y, cur |-> cur, parent |-> s],
                                        [spt |-> Z, cur |-> now, parent |-> s])
      BY <1>3, <3>1, <3>2
    <3>4. Adds(t, X, Z)
      BY <3>2, <3>3 DEF Adds
    <3>5. Has(Z, k + 2)
      <4>1. ASSUME NEW d \in t, NEW j \in 1..(k + 2), d[2] = s, PlanOf[d[1]] = PlansIn[s][j]
            PROVE  d \in Z
        <5>1. CASE j = k + 2
          BY <3>3, <4>1, <5>1
        <5>2. CASE j \in 1..(k + 1)
          BY <3>2, <3>3, <4>1, <5>2 DEF Adds
        <5>3. QED
          BY <3>1, <5>1, <5>2
      <4>2. QED
        BY <4>1
    <3>6. Goes(Z, now, f[k + 2])
      <4>1. f[k + 2] = f[k + 1] \o parts[k + 2]
        BY <2>2, <3>1
      <4>2. f[k + 1] \in Seq(Ids) /\ parts[k + 2] \in Seq(Ids)
        <5>1. f[k + 1] \in Seq(Ids)
          BY <2>1, <3>1
        <5> DEFINE T == Seq(Ids)
        <5>2. parts \in Seq(T)
          BY <1>2
        <5> HIDE DEF T
        <5>3. parts[k + 2] \in T
          BY <1>2, <3>1, <5>2
        <5>4. QED
          BY <5>1, <5>3 DEF T
      <4>3. QED
        BY <3>2, <3>3, <4>1, <4>2, ReadOn
    <3> HIDE DEF Has, Goes
    <3>7. QED
      BY <3>1, <3>3, <3>4, <3>5, <3>6
  <2>5. n - 1 \in G
    <3> HIDE DEF G
    <3>1. n - 1 \in Nat
      BY <1>1, <1>5
    <3>2. 0..(n - 1) \subseteq G
      BY <2>3, <2>4, <3>1, IntervalInduction
    <3>3. QED
      BY <3>1, <3>2
  <2>6. PICK Y, cur :
             Y \in SUBSET t /\ Adds(t, X, Y) /\ Has(Y, n) /\ Goes(Y, cur, f[n])
    <3> HIDE DEF Has, Goes
    <3>1. (n - 1) + 1 = n
      BY <1>1
    <3>2. QED
      BY <2>5, <3>1
  <2>7. ASSUME NEW d \in t, d[2] = s PROVE d \in Y
    <3>1. PlanOf[d[1]] \in ToSet(PlansIn[s])
      BY <2>7, ChildrenByPlan
    <3>2. PICK j \in 1..n : PlanOf[d[1]] = PlansIn[s][j]
      BY <1>1, <3>1 DEF ToSet
    <3>3. QED
      BY <1>1, <2>6, <2>7, <3>2
  <2>8. Reading(FlattenSeq(parts), a, [spt |-> Y, cur |-> cur, parent |-> s])
    BY <2>2, <2>6
  <2>9. QED
    BY <2>6, <2>7, <2>8 DEF parts
<1>6. QED
  BY <1>4, <1>5

\* In a tree a state has one parent.
LEMMA ParentIsKnown ==
  ASSUME NEW t, IsTree(t), NEW Y \in SUBSET t, NEW s, NEW h, <<s, h>> \in Y
  PROVE  ParentIn(Y, s) = h
<1> DEFINE d == <<s, h>>
           e == CHOOSE e \in Y : e[1] = s
<1>1. d \in Y /\ d[1] = s /\ d[2] = h
  OBVIOUS
<1>2. e \in Y /\ e[1] = s
  BY <1>1
<1> HIDE DEF d, e
<1>3. e = d
  BY <1>1, <1>2 DEF IsTree
<1>4. QED
  BY <1>1, <1>3 DEF ParentIn, e

LEMMA StateIsRead ==
  ASSUME NEW t, IsTree(t), NEW s \in States, NEW h, <<s, h>> \in t, NEW texts \in Texts,
         \A d \in t : d[2] = s => ReadsState(t, texts[d[1]], d[1], s)
  PROVE  ReadsState(t, Text(t, s, texts), s, h)
<1> SUFFICES ASSUME NEW X \in SUBSET t, NEW cur
             PROVE  \E Y \in SUBSET t :
                      /\ Adds(t, X, Y) /\ <<s, h>> \in Y
                      /\ Reading(Text(t, s, texts),
                                 [spt |-> X, cur |-> cur, parent |-> h],
                                 [spt |-> Y, cur |-> s, parent |-> h])
  BY DEF ReadsState
<1> DEFINE a  == [spt |-> X, cur |-> cur, parent |-> h]
           X1 == X \cup {<<s, h>>}
           a1 == [spt |-> X1, cur |-> s, parent |-> h]
           a2 == [spt |-> X1, cur |-> None, parent |-> s]
           w  == FlattenSeq(Parts(t, s, texts))
           more == s \in Behaving \/ \E p \in ToSet(PlansIn[s]) : ChildrenIn(t, s, p) # {}
<1>1. s \in Ids /\ "open" \in Ids /\ "close" \in Ids /\ s # "open" /\ s # "close"
  BY TeamAssumption DEF Ids
<1>2. Read(a, s) = a1
  BY <1>1 DEF Read
<1>3. Read(a1, "open") = a2
  BY DEF Read
<1>4. X1 \in SUBSET t /\ X \subseteq X1
  OBVIOUS
<1>5. CASE more
  <2>1. PICK Y, now :
          /\ Y \in SUBSET t
          /\ Adds(t, X1, Y) /\ \A d \in t : d[2] = s => d \in Y
          /\ Reading(w, a2, [spt |-> Y, cur |-> now, parent |-> s])
    <3> HIDE DEF X1, more, w
    <3>1. ReadsParts(t, w, s, X1)
      BY <1>4, PartsAreRead DEF w
    <3>2. QED
      BY <3>1 DEF ReadsParts
  <2>2. X1 \subseteq Y /\ <<s, h>> \in Y
    BY <2>1 DEF Adds
  <2>3. Adds(t, X, Y)
    <3>1. ASSUME NEW e \in Y \ X, NEW d \in t, d[2] = e[1] PROVE d \in Y
      <4>1. CASE e = <<s, h>>
        BY <2>1, <3>1, <4>1
      <4>2. CASE e # <<s, h>>
        BY <2>1, <3>1, <4>2 DEF Adds
      <4>3. QED
        BY <4>1, <4>2
    <3>2. QED
      BY <2>1, <2>2, <3>1 DEF Adds
  <2> DEFINE b == [spt |-> Y, cur |-> now, parent |-> s]
             z == [spt |-> Y, cur |-> s, parent |-> h]
  <2>4. Read(b, "close") = z
    <3>1. ParentIn(Y, s) = h
      BY <2>1, <2>2, ParentIsKnown
    <3>2. QED
      BY <3>1 DEF Read
  <2>5. Text(t, s, texts) = <<s, "open">> \o w \o <<"close">>
    BY <1>5 DEF Text, Parts
  <2>6. Parts(t, s, texts) \in Seq(Seq(Ids))
    BY PartsType
  <2>7. w \in Seq(Ids)
    BY <2>6, FlattenType
  <2> HIDE DEF w, a, a1, a2, b, z
  <2>8. Reading(<<s>>, a, a1) /\ Reading(<<"open">>, a1, a2) /\ Reading(<<"close">>, b, z)
    BY <1>2, <1>3, <2>4, ReadOne
  <2>9. Reading(w, a2, b)
    BY <2>1 DEF b
  <2>10. <<s>> \in Seq(Ids) /\ <<"open">> \in Seq(Ids) /\ <<"close">> \in Seq(Ids)
         /\ <<s, "open">> \in Seq(Ids)
    BY <1>1
  <2>11. Reading(<<s, "open">>, a, a2)
    <3>1. Reading(<<s>> \o <<"open">>, a, a2)
      BY <2>8, <2>10, ReadOn
    <3>2. <<s>> \o <<"open">> = <<s, "open">>
      <4>1. <<s>> \o <<"open">> \in Seq(Ids) /\ Len(<<s>> \o <<"open">>) = 2
            /\ (<<s>> \o <<"open">>)[1] = s /\ (<<s>> \o <<"open">>)[2] = "open"
        BY <2>10
      <4>2. Len(<<s, "open">>) = 2 /\ <<s, "open">>[1] = s /\ <<s, "open">>[2] = "open"
        OBVIOUS
      <4> DEFINE u == <<s>> \o <<"open">>
                 v == <<s, "open">>
      <4>3. u \in Seq(Ids) /\ v \in Seq(Ids) /\ Len(u) = Len(v) /\ Len(u) = 2
            /\ u[1] = v[1] /\ u[2] = v[2]
        BY <2>10, <4>1, <4>2
      <4> HIDE DEF u, v
      <4>4. \A i \in 1..Len(u) : u[i] = v[i]
        BY <4>3
      <4>5. u = v
        BY <4>3, <4>4, SeqEqual
      <4>6. QED
        BY <4>5 DEF u, v
    <3>3. QED
      BY <3>1, <3>2
  <2>12. Reading(<<s, "open">> \o w, a, b)
    BY <2>7, <2>9, <2>10, <2>11, ReadOn
  <2>15. <<s, "open">> \o w \in Seq(Ids)
    BY <2>7, <2>10
  <2>13. Reading((<<s, "open">> \o w) \o <<"close">>, a, z)
    BY <2>8, <2>10, <2>12, <2>15, ReadOn
  <2>14. QED
    BY <2>1, <2>2, <2>3, <2>5, <2>13 DEF a, z
<1>6. CASE ~ more
  <2>1. Text(t, s, texts) = <<s>>
    BY <1>6 DEF Text
  <2>2. \A d \in t : d[2] # s
    BY <1>6, ChildrenByPlan
  <2>3. Adds(t, X, X1)
    BY <1>4, <2>2 DEF Adds
  <2> HIDE DEF a, a1, X1
  <2>4. Reading(<<s>>, a, a1)
    BY <1>2, ReadOne
  <2>5. <<s, h>> \in X1 /\ X1 \subseteq t
    BY DEF X1
  <2>6. QED
    BY <2>1, <2>3, <2>4, <2>5 DEF a, a1
<1>7. QED
  BY <1>5, <1>6

\* toMessage and sptFromMessage agree on every tree a robot can be in.
LEMMA TreesReadBack ==
  ASSUME NEW t \in Trees
  PROVE  /\ SptFromMessage(ToMessage(t)) = t
         /\ ToMessage(t) \in Seq(Ids)
<1> DEFINE n == Cardinality(Plans)
<1>1. IsTree(t)
  BY TreeFacts
<1>2. n \in Nat
  BY PlansAreFinite
<1>3. PICK level \in [Plans -> 1..n] :
        \A u \in States : \A c \in ToSet(PlansIn[u]) : level[PlanOf[u]] < level[c]
  BY HierarchyAssumption
<1>4. PICK f : TextCourse(f, t)
  BY <1>1, TextCourseExists
<1>5. f \in [0..n -> Texts]
      /\ \A k \in 1..n : \A s \in States : f[k][s] = Text(t, s, f[k - 1])
  BY <1>4 DEF TextCourse
<1>6. ASSUME NEW e \in t
      PROVE  /\ e = <<e[1], e[2]>> /\ e[1] \in States /\ PlanOf[e[1]] \in Plans
             /\ level[PlanOf[e[1]]] \in 1..n
             /\ e[2] # None => e[2] \in States /\ level[PlanOf[e[2]]] < level[PlanOf[e[1]]]
  <2>1. e = <<e[1], e[2]>> /\ e[1] \in States /\ e[2] \in States \cup {None}
    BY <1>1 DEF IsTree
  <2>2. PlanOf[e[1]] \in Plans
    BY <2>1, PlansOfStates
  <2>3. e[2] # None => PlanOf[e[1]] \in ToSet(PlansIn[e[2]])
    BY <1>1 DEF IsTree
  <2>4. QED
    BY <1>3, <2>1, <2>2, <2>3
\* The text of step k is that of each state that has less than k levels below it.
<1> DEFINE G == {k \in 0..n : \A e \in t : level[PlanOf[e[1]]] + k > n =>
                               ReadsState(t, f[k][e[1]], e[1], e[2])}
<1>7. 0 \in G
  BY <1>2, <1>6
<1>8. ASSUME NEW k \in 0..(n - 1), k \in G PROVE k + 1 \in G
  <2>1. k + 1 \in 1..n /\ k \in 0..n /\ (k + 1) - 1 = k /\ k + 1 \in 0..n /\ k \in Nat
    BY <1>2
  <2>2. ASSUME NEW e \in t, level[PlanOf[e[1]]] + (k + 1) > n
        PROVE  ReadsState(t, f[k + 1][e[1]], e[1], e[2])
    <3>1. e[1] \in States /\ <<e[1], e[2]>> \in t
      BY <1>6
    <3>2. f[k] \in Texts /\ f[k + 1][e[1]] = Text(t, e[1], f[k])
      BY <1>5, <2>1, <3>1
    <3>3. ASSUME NEW d \in t, d[2] = e[1] PROVE ReadsState(t, f[k][d[1]], d[1], e[1])
      <4>1. d[2] # None
        BY <3>1, <3>3, TeamAssumption
      <4>2. level[PlanOf[e[1]]] < level[PlanOf[d[1]]]
        BY <1>6, <3>3, <4>1
      <4>3. level[PlanOf[d[1]]] + k > n
        <5>1. level[PlanOf[e[1]]] \in Int /\ level[PlanOf[d[1]]] \in Int
          BY <1>6
        <5> HIDE DEF n
        <5>2. QED
          BY <1>2, <2>1, <2>2, <4>2, <5>1
      <4>4. QED
        BY <1>8, <3>3, <4>3
    <3>4. QED
      BY <1>1, <3>1, <3>2, <3>3, StateIsRead
  <2>3. QED
    BY <2>1, <2>2
<1>9. n \in G
  <2> HIDE DEF n, G
  <2>1. 0..n \subseteq G
    BY <1>2, <1>7, <1>8, IntervalInduction
  <2>2. QED
    BY <1>2, <2>1
\* The root.
<1> DEFINE root == CHOOSE s \in StatesOf(t) : ParentIn(t, s) = None
<1>10. root \in States /\ <<root, None>> \in t
  <2>1. PICK e \in t : e[2] = None
    BY <1>1 DEF IsTree
  <2>2. <<e[1], None>> \in t
    BY <1>6, <2>1
  <2>3. e[1] \in StatesOf(t) /\ ParentIn(t, e[1]) = None
    BY <1>1, <2>2, ParentIsKnown DEF StatesOf
  <2>4. root \in StatesOf(t) /\ ParentIn(t, root) = None
    BY <2>3
  <2> HIDE DEF root
  <2>5. PICK d \in t : d[1] = root
    BY <2>4 DEF StatesOf
  <2>6. <<root, d[2]>> \in t
    BY <1>6, <2>5
  <2>7. d[2] = None
    BY <1>1, <2>4, <2>6, ParentIsKnown
  <2>8. QED
    BY <1>6, <2>5, <2>6, <2>7
<1>11. ToMessage(t) = f[n][root]
  BY <1>4 DEF TextCourse
<1> HIDE DEF root
<1>12. ToMessage(t) \in Seq(Ids)
  BY <1>2, <1>5, <1>10, <1>11 DEF Texts
<1>13. ReadsState(t, ToMessage(t), root, None)
  <2> DEFINE e == <<root, None>>
  <2>1. e \in t /\ e[1] = root /\ e[2] = None
    BY <1>10
  <2> HIDE DEF e
  <2>2. level[PlanOf[e[1]]] + n > n
    BY <1>2, <1>6, <2>1
  <2>3. ReadsState(t, f[n][e[1]], e[1], e[2])
    BY <1>9, <2>1, <2>2
  <2>4. QED
    BY <1>11, <2>1, <2>3
<1>14. PICK Y \in SUBSET t :
         /\ Adds(t, {}, Y) /\ <<root, None>> \in Y
         /\ Reading(ToMessage(t), [spt |-> {}, cur |-> None, parent |-> None],
                                  [spt |-> Y, cur |-> root, parent |-> None])
  BY <1>13 DEF ReadsState
<1>15. SptFromMessage(ToMessage(t)) = Y
  <2> DEFINE b == [spt |-> Y, cur |-> root, parent |-> None]
  <2>1. Len(ToMessage(t)) \in Nat
    BY <1>12
  <2>2. Reading(ToMessage(t), [spt |-> {}, cur |-> None, parent |-> None], b) /\ b.spt = Y
    BY <1>14
  <2> HIDE DEF b
  <2>3. QED
    BY <2>1, <2>2, SptIsRead
\* Nothing is left out: an entry of least level that is would have a parent that
\* is not.
<1>16. Y = t
  <2>1. SUFFICES ASSUME t \ Y # {} PROVE FALSE
    OBVIOUS
  <2> DEFINE L == {level[PlanOf[e[1]]] : e \in t \ Y}
  <2>2. L \subseteq Nat /\ L # {}
    BY <1>2, <1>6, <2>1
  <2>3. PICK l \in L : \A m \in L : l <= m
    <3> HIDE DEF L
    <3>1. QED
      BY <2>2, LeastNatural
  <2>4. PICK e \in t \ Y : l = level[PlanOf[e[1]]]
    OBVIOUS
  <2>5. e[2] # None
    <3>1. SUFFICES ASSUME e[2] = None PROVE FALSE
      OBVIOUS
    <3> DEFINE d == <<root, None>>
    <3>2. d \in t /\ d \in Y /\ d[2] = None
      BY <1>10, <1>14
    <3> HIDE DEF d
    <3>3. PlanOf[d[1]] = Master /\ PlanOf[e[1]] = Master
      BY <1>1, <3>1, <3>2 DEF IsTree
    <3>4. d = e
      BY <1>1, <3>2, <3>3 DEF IsTree
    <3>5. QED
      BY <3>2, <3>4
  <2>6. PICK d \in t : d[1] = e[2]
    BY <1>1, <2>5 DEF IsTree
  <2>7. level[PlanOf[d[1]]] < l
    BY <1>6, <2>4, <2>5, <2>6
  <2>8. d \notin Y
    BY <1>14, <2>4, <2>6 DEF Adds
  <2>9. level[PlanOf[d[1]]] \in L
    BY <2>6, <2>8
  <2>10. l <= level[PlanOf[d[1]]] /\ l \in Nat /\ level[PlanOf[d[1]]] \in Nat
    BY <2>2, <2>3, <2>9
  <2>11. QED
    BY <2>7, <2>10
<1>17. QED
  BY <1>12, <1>15, <1>16


-------------------------------------------------------------------------------
(* The inductive invariant *)

Queued == [msg : Message, recent : BOOLEAN]

\* What the robot knows of its team mates.
TeamKnown ==
  /\ team \in [Others -> Agent]
  /\ msgQueue \in Seq(Queued) /\ Len(msgQueue) <= MaxQueue
  /\ TreesKnown(spts)
  /\ myMarks \subseteq EntryPoints

\* What they do and sent.
TeamReal ==
  /\ world \in [Others -> [tree : Trees \cup {{}}, marks : SUBSET EntryPoints]]
  /\ net \subseteq Message

\* Unless the engine thread was late: what waits in the queue was heard just now, so
\* that it (re)activates its sender, and who has a tree is active.
InTime ==
  ~ late => /\ \A k \in DOMAIN msgQueue : msgQueue[k].recent
            /\ \A a \in Known(spts) : team[a].active

TeamInv == TeamKnown /\ TeamReal /\ InTime /\ GoodPlans(rps)

LEMMA AtMostOne ==
  ASSUME NEW S, \A x, y \in S : x = y
  PROVE  Cardinality(S) <= 1
<1>1. CASE S = {}
  BY <1>1, FS_EmptySet
<1>2. CASE S # {}
  <2>1. PICK x \in S : TRUE
    BY <1>2
  <2>2. S = {x}
    BY <2>1
  <2>3. QED
    BY <2>2, FS_Singleton
<1>3. QED
  BY <1>1, <1>2

LEMMA InvIsConsistent ==
  ASSUME TeamInv
  PROVE  PictureConsistent
<1>1. TypeOK
  <2>1. \A k \in DOMAIN msgQueue : msgQueue[k].msg \in Message
    <3>1. \A k \in DOMAIN msgQueue : msgQueue[k] \in Queued
      BY DEF TeamInv, TeamKnown
    <3>2. QED
      BY <3>1 DEF Queued
  <2>2. QED
    BY <2>1 DEF TypeOK, TeamInv, TeamKnown, TreesKnown, GoodPlans, RunningPlans
<1>2. OnePlace
  <2>1. SUFFICES ASSUME NEW p \in MyPlans(rps), NEW a \in Agents
                 PROVE  Cardinality(PlaceOf(rps[p], a)) <= 1
    BY DEF OnePlace
  <2>2. \A x, y \in rps[p].agents : x[1] = y[1] => x = y
    BY PlanOfMine DEF TeamInv, Runs, Placed
  <2>3. \A x, y \in PlaceOf(rps[p], a) : x = y
    BY <2>2 DEF PlaceOf
  <2>4. QED
    BY <2>3, AtMostOne
<1>3. OwnPlace
  BY PlanOfMine, PlaceOfMe DEF OwnPlace, TeamInv
<1>4. TreesOfActiveAgents
  BY DEF TreesOfActiveAgents, TeamInv, InTime
<1>5. QED
  BY <1>1, <1>2, <1>3, <1>4 DEF PictureConsistent

\* The message that prevails is in the queue.
LEMMA LastIsQueued ==
  ASSUME TeamKnown, NEW a, FromQueue(a) # {}
  PROVE  /\ Max(FromQueue(a)) \in DOMAIN msgQueue
         /\ LastOf(a) \in Queued
<1> DEFINE n == Len(msgQueue)
           T == {n - k : k \in FromQueue(a)}
<1>1. n \in Nat /\ DOMAIN msgQueue = 1..n /\ \A k \in 1..n : msgQueue[k] \in Queued
  BY DEF TeamKnown
<1>2. FromQueue(a) \subseteq 1..n
  BY <1>1 DEF FromQueue
<1>3. T \in SUBSET Nat /\ T # {}
  BY <1>1, <1>2
<1>4. PICK l \in T : \A m \in T : l <= m
  <2> HIDE DEF T
  <2>1. QED
    BY <1>3, LeastNatural
<1>5. PICK k \in FromQueue(a) : l = n - k
  BY <1>4
<1>6. \A j \in FromQueue(a) : k >= j
  <2>1. \A j \in FromQueue(a) : n - k <= n - j
    BY <1>4, <1>5
  <2>2. QED
    BY <1>1, <1>2, <1>5, <2>1
<1>7. Max(FromQueue(a)) \in FromQueue(a)
  BY <1>5, <1>6 DEF Max
<1>8. QED
  BY <1>1, <1>2, <1>7 DEF LastOf

LEMMA IntegratedType ==
  ASSUME TeamKnown
  PROVE  /\ IntegratedTeam \in [Others -> Agent]
         /\ TreesKnown(IntegratedTrees)
<1>1. ASSUME NEW a \in Others
      PROVE  /\ IntegratedTeam[a] \in Agent
             /\ IntegratedTrees[a] \in SimplePlanTree
  <2>1. team[a] \in Agent /\ spts[a] \in SimplePlanTree
    BY DEF TeamKnown, TreesKnown
  <2>2. CASE FromQueue(a) = {}
    BY <2>1, <2>2 DEF IntegratedTeam, IntegratedTrees
  <2>3. CASE FromQueue(a) # {}
    <3>1. LastOf(a) \in Queued
      BY <2>3, LastIsQueued
    <3>2. LastOf(a).recent \in BOOLEAN /\ LastOf(a).msg.marks \subseteq EntryPoints
          /\ \E t \in Trees : LastOf(a).msg.ids = ToMessage(t)
      BY <3>1 DEF Queued, Message
    <3>3. SptFromMessage(LastOf(a).msg.ids) \in Trees
      BY <3>2, TreesReadBack
    <3>4. IntegratedTeam[a] \in Agent
      BY <2>1, <2>3, <3>2 DEF IntegratedTeam, Agent
    <3>5. IntegratedTrees[a] = [tree |-> SptFromMessage(LastOf(a).msg.ids), isNew |-> TRUE]
      BY <2>3 DEF IntegratedTrees
    <3>6. IntegratedTrees[a] \in SimplePlanTree
      BY <3>3, <3>5 DEF SimplePlanTree
    <3>7. QED
      BY <3>4, <3>6
  <2>4. QED
    BY <2>2, <2>3
<1>2. QED
  BY <1>1 DEF IntegratedTeam, IntegratedTrees, TreesKnown

LEMMA UpdateType ==
  ASSUME NEW agent \in Agent
  PROVE  Update(agent) \in Agent
BY DEF Agent, Update

-------------------------------------------------------------------------------
(* An iteration *)

\* The parts of Tick.
UpdatedTeam  == [a \in Others |-> Update(IntegratedTeam[a])]
UpdatedTrees == TreesAfterUpdate(IntegratedTeam, UpdatedTeam, IntegratedTrees)

LEMMA TickParts ==
  ASSUME Tick
  PROVE  /\ team' = UpdatedTeam
         /\ spts' = [a \in Others |-> [UpdatedTrees[a] EXCEPT !.isNew = FALSE]]
         /\ msgQueue' = << >>
         /\ myMarks' = CleanMarks(myMarks, rps, UpdatedTrees)
         /\ rps' = RecursiveUpdateAssignment(rps, UpdatedTrees, ActiveAgents(UpdatedTeam))
         /\ iteration' = 1 - iteration
         /\ UNCHANGED <<world, late, net, disturbances>>
BY DEF Tick, UpdatedTeam, UpdatedTrees

LEMMA UpdatedTypes ==
  ASSUME TeamKnown
  PROVE  /\ UpdatedTeam \in [Others -> Agent]
         /\ TreesKnown(UpdatedTrees)
         /\ ActiveAgents(UpdatedTeam) \in SUBSET Agents /\ Me \in ActiveAgents(UpdatedTeam)
<1>1. UpdatedTeam \in [Others -> Agent]
  BY IntegratedType, UpdateType DEF UpdatedTeam
<1>2. NoTree \in SimplePlanTree
  BY DEF NoTree, SimplePlanTree
<1>3. TreesKnown(UpdatedTrees)
  BY <1>2, IntegratedType DEF UpdatedTrees, TreesAfterUpdate, TreesKnown
<1>4. QED
  BY <1>1, <1>3 DEF ActiveAgents, Agents

\* An iteration keeps the plans, and of each tree the states.
LEMMA TickKeeps ==
  ASSUME TeamInv, Tick
  PROVE  /\ GoodPlans(rps') /\ MyPlans(rps') = MyPlans(rps)
         /\ TreesKnown(spts')
         /\ \A a \in Others : spts'[a].tree = UpdatedTrees[a].tree
<1>1. rps' = RecursiveUpdateAssignment(rps, UpdatedTrees, ActiveAgents(UpdatedTeam))
      /\ spts' = [a \in Others |-> [UpdatedTrees[a] EXCEPT !.isNew = FALSE]]
  BY TickParts
<1>2. GoodPlans(rps) /\ TreesKnown(UpdatedTrees)
      /\ ActiveAgents(UpdatedTeam) \in SUBSET Agents /\ Me \in ActiveAgents(UpdatedTeam)
  BY UpdatedTypes DEF TeamInv
<1>3. rps' \in {Q \in RunningPlans : GoodPlans(Q) /\ MyPlans(Q) = MyPlans(rps)}
  BY <1>1, <1>2, UpdateCourseExists
<1>4. ASSUME NEW a \in Others
      PROVE  spts'[a] \in SimplePlanTree /\ spts'[a].tree = UpdatedTrees[a].tree
  <2>1. UpdatedTrees[a] \in SimplePlanTree
        /\ spts'[a] = [UpdatedTrees[a] EXCEPT !.isNew = FALSE]
    BY <1>1, <1>2 DEF TreesKnown
  <2>2. QED
    BY <2>1 DEF SimplePlanTree
<1>5. QED
  BY <1>1, <1>3, <1>4 DEF TreesKnown

LEMMA TickInTime ==
  ASSUME TeamInv, Tick
  PROVE  InTime'
<1>1. SUFFICES ASSUME ~ late', NEW a \in Others, spts'[a].tree # {} PROVE team'[a].active
  <2>1. \A k \in DOMAIN msgQueue' : msgQueue'[k].recent
    BY TickParts
  <2>2. QED
    BY <1>1, <2>1 DEF InTime, Known
<1>2. ~ late /\ team' = UpdatedTeam /\ UpdatedTrees[a].tree # {}
  BY <1>1, TickParts, TickKeeps
<1>3. UpdatedTrees[a] = IF IntegratedTeam[a].active /\ ~ UpdatedTeam[a].active THEN NoTree
                        ELSE IntegratedTrees[a]
  BY DEF UpdatedTrees, TreesAfterUpdate
<1>4. UpdatedTeam[a] = Update(IntegratedTeam[a])
  BY DEF UpdatedTeam
<1>5. IntegratedTeam[a] \in Agent /\ TeamKnown
  BY IntegratedType DEF TeamInv
<1>6. CASE FromQueue(a) = {}
  <2>1. IntegratedTrees[a] = spts[a] /\ IntegratedTeam[a] = team[a]
    BY <1>6 DEF IntegratedTrees, IntegratedTeam
  <2>2. spts[a].tree # {} => team[a].active
    BY <1>2 DEF TeamInv, InTime, Known
  <2>3. NoTree.tree = {}
    BY DEF NoTree
  <2>4. QED
    BY <1>2, <1>3, <2>1, <2>2, <2>3
<1>7. CASE FromQueue(a) # {}
  <2>1. Max(FromQueue(a)) \in DOMAIN msgQueue /\ LastOf(a) = msgQueue[Max(FromQueue(a))]
    BY <1>5, <1>7, LastIsQueued DEF LastOf
  <2>2. LastOf(a).recent
    BY <1>2, <2>1 DEF TeamInv, InTime
  <2>3. IntegratedTeam[a] = [team[a] EXCEPT !.recent = LastOf(a).recent,
                                             !.marks = LastOf(a).msg.marks]
    BY <1>7 DEF IntegratedTeam
  <2>4. IntegratedTeam[a].recent
    BY <2>2, <2>3 DEF TeamInv, TeamKnown, Agent
  <2>5. Update(IntegratedTeam[a]).active
    BY <1>5, <2>4 DEF Update, Agent
  <2>6. QED
    BY <1>2, <1>4, <2>5
<1>8. QED
  BY <1>6, <1>7

LEMMA TickKeepsInv ==
  ASSUME TeamInv, Tick
  PROVE  TeamInv'
<1>1. TeamKnown'
  <2>1. team' \in [Others -> Agent] /\ TreesKnown(spts')
    BY TickParts, TickKeeps, UpdatedTypes DEF TeamInv
  <2>2. msgQueue' \in Seq(Queued)' /\ Len(msgQueue') <= MaxQueue
    <3>1. msgQueue' = << >>
      BY TickParts
    <3>2. QED
      BY <3>1, TeamAssumption
  <2>3. myMarks' \subseteq EntryPoints
    BY TickParts DEF CleanMarks, TeamInv, TeamKnown
  <2>4. QED
    BY <2>1, <2>2, <2>3 DEF TeamKnown
<1>2. TeamReal'
  BY TickParts DEF TeamReal, TeamInv
<1>3. QED
  BY <1>1, <1>2, TickKeeps, TickInTime DEF TeamInv


-------------------------------------------------------------------------------
(* The other actions *)

\* Nothing but the team mates' agents and the queue changes.
LEMMA TeamChanges ==
  ASSUME TeamInv, UNCHANGED <<spts, rps, myMarks>>, TeamReal',
         team' \in [Others -> Agent], msgQueue' \in Seq(Queued), Len(msgQueue') <= MaxQueue,
         InTime'
  PROVE  TeamInv'
<1>1. TeamKnown'
  BY DEF TeamInv, TeamKnown, Queued, Message, TreesKnown, SimplePlanTree
<1>2. GoodPlans(rps')
  BY DEF TeamInv
<1>3. QED
  BY <1>1, <1>2 DEF TeamInv

\* Nothing but the running plans and the marks does.
LEMMA PlansChange ==
  ASSUME TeamInv, UNCHANGED <<team, msgQueue, spts, world, late, net>>,
         GoodPlans(rps'), myMarks' \subseteq EntryPoints
  PROVE  TeamInv'
<1>1. TeamKnown' /\ TeamReal'
  BY DEF TeamInv, TeamKnown, TeamReal, Queued, Message, TreesKnown, SimplePlanTree
<1>2. InTime'
  BY DEF TeamInv, InTime, Known
<1>3. QED
  BY <1>1, <1>2 DEF TeamInv

\* The engine thread does nothing.
LEMMA HandleKeepsInv ==
  ASSUME TeamInv, NEW m \in net, HandlePlanTreeInfo(m)
  PROVE  TeamInv'
<1>1. UNCHANGED <<team, spts, rps, myMarks, world, late>> /\ net' \subseteq net
  BY DEF HandlePlanTreeInfo, mine
<1>2. TeamReal'
  BY <1>1 DEF TeamReal, TeamInv
<1>3. CASE msgQueue' = msgQueue
  <2>1. team' \in [Others -> Agent] /\ msgQueue' \in Seq(Queued) /\ Len(msgQueue') <= MaxQueue
    BY <1>1, <1>3 DEF TeamInv, TeamKnown
  <2>2. InTime'
    BY <1>1, <1>3 DEF TeamInv, InTime, Known
  <2>3. QED
    BY <1>1, <1>2, <2>1, <2>2, TeamChanges
<1>4. CASE /\ Len(msgQueue) < MaxQueue
           /\ msgQueue' = Append(msgQueue, [msg |-> m, recent |-> TRUE])
  <2> DEFINE new == [msg |-> m, recent |-> TRUE]
  <2>1. new \in Queued
    BY DEF TeamInv, TeamReal, Queued
  <2>2. msgQueue \in Seq(Queued) /\ team' \in [Others -> Agent]
    BY <1>1 DEF TeamInv, TeamKnown
  <2>3. new.recent
    OBVIOUS
  <2> HIDE DEF new
  <2>4. msgQueue' \in Seq(Queued) /\ Len(msgQueue') <= MaxQueue
    BY <1>4, <2>1, <2>2, TeamAssumption DEF new
  <2>5. ASSUME NEW k \in DOMAIN msgQueue', ~ late PROVE msgQueue'[k].recent
    <3>1. \A j \in DOMAIN msgQueue : msgQueue[j].recent
      BY <2>5 DEF TeamInv, InTime
    <3>2. msgQueue' = Append(msgQueue, new)
      BY <1>4 DEF new
    <3>3. k = Len(msgQueue) + 1 \/ k \in DOMAIN msgQueue
      BY <2>1, <2>2, <2>5, <3>2
    <3>4. k \in DOMAIN msgQueue => msgQueue'[k] = msgQueue[k]
      BY <2>1, <2>2, <3>2
    <3>5. k = Len(msgQueue) + 1 => msgQueue'[k] = new
      BY <2>1, <2>2, <3>2
    <3>6. QED
      BY <2>3, <3>1, <3>3, <3>4, <3>5
  <2>6. InTime'
    BY <1>1, <2>5 DEF TeamInv, InTime, Known
  <2>7. QED
    BY <1>1, <1>2, <2>2, <2>4, <2>6, TeamChanges
<1>5. QED
  BY <1>3, <1>4 DEF HandlePlanTreeInfo

LEMMA BroadcastKeepsInv ==
  ASSUME TeamInv, NEW a \in Others, Broadcast(a)
  PROVE  TeamInv'
<1> DEFINE new == [from |-> a, ids |-> ToMessage(world[a].tree), marks |-> world[a].marks]
<1>1. UNCHANGED <<team, msgQueue, spts, rps, myMarks, world, late>>
      /\ net' = {m \in net : m.from # a} \cup {new} /\ world[a].tree # {}
  BY DEF Broadcast, mine
<1>2. world[a].tree \in Trees /\ world[a].marks \subseteq EntryPoints
  BY <1>1 DEF TeamInv, TeamReal
<1>3. new \in Message
  BY <1>2 DEF Message
<1> HIDE DEF new
<1>4. TeamReal'
  BY <1>1, <1>3 DEF TeamInv, TeamReal
<1>5. InTime'
  BY <1>1 DEF TeamInv, InTime, Known
<1>6. QED
  BY <1>1, <1>4, <1>5, TeamChanges DEF TeamInv, TeamKnown

\* What changes of an agent is neither whether it is active nor what it sent.
LEMMA AgentChanges ==
  ASSUME TeamInv, UNCHANGED <<msgQueue, spts, mine, world, late, net>>,
         team' \in [Others -> Agent], \A b \in Others : team'[b].active = team[b].active
  PROVE  TeamInv'
<1>1. UNCHANGED <<spts, rps, myMarks>>
  BY DEF mine
<1>2. TeamReal'
  BY DEF TeamInv, TeamReal
<1>3. InTime'
  BY DEF TeamInv, InTime, Known
<1>4. QED
  BY <1>1, <1>2, <1>3, TeamChanges DEF TeamInv, TeamKnown

LEMMA ExpiresKeepsInv ==
  ASSUME TeamInv, NEW a \in Others, Expires(a)
  PROVE  TeamInv'
<1>1. team' = [team EXCEPT ![a].recent = FALSE]
      /\ UNCHANGED <<msgQueue, spts, mine, world, late, net>>
  BY DEF Expires
<1>2. team \in [Others -> Agent]
  BY DEF TeamInv, TeamKnown
<1>3. team' \in [Others -> Agent] /\ \A b \in Others : team'[b].active = team[b].active
  BY <1>1, <1>2 DEF Agent
<1>4. QED
  BY <1>1, <1>3, AgentChanges

LEMMA IgnoredKeepsInv ==
  ASSUME TeamInv, NEW a \in Others, SetAgentIgnored(a)
  PROVE  TeamInv'
<1>1. team' = [team EXCEPT ![a].ignored = ~ team[a].ignored]
      /\ UNCHANGED <<msgQueue, spts, mine, world, late, net>>
  BY DEF SetAgentIgnored
<1>2. team \in [Others -> Agent]
  BY DEF TeamInv, TeamKnown
<1>3. team' \in [Others -> Agent] /\ \A b \in Others : team'[b].active = team[b].active
  BY <1>1, <1>2 DEF Agent
<1>4. QED
  BY <1>1, <1>3, AgentChanges

LEMMA AuthorityKeepsInv ==
  ASSUME TeamInv, NEW a \in Others, HearAuthority(a)
  PROVE  TeamInv'
<1>1. team' = [team EXCEPT ![a].recent = TRUE]
      /\ UNCHANGED <<msgQueue, spts, mine, world, late, net>>
  BY DEF HearAuthority
<1>2. team \in [Others -> Agent]
  BY DEF TeamInv, TeamKnown
<1>3. team' \in [Others -> Agent] /\ \A b \in Others : team'[b].active = team[b].active
  BY <1>1, <1>2 DEF Agent
<1>4. QED
  BY <1>1, <1>3, AgentChanges

LEMMA QueueKeepsInv ==
  ASSUME TeamInv, QueueTimeOut
  PROVE  TeamInv'
<1>1. PICK k \in DOMAIN msgQueue :
        /\ msgQueue' = [i \in DOMAIN msgQueue |->
                          IF i <= k THEN [msgQueue[i] EXCEPT !.recent = FALSE] ELSE msgQueue[i]]
        /\ team' = [a \in Others |-> IF \E i \in 1..k : msgQueue[i].msg.from = a
                                     THEN [team[a] EXCEPT !.recent = FALSE] ELSE team[a]]
  BY DEF QueueTimeOut
<1>2. late' = TRUE /\ UNCHANGED <<spts, rps, myMarks, world, net>>
  BY DEF QueueTimeOut, mine
<1>3. team \in [Others -> Agent] /\ msgQueue \in Seq(Queued) /\ Len(msgQueue) <= MaxQueue
  BY DEF TeamInv, TeamKnown
<1>4. team' \in [Others -> Agent]
  <2>1. ASSUME NEW a \in Others PROVE team[a] \in Agent /\ [team[a] EXCEPT !.recent = FALSE] \in Agent
    <3>1. team[a] \in Agent
      BY <1>3
    <3>2. QED
      BY <3>1 DEF Agent
  <2>2. QED
    BY <1>1, <2>1
<1>5. msgQueue' \in Seq(Queued) /\ Len(msgQueue') <= MaxQueue
  <2>1. Len(msgQueue) \in Nat /\ DOMAIN msgQueue = 1..Len(msgQueue)
        /\ \A i \in 1..Len(msgQueue) : msgQueue[i] \in Queued
    BY <1>3
  <2>2. \A i \in 1..Len(msgQueue) : msgQueue'[i] \in Queued
    BY <1>1, <2>1 DEF Queued
  <2>3. msgQueue' \in [1..Len(msgQueue) -> Queued]
    BY <1>1, <2>1, <2>2
  <2>4. QED
    BY <1>3, <2>1, <2>3
<1>6. TeamReal' /\ InTime'
  BY <1>2 DEF TeamInv, TeamReal, InTime
<1>7. QED
  BY <1>2, <1>4, <1>5, <1>6, TeamChanges

LEMMA MoveOtherKeepsInv ==
  ASSUME TeamInv, NEW a \in Others, MoveOther(a)
  PROVE  TeamInv'
<1>1. UNCHANGED <<team, msgQueue, spts, rps, myMarks, late, net>>
  BY DEF MoveOther, mine
<1>2. PICK t \in Trees \cup {{}} :
        world' = [world EXCEPT ![a] =
                    [tree |-> t, marks |-> UNION {Succeeded(s) : s \in StatesOf(t)}]]
  BY DEF MoveOther
<1>3. t \subseteq States \X (States \cup {None})
  BY <1>2, TreesAreTrees
<1>4. \A s \in StatesOf(t) : s \in States
  BY <1>3 DEF StatesOf
<1>5. \A s \in StatesOf(t) : Succeeded(s) \subseteq EntryPoints
  BY <1>4, PlansOfStates DEF Succeeded
<1>6. (UNION {Succeeded(s) : s \in StatesOf(t)}) \subseteq EntryPoints
  BY <1>5
<1>7. TeamReal'
  BY <1>1, <1>2, <1>6 DEF TeamInv, TeamReal
<1>8. InTime'
  BY <1>1 DEF TeamInv, InTime, Known
<1>9. QED
  BY <1>1, <1>7, <1>8, TeamChanges DEF TeamInv, TeamKnown

\* Running plans that keep their state and their agents stay good.
LEMMA PlansStayGood ==
  ASSUME NEW R, GoodPlans(R), NEW Q \in RunningPlans,
         \A p \in Plans : Q[p].state = R[p].state /\ Q[p].agents = R[p].agents
  PROVE  GoodPlans(Q) /\ MyPlans(Q) = MyPlans(R)
<1>1. MyPlans(Q) = MyPlans(R)
  BY DEF MyPlans
<1>2. ASSUME NEW p \in MyPlans(Q) PROVE Runs(Q[p], p)
  <2>1. p \in MyPlans(R)
    BY <1>1, <1>2
  <2>2. p \in Plans /\ Runs(R[p], p)
    BY <2>1, PlanOfMine
  <2>3. Q[p] \in RunningPlan
    BY <2>2 DEF RunningPlans
  <2>4. QED
    BY <2>2, <2>3 DEF Runs, Placed
<1>3. QED
  BY <1>1, <1>2 DEF GoodPlans

LEMMA ProtectionKeepsInv ==
  ASSUME TeamInv, NEW p \in Plans, ProtectionEnds(p)
  PROVE  TeamInv' /\ MyPlans(rps') = MyPlans(rps)
<1>1. UNCHANGED <<team, msgQueue, spts, myMarks, world, late, net>>
      /\ rps' = [rps EXCEPT ![p].protected = IF rps[p].protected = "plan" THEN "state" ELSE "no"]
  BY DEF ProtectionEnds
<1>2. GoodPlans(rps) /\ rps \in RunningPlans
  BY DEF TeamInv, GoodPlans
<1>3. rps' \in RunningPlans
      /\ \A q \in Plans : rps'[q].state = rps[q].state /\ rps'[q].agents = rps[q].agents
  BY <1>1, <1>2 DEF RunningPlans, RunningPlan
<1>4. GoodPlans(rps') /\ MyPlans(rps') = MyPlans(rps)
  BY <1>2, <1>3, PlansStayGood
<1>5. QED
  BY <1>1, <1>4, PlansChange DEF TeamInv, TeamKnown

LEMMA CycleKeepsInv ==
  ASSUME TeamInv, NEW p \in Plans, CycleChanges(p)
  PROVE  TeamInv' /\ MyPlans(rps') = MyPlans(rps)
<1>1. UNCHANGED <<team, msgQueue, spts, myMarks, world, late, net>>
      /\ \E c \in {"observing", "overridden", "overriding"} : rps' = [rps EXCEPT ![p].cycle = c]
  BY DEF CycleChanges
<1>2. GoodPlans(rps) /\ rps \in RunningPlans
  BY DEF TeamInv, GoodPlans
<1>3. rps' \in RunningPlans
      /\ \A q \in Plans : rps'[q].state = rps[q].state /\ rps'[q].agents = rps[q].agents
  BY <1>1, <1>2 DEF RunningPlans, RunningPlan
<1>4. GoodPlans(rps') /\ MyPlans(rps') = MyPlans(rps)
  BY <1>2, <1>3, PlansStayGood
<1>5. QED
  BY <1>1, <1>4, PlansChange DEF TeamInv, TeamKnown


-------------------------------------------------------------------------------
(* The rules of the robot *)

\* What runs below a plan runs under its state.
LEMMA BelowIsUnder ==
  ASSUME NEW R, GoodPlans(R), NEW p \in MyPlans(R)
  PROVE  Below(R, p) \subseteq PlansUnder(R[p].state)
<1> DEFINE W == {p} \cup PlansUnder(R[p].state)
<1>1. p \in Plans /\ R[p].state \in States /\ R \in RunningPlans
  BY PlanOfMine DEF GoodPlans
<1>2. Closed(PlansUnder(R[p].state))
      /\ ToSet(PlansIn[R[p].state]) \subseteq PlansUnder(R[p].state)
  BY <1>1, UnderIsClosed
<1>3. Family(R, W)
  <2>1. W \subseteq Plans
    BY <1>1, <1>2 DEF Closed
  <2>2. ASSUME NEW q \in W \cap MyPlans(R) PROVE ToSet(PlansIn[R[q].state]) \subseteq W
    <3>1. CASE q = p
      BY <1>2, <3>1
    <3>2. CASE q \in PlansUnder(R[p].state)
      <4>1. R[q].state \in States /\ PlanOf[R[q].state] = q
        BY <2>2, PlanOfMine DEF Runs
      <4>2. QED
        BY <1>2, <3>2, <4>1 DEF Closed
    <3>3. QED
      BY <2>2, <3>1, <3>2
  <2>3. QED
    BY <2>1, <2>2 DEF Family
<1> HIDE DEF W
<1>4. p \in W
  BY DEF W
<1>5. DepthFirst(R, p) \in Seq(W \cap MyPlans(R))
  BY <1>1, <1>3, <1>4, DepthFirstVisits
<1>6. ToSet(DepthFirst(R, p)) \subseteq W
  BY <1>5 DEF ToSet
<1>7. QED
  BY <1>6 DEF Below, W

\* In another state of a plan none of the plans that were below it runs.
LEMMA Reentered ==
  ASSUME NEW R, GoodPlans(R), NEW p \in MyPlans(R), NEW s \in States, PlanOf[s] = p,
         s # R[p].state, NEW rp, Runs(rp, p), NEW tasks \in Tasks(PlansUnder(s))
  PROVE  /\ GoodPlans(Allocated([Drop(R, p) EXCEPT ![p] = rp], tasks))
         /\ MyPlans(Allocated([Drop(R, p) EXCEPT ![p] = rp], tasks)) \cap Below(R, p) = {}
<1> DEFINE Q == [Drop(R, p) EXCEPT ![p] = rp]
<1>1. GoodPlans(Q) /\ MyPlans(Q) = MyPlans(R) \ Below(R, p)
  BY DropGood
<1> HIDE DEF Q
<1>2. PlansUnder(s) \in SUBSET Plans
  BY UnderIsClosed DEF Closed
<1>3. GoodPlans(Allocated(Q, tasks))
      /\ MyPlans(Allocated(Q, tasks)) \subseteq MyPlans(Q) \cup PlansUnder(s)
  BY <1>1, <1>2, AllocatedGood
<1>4. Below(R, p) \cap PlansUnder(s) = {}
  <2>1. R[p].state \in States /\ PlanOf[R[p].state] = p
    BY PlanOfMine DEF Runs
  <2>2. PlansUnder(s) \cap PlansUnder(R[p].state) = {}
    BY <2>1, UnderIsDisjoint
  <2>3. QED
    BY <2>2, BelowIsUnder
<1>5. QED
  BY <1>1, <1>3, <1>4 DEF Q

\* What MarksKept says of a step.
StepKeepsMarks ==
  \A e \in myMarks \ myMarks' :
    /\ PlanOfMark(e) \notin MyPlans(rps')
    /\ \A a \in Known(spts') : ~ ContainsPlan(spts'[a].tree, PlanOfMark(e))

LEMMA LeavingKeepsMarks ==
  ASSUME NEW gone, NEW more, myMarks' = MarksAfterLeaving(myMarks, gone) \cup more,
         UNCHANGED spts, MyPlans(rps') \cap gone = {}
  PROVE  StepKeepsMarks
BY DEF StepKeepsMarks, MarksAfterLeaving, Known

LEMMA LeavingKeepsEntryPoints ==
  ASSUME TeamInv, NEW gone, NEW s \in States,
         myMarks' = MarksAfterLeaving(myMarks, gone) \cup Succeeded(s)
  PROVE  myMarks' \subseteq EntryPoints
<1>1. Succeeded(s) \subseteq EntryPoints
  BY PlansOfStates DEF Succeeded
<1>2. myMarks \subseteq EntryPoints
  BY DEF TeamInv, TeamKnown
<1>3. QED
  BY <1>1, <1>2 DEF MarksAfterLeaving

LEMMA TickKeepsMarks ==
  ASSUME TeamInv, Tick
  PROVE  StepKeepsMarks
<1>1. myMarks' = CleanMarks(myMarks, rps, UpdatedTrees)
  BY TickParts
<1>2. MyPlans(rps') = MyPlans(rps) /\ \A a \in Others : spts'[a].tree = UpdatedTrees[a].tree
  BY TickKeeps
<1>3. QED
  BY <1>1, <1>2 DEF StepKeepsMarks, CleanMarks, Known

LEMMA DropLeavesItself ==
  ASSUME NEW R \in RunningPlans, NEW p \in Plans
  PROVE  Drop(R, p)[p] = R[p]
BY DEF Drop, Below

LEMMA MoveStateKeepsInv ==
  ASSUME TeamInv, NEW p \in Plans, NEW s \in States, MoveState(p, s)
  PROVE  TeamInv' /\ StepKeepsMarks
<1>1. rps[p].state # None /\ rps[p].state # s /\ PlanOf[s] = p
  BY DEF MoveState
<1>2. PICK tasks \in Tasks(PlansUnder(s)) :
        rps' = Allocated([Drop(rps, p) EXCEPT ![p] = MoveAll(Drop(rps, p)[p], s)], tasks)
  BY DEF MoveState
<1>3. myMarks' = MarksAfterLeaving(myMarks, Below(rps, p)) \cup Succeeded(s)
      /\ UNCHANGED <<team, msgQueue, spts, world, late, net>>
  BY DEF MoveState
<1>4. GoodPlans(rps) /\ rps \in RunningPlans /\ p \in MyPlans(rps)
  BY <1>1 DEF TeamInv, GoodPlans, MyPlans
<1>5. Drop(rps, p)[p] = rps[p]
  BY <1>4, DropLeavesItself
<1>6. Runs(MoveAll(rps[p], s), p)
  BY <1>1, <1>4, PlanOfMine, MoveAllRuns
<1>7. GoodPlans(rps') /\ MyPlans(rps') \cap Below(rps, p) = {}
  BY <1>1, <1>2, <1>4, <1>5, <1>6, Reentered
<1>8. StepKeepsMarks
  BY <1>3, <1>7, LeavingKeepsMarks
<1>9. myMarks' \subseteq EntryPoints
  BY <1>3, LeavingKeepsEntryPoints
<1>10. TeamInv'
  BY <1>3, <1>7, <1>9, PlansChange
<1>11. QED
  BY <1>8, <1>10

LEMMA AdaptKeepsInv ==
  ASSUME TeamInv, NEW p \in Plans, AdaptAssignment(p)
  PROVE  TeamInv' /\ StepKeepsMarks
<1>1. rps[p].state # None /\ UNCHANGED <<team, msgQueue, spts, world, late, net>>
  BY DEF AdaptAssignment
<1> DEFINE crew(up) == InState(rps[up], rps[up].state)
           new(up, task) == Adapted(rps[p], crew(up), task)
           st(up, task) == (CHOOSE x \in new(up, task) : x[1] = Me)[2]
           after(R, up, task) == [R EXCEPT ![p].agents = new(up, task)]
<1>2. PICK up \in Parents(rps, p),
           task \in {t[p] : t \in Tasks({p})} :
        IF st(up, task) = rps[p].state
        THEN /\ rps' = after(Limited(rps, p, {x[1] : x \in {y \in new(up, task) :
                                                           y[2] = st(up, task)}}), up, task)
             /\ UNCHANGED myMarks
        ELSE /\ \E tasks \in Tasks(PlansUnder(st(up, task))) :
                  rps' = Allocated(after([Drop(rps, p) EXCEPT
                                            ![p] = Entered(@, st(up, task))], up, task), tasks)
             /\ myMarks' = MarksAfterLeaving(myMarks, Below(rps, p))
                              \cup Succeeded(st(up, task))
  BY DEF AdaptAssignment
<1> DEFINE N == new(up, task)
           s == st(up, task)
<1>3. GoodPlans(rps) /\ rps \in RunningPlans /\ p \in MyPlans(rps)
  BY <1>1 DEF TeamInv, GoodPlans, MyPlans
<1>4. Runs(rps[p], p) /\ up \in MyPlans(rps) /\ Runs(rps[up], up)
  BY <1>2, <1>3, PlanOfMine DEF Parents
<1>5. crew(up) \in SUBSET Agents /\ Me \in crew(up)
  <2>1. Me \in InState(rps[up], rps[up].state)
    BY <1>4, PlaceOfMe
  <2>2. rps[up].agents \subseteq Agents \X States
    BY <1>4 DEF Runs, RunningPlan
  <2>3. QED
    BY <2>1, <2>2 DEF InState
<1>6. task \in [Agents -> EntryPoints \cup {None}] /\ task[Me] # None
      /\ \A a \in Agents : task[a] # None => PlanOfMark(task[a]) = p
  <2>1. PICK t \in Tasks({p}) : task = t[p]
    BY <1>2
  <2>2. QED
    BY <2>1 DEF Tasks
<1>7. /\ N \subseteq Agents \X States
      /\ \A x, y \in N : x[1] = y[1] => x = y
      /\ \E u \in States : PlanOf[u] = p /\ <<Me, u>> \in N
  <2> DEFINE A == Adapted(rps[p], crew(up), task)
  <2> HIDE DEF crew
  <2>1. /\ A \subseteq Agents \X States
        /\ \A x, y \in A : x[1] = y[1] => x = y
        /\ \E u \in States : PlanOf[u] = p /\ <<Me, u>> \in A
    <3>1. Runs(rps[p], p)
      BY <1>4
    <3>2. QED
      BY <1>5, <1>6, <3>1, AdaptedPlaces
  <2>2. A = N
    OBVIOUS
  <2> HIDE DEF A, new
  <2>3. QED
    BY <2>1, <2>2
<1> HIDE DEF new
<1>8. s \in States /\ PlanOf[s] = p /\ <<Me, s>> \in N
  <2>1. PICK u \in States : PlanOf[u] = p /\ <<Me, u>> \in N
    BY <1>7
  <2> DEFINE x == CHOOSE x \in N : x[1] = Me
  <2>2. x \in N /\ x[1] = Me
    BY <2>1
  <2>3. x = <<Me, u>>
    BY <1>7, <2>1, <2>2
  <2>4. s = x[2]
    OBVIOUS
  <2> HIDE DEF st, x
  <2>5. x[2] = u
    BY <2>3
  <2>6. QED
    BY <2>1, <2>4, <2>5
<1>9. CASE s = rps[p].state
  <2> DEFINE who == {x[1] : x \in {y \in N : y[2] = s}}
             L == Limited(rps, p, who)
             rp == [L[p] EXCEPT !.agents = N]
  <2>1. rps' = [L EXCEPT ![p].agents = N] /\ UNCHANGED myMarks
    BY <1>2, <1>9
  <2> HIDE DEF st
  <2>2. Me \in who
    <3>1. <<Me, s>> \in {y \in N : y[2] = s}
      BY <1>8
    <3>2. \A x \in {y \in N : y[2] = s} : x[1] \in who
      OBVIOUS
    <3> HIDE DEF who
    <3>3. QED
      BY <3>1, <3>2
  <2> HIDE DEF who
  <2>3. GoodPlans(L) /\ SameStates(L, rps) /\ MyPlans(L) = MyPlans(rps)
    BY <1>3, <2>2, LimitedGood
  <2> HIDE DEF L
  <2>4. Runs(L[p], p) /\ L[p].state = rps[p].state
    BY <1>3, <2>3, PlanOfMine DEF SameStates
  <2>5. Runs(rp, p)
    <3>1. rp \in RunningPlan /\ rp.state = L[p].state /\ rp.agents = N
      BY <1>7, <2>4 DEF Runs, RunningPlan
    <3> HIDE DEF rp
    <3>2. <<Me, rp.state>> \in rp.agents
      BY <1>8, <1>9, <2>4, <3>1
    <3>3. \A x, y \in rp.agents : x[1] = y[1] => x = y
      BY <1>7, <3>1
    <3>4. QED
      BY <2>4, <3>1, <3>2, <3>3 DEF Runs, Placed
  <2>6. rps' = [L EXCEPT ![p] = rp]
    BY <2>1
  <2> HIDE DEF rp
  <2>7. GoodPlans(rps')
    BY <2>3, <2>5, <2>6, PlanChanged
  <2>8. myMarks' \subseteq EntryPoints /\ StepKeepsMarks
    BY <2>1 DEF TeamInv, TeamKnown, StepKeepsMarks
  <2>9. QED
    BY <1>1, <2>7, <2>8, PlansChange
<1>10. CASE s # rps[p].state
  <2> DEFINE rp == [Entered(rps[p], s) EXCEPT !.agents = N]
             D == [Drop(rps, p) EXCEPT ![p] = Entered(Drop(rps, p)[p], s)]
  <2>1. PICK tasks \in Tasks(PlansUnder(s)) :
          rps' = Allocated([D EXCEPT ![p].agents = N], tasks)
    BY <1>2, <1>10
  <2>2. myMarks' = MarksAfterLeaving(myMarks, Below(rps, p)) \cup Succeeded(s)
    BY <1>2, <1>10
  <2> HIDE DEF st
  <2>3. [D EXCEPT ![p].agents = N] = [Drop(rps, p) EXCEPT ![p] = rp]
    <3>1. Drop(rps, p)[p] = rps[p]
      BY <1>3, DropLeavesItself
    <3>2. DOMAIN Drop(rps, p) = Plans
      BY DEF Drop
    <3>3. QED
      BY <3>1, <3>2
  <2>4. Runs(rp, p)
    <3>1. Entered(rps[p], s) \in RunningPlan /\ Entered(rps[p], s).state = s
      BY <1>4, <1>8 DEF Entered, Runs, RunningPlan
    <3>2. rp \in RunningPlan /\ rp.state = s /\ rp.agents = N
      BY <1>7, <3>1 DEF RunningPlan
    <3> HIDE DEF rp
    <3>3. QED
      BY <1>7, <1>8, <3>2 DEF Runs, Placed
  <2> HIDE DEF rp, D
  <2>5. GoodPlans(rps') /\ MyPlans(rps') \cap Below(rps, p) = {}
    <3>1. rps' = Allocated([Drop(rps, p) EXCEPT ![p] = rp], tasks)
      BY <2>1, <2>3
    <3>2. s \in States /\ PlanOf[s] = p /\ s # rps[p].state /\ tasks \in Tasks(PlansUnder(s))
      BY <1>8, <1>10, <2>1
    <3> HIDE DEF s
    <3>3. QED
      BY <1>3, <2>4, <3>1, <3>2, Reentered
  <2>6. StepKeepsMarks
    BY <1>1, <2>2, <2>5, LeavingKeepsMarks
  <2>7. myMarks' \subseteq EntryPoints
    BY <1>8, <2>2, LeavingKeepsEntryPoints
  <2>8. QED
    BY <1>1, <2>5, <2>6, <2>7, PlansChange
<1>11. QED
  BY <1>9, <1>10

-------------------------------------------------------------------------------
(* The beginning *)

LEMMA InitInv ==
  ASSUME Init
  PROVE  TeamInv
<1>1. TeamKnown
  <2>1. team \in [Others -> Agent]
    BY DEF Init, Agent
  <2>2. msgQueue = << >> /\ myMarks = {}
    BY DEF Init
  <2>3. TreesKnown(spts)
    BY DEF Init, TreesKnown, SimplePlanTree, NoTree
  <2>4. msgQueue \in Seq(Queued) /\ Len(msgQueue) <= MaxQueue
    BY <2>2, TeamAssumption
  <2>5. QED
    BY <2>1, <2>2, <2>3, <2>4 DEF TeamKnown
<1>2. TeamReal
  BY DEF Init, TeamReal
<1>3. InTime
  BY DEF Init, InTime, Known, NoTree
<1>4. GoodPlans(rps)
  <2> DEFINE at(s) == [p \in Plans |->
                        IF p = Master
                        THEN [NoPlan EXCEPT !.state = s, !.protected = "plan",
                                            !.agents = {<<Me, s>>}]
                        ELSE NoPlan]
  <2>0. PICK s \in {InitialState[e] : e \in EntryPoints} :
          PlanOf[s] = Master /\ \E tasks \in Tasks(PlansUnder(s)) : rps = Allocated(at(s), tasks)
    BY DEF Init
  <2> DEFINE m == [NoPlan EXCEPT !.state = s, !.protected = "plan", !.agents = {<<Me, s>>}]
             R == [p \in Plans |-> IF p = Master THEN m ELSE NoPlan]
  <2>1. PICK tasks \in Tasks(PlansUnder(s)) : PlanOf[s] = Master /\ rps = Allocated(R, tasks)
    BY <2>0
  <2>2. s \in States /\ Me \in Agents
    BY <2>0, TeamAssumption DEF Agents
  <2>3. m \in RunningPlan /\ m.state = s /\ m.agents = {<<Me, s>>}
    <3> DEFINE places == {<<Me, s>>}
    <3>1. places \in SUBSET (Agents \X States)
      BY <2>2
    <3>2. NoPlan \in RunningPlan
      BY DEF NoPlan, RunningPlan
    <3>3. m = [NoPlan EXCEPT !.state = s, !.protected = "plan", !.agents = places]
      OBVIOUS
    <3> HIDE DEF places, m
    <3>4. m \in RunningPlan /\ m.state = s /\ m.agents = places
      BY <2>2, <3>1, <3>2, <3>3 DEF RunningPlan
    <3>5. QED
      BY <3>4 DEF places
  <2>4. Runs(m, Master)
    <3> HIDE DEF m
    <3>1. \A x, y \in m.agents : x = y
      BY <2>3
    <3>2. QED
      BY <2>1, <2>2, <2>3, <3>1 DEF Runs, Placed
  <2>5. NoPlan \in RunningPlan /\ NoPlan.state = None
    BY DEF NoPlan, RunningPlan
  <2> HIDE DEF m
  <2>6. R \in RunningPlans /\ R[Master] = m /\ \A p \in Plans \ {Master} : R[p].state = None
    BY <2>3, <2>5, TeamAssumption DEF RunningPlans
  <2> HIDE DEF R
  <2>7. MyPlans(R) = {Master}
    <3>1. s # None
      BY <2>2, TeamAssumption
    <3>2. QED
      BY <2>3, <2>6, <3>1, TeamAssumption DEF MyPlans
  <2>8. GoodPlans(R)
    BY <2>4, <2>6, <2>7 DEF GoodPlans
  <2>9. PlansUnder(s) \in SUBSET Plans
    BY <2>2, UnderIsClosed DEF Closed
  <2>10. GoodPlans(Allocated(R, tasks))
    BY <2>8, <2>9, AllocatedGood
  <2>11. QED
    BY <2>1, <2>10
<1>5. QED
  BY <1>1, <1>2, <1>3, <1>4 DEF TeamInv

-------------------------------------------------------------------------------
(* The theorems *)

LEMMA StepKeepsInv ==
  ASSUME TeamInv, [Next]_vars
  PROVE  TeamInv' /\ StepKeepsMarks
<1>1. ASSUME UNCHANGED myMarks PROVE StepKeepsMarks
  BY <1>1 DEF StepKeepsMarks
<1>2. CASE Tick
  BY <1>2, TickKeepsInv, TickKeepsMarks
<1>3. ASSUME NEW m \in net, HandlePlanTreeInfo(m) PROVE TeamInv' /\ StepKeepsMarks
  BY <1>1, <1>3, HandleKeepsInv DEF HandlePlanTreeInfo, mine
<1>4. ASSUME NEW a \in Others, Broadcast(a) PROVE TeamInv' /\ StepKeepsMarks
  BY <1>1, <1>4, BroadcastKeepsInv DEF Broadcast, mine
<1>5. ASSUME NEW a \in Others, TimeOut(a) \/ Silence(a) PROVE TeamInv' /\ StepKeepsMarks
  <2>1. Expires(a)
    BY <1>5 DEF TimeOut, Silence
  <2>2. QED
    BY <1>1, <2>1, ExpiresKeepsInv DEF Expires, mine
<1>6. ASSUME NEW a \in Others, MoveOther(a) PROVE TeamInv' /\ StepKeepsMarks
  BY <1>1, <1>6, MoveOtherKeepsInv DEF MoveOther, mine
<1>7. ASSUME NEW a \in Others, SetAgentIgnored(a) PROVE TeamInv' /\ StepKeepsMarks
  BY <1>1, <1>7, IgnoredKeepsInv DEF SetAgentIgnored, mine
<1>8. ASSUME NEW a \in Others, HearAuthority(a) PROVE TeamInv' /\ StepKeepsMarks
  BY <1>1, <1>8, AuthorityKeepsInv DEF HearAuthority, mine
<1>9. CASE QueueTimeOut
  BY <1>1, <1>9, QueueKeepsInv DEF QueueTimeOut, mine
<1>10. ASSUME NEW p \in Plans, ProtectionEnds(p) PROVE TeamInv' /\ StepKeepsMarks
  BY <1>1, <1>10, ProtectionKeepsInv DEF ProtectionEnds
<1>11. ASSUME NEW p \in Plans, AdaptAssignment(p) PROVE TeamInv' /\ StepKeepsMarks
  BY <1>11, AdaptKeepsInv
<1>12. ASSUME NEW p \in Plans, CycleChanges(p) PROVE TeamInv' /\ StepKeepsMarks
  BY <1>1, <1>12, CycleKeepsInv DEF CycleChanges
<1>13. ASSUME NEW p \in Plans, NEW s \in States, MoveState(p, s)
       PROVE  TeamInv' /\ StepKeepsMarks
  BY <1>13, MoveStateKeepsInv
<1>14. CASE UNCHANGED vars
  <2>1. UNCHANGED <<team, msgQueue, spts, rps, myMarks, world, net, late>>
    BY <1>14 DEF vars
  <2>2. myMarks' \subseteq EntryPoints /\ GoodPlans(rps')
    BY <2>1 DEF TeamInv, TeamKnown
  <2>3. QED
    BY <1>1, <2>1, <2>2, PlansChange
<1>15. QED
  BY <1>2, <1>3, <1>4, <1>5, <1>6, <1>7, <1>8, <1>9, <1>10, <1>11, <1>12, <1>13, <1>14
  DEF Next

\* The picture of the team is consistent, whatever messages arrive and the rules of
\* the robot do: an agent has one task in a plan, the robot itself the state its plan
\* is in, and trees are kept of active agents only.
THEOREM PictureStaysConsistent == Spec => []PictureConsistent
<1>1. Init => TeamInv
  BY InitInv
<1>2. TeamInv /\ [Next]_vars => TeamInv'
  BY StepKeepsInv
<1>3. TeamInv => PictureConsistent
  BY InvIsConsistent
<1>4. QED
  BY <1>1, <1>2, <1>3, PTL DEF Spec

\* A success mark goes only when nobody is in its plan.
THEOREM MarksStay == Spec => MarksKept
<1>1. Init => TeamInv
  BY InitInv
<1>2. TeamInv /\ [Next]_vars => TeamInv' /\ StepKeepsMarks
  BY StepKeepsInv
<1>3. StepKeepsMarks =>
        \A e \in myMarks \ myMarks' :
          /\ PlanOfMark(e) \notin MyPlans(rps')
          /\ \A a \in Known(spts') : ~ ContainsPlan(spts'[a].tree, PlanOfMark(e))
  BY DEF StepKeepsMarks
<1>4. QED
  BY <1>1, <1>2, <1>3, PTL DEF Spec, MarksKept


-------------------------------------------------------------------------------
(* Who stays in the assignments *)

\* No plan runs under a state of its own.
LEMMA NotUnderItself ==
  ASSUME NEW s \in States
  PROVE  PlanOf[s] \notin PlansUnder(s)
<1>1. PICK level \in [Plans -> 1..Cardinality(Plans)] :
        \A t \in States : \A c \in ToSet(PlansIn[t]) : level[PlanOf[t]] < level[c]
  BY HierarchyAssumption
<1>2. \A c \in Plans : level[c] \in Int
  <2>1. Cardinality(Plans) \in Nat
    BY PlansAreFinite
  <2>2. QED
    BY <1>1, <2>1
<1> DEFINE P == {c \in Plans : level[PlanOf[s]] < level[c]}
<1>3. PlanOf[s] \in Plans /\ PlanOf[s] \notin P
  BY <1>2, PlansOfStates
<1>4. ToSet(PlansIn[s]) \subseteq P
  BY <1>1, PlansOfStates
<1>5. ASSUME NEW t \in States, PlanOf[t] \in P, NEW c \in ToSet(PlansIn[t]) PROVE c \in P
  <2>1. c \in Plans /\ level[PlanOf[t]] < level[c] /\ level[PlanOf[s]] < level[PlanOf[t]]
    BY <1>1, <1>5, PlansOfStates
  <2>2. level[c] \in Int /\ level[PlanOf[t]] \in Int /\ level[PlanOf[s]] \in Int
    BY <1>2, <1>3, <1>5, <2>1
  <2>3. QED
    BY <2>1, <2>2
<1>6. Closed(P)
  BY <1>5 DEF Closed
<1> HIDE DEF P
<1>7. PlansUnder(s) \subseteq P
  BY <1>4, <1>6, UnderIsLeast
<1>8. QED
  BY <1>3, <1>7

\* While states have one plan each a visit descends: what is visited next runs under
\* the state of every plan visited before.
Descends(R, v) ==
  /\ Len(v.todo) <= 1
  /\ \A k \in DOMAIN v.order : \A j \in 1..(k - 1) :
       v.order[k] \in PlansUnder(R[v.order[j]].state)
  /\ \A c \in ToSet(v.todo) : \A j \in DOMAIN v.order : c \in PlansUnder(R[v.order[j]].state)

LEMMA VisitDescends ==
  ASSUME OnePlanEach, NEW R, GoodPlans(R), NEW v \in Visits(R, Plans), Descends(R, v)
  PROVE  Descends(R, Visit(R, v))
<1>1. v.todo \in Seq(Plans) /\ v.order \in Seq(Plans \cap MyPlans(R))
  BY DEF Visits
<1>2. CASE v.todo = << >>
  BY <1>2 DEF Visit
<1>3. CASE v.todo # << >>
  <2> DEFINE q == Head(v.todo)
  <2>1. Tail(v.todo) = << >> /\ q \in Plans /\ q \in ToSet(v.todo)
    BY <1>1, <1>3 DEF Descends, ToSet
  <2>2. \A j \in DOMAIN v.order : q \in PlansUnder(R[v.order[j]].state)
    BY <2>1 DEF Descends
  <2>3. CASE R[q].state = None
    <3>1. Visit(R, v) = [v EXCEPT !.todo = << >>]
      BY <1>3, <2>1, <2>3 DEF Visit
    <3>2. Visit(R, v).todo = << >> /\ Visit(R, v).order = v.order
      BY <3>1 DEF Visits
    <3>3. ToSet(<< >>) = {}
      BY DEF ToSet
    <3>4. QED
      BY <3>2, <3>3 DEF Descends
  <2>4. CASE R[q].state # None
    <3> DEFINE s == R[q].state
               order == Append(v.order, q)
               m == Len(v.order)
    <3>1. Visit(R, v) = [todo |-> PlansIn[s] \o << >>, order |-> order]
      BY <1>3, <2>1, <2>4 DEF Visit
    <3>2. q \in MyPlans(R)
      BY <2>1, <2>4 DEF MyPlans
    <3>3. s \in States /\ PlanOf[s] = q
      BY <3>2, PlanOfMine DEF Runs
    <3>4. PlansIn[s] \in Seq(Plans) /\ Len(PlansIn[s]) <= 1
      BY <3>3, PlansOfStates DEF OnePlanEach
    <3>5. m \in Nat /\ DOMAIN v.order = 1..m /\ DOMAIN order = 1..(m + 1)
          /\ order[m + 1] = q /\ \A j \in 1..m : order[j] = v.order[j]
      BY <1>1, <2>1
    <3>6. \A j \in 1..m : v.order[j] \in MyPlans(R)
      BY <1>1, <3>5
    <3> HIDE DEF order, m, q, s
    <3>7. Visit(R, v).todo = PlansIn[s] /\ Visit(R, v).order = order
      BY <3>1, <3>4
    <3>8. ASSUME NEW k \in 1..(m + 1), NEW j \in 1..(k - 1)
          PROVE  order[k] \in PlansUnder(R[order[j]].state)
      <4>1. j \in 1..m /\ order[j] = v.order[j]
        BY <3>5, <3>8
      <4>2. CASE k = m + 1
        BY <2>2, <3>5, <4>1, <4>2
      <4>3. CASE k # m + 1
        <5>1. k \in 1..m /\ order[k] = v.order[k]
          BY <3>5, <3>8, <4>3
        <5>2. QED
          BY <3>5, <3>8, <4>1, <5>1 DEF Descends
      <4>4. QED
        BY <4>2, <4>3
    <3>9. ASSUME NEW c \in ToSet(PlansIn[s]), NEW j \in 1..(m + 1)
          PROVE  c \in PlansUnder(R[order[j]].state)
      <4>1. CASE j = m + 1
        <5>1. R[order[j]].state = s
          BY <3>5, <4>1 DEF s
        <5>2. QED
          BY <3>3, <3>9, <5>1, UnderIsClosed
      <4>2. CASE j # m + 1
        <5>1. j \in 1..m /\ order[j] = v.order[j]
          BY <3>5, <3>9, <4>2
        <5>2. q \in PlansUnder(R[order[j]].state) /\ order[j] \in MyPlans(R)
          BY <2>2, <3>5, <3>6, <5>1
        <5>3. Closed(PlansUnder(R[order[j]].state))
          BY <5>2, PlanOfMine, UnderIsClosed
        <5>4. QED
          BY <3>3, <3>9, <5>2, <5>3 DEF Closed
      <4>3. QED
        BY <4>1, <4>2
    <3>10. QED
      BY <3>4, <3>5, <3>7, <3>8, <3>9 DEF Descends
  <2>5. QED
    BY <2>3, <2>4
<1>4. QED
  BY <1>2, <1>3

\* The order in which an iteration updates the assignments.
LEMMA OrderDescends ==
  ASSUME OnePlanEach, NEW R, GoodPlans(R), NEW order, order = DepthFirst(R, Master)
  PROVE  /\ order \in Seq(Plans \cap MyPlans(R))
         /\ \A k \in 1..Len(order) : \A j \in 1..(k - 1) :
              order[k] \in PlansUnder(R[order[j]].state) /\ order[j] # order[k]
<1> DEFINE n == Cardinality(Plans)
<1>1. R \in RunningPlans /\ Master \in Plans /\ n \in Nat
  BY TeamAssumption, PlansAreFinite DEF GoodPlans
<1>2. PICK f : Course(f, R, Master, Plans)
  BY <1>1, AllPlansAreFamily, DepthFirstVisits
<1>3. /\ f \in [0..n -> Visits(R, Plans)]
      /\ f[0] = [todo |-> <<Master>>, order |-> << >>]
      /\ \A k \in 1..n : f[k] = Visit(R, f[k - 1])
      /\ order = f[n].order
  BY <1>2 DEF Course
<1> DEFINE G == {k \in 0..n : Descends(R, f[k])}
<1> HIDE DEF n
<1>4. 0 \in G
  <2>1. Descends(R, [todo |-> <<Master>>, order |-> << >>])
    BY DEF Descends
  <2>2. QED
    BY <1>1, <1>3, <2>1
<1>5. ASSUME NEW k \in 0..(n - 1), k \in G PROVE k + 1 \in G
  <2>1. k + 1 \in 1..n /\ k + 1 \in 0..n /\ (k + 1) - 1 = k /\ k \in 0..n
    BY <1>1
  <2>2. f[k + 1] = Visit(R, f[k]) /\ f[k] \in Visits(R, Plans) /\ Descends(R, f[k])
    BY <1>3, <1>5, <2>1
  <2>3. Descends(R, f[k + 1])
    BY <2>2, VisitDescends
  <2>4. QED
    BY <2>1, <2>3
<1>6. Descends(R, f[n])
  <2>1. 0..n \subseteq G
    <3> HIDE DEF G
    <3>1. QED
      BY <1>1, <1>4, <1>5, IntervalInduction
  <2>2. QED
    BY <1>1, <2>1
<1>7. order \in Seq(Plans \cap MyPlans(R))
  <2>1. f[n] \in Visits(R, Plans)
    BY <1>1, <1>3
  <2>2. QED
    BY <1>3, <2>1 DEF Visits
<1>8. ASSUME NEW k \in 1..Len(order), NEW j \in 1..(k - 1)
      PROVE  order[k] \in PlansUnder(R[order[j]].state) /\ order[j] # order[k]
  <2>1. order[k] \in PlansUnder(R[order[j]].state)
    BY <1>3, <1>6, <1>7, <1>8 DEF Descends
  <2>2. order[j] \in MyPlans(R)
    BY <1>7, <1>8
  <2>3. R[order[j]].state \in States /\ PlanOf[R[order[j]].state] = order[j]
    BY <2>2, PlanOfMine DEF Runs
  <2>4. order[j] \notin PlansUnder(R[order[j]].state)
    BY <2>3, NotUnderItself
  <2>5. QED
    BY <2>1, <2>4
<1>9. QED
  BY <1>7, <1>8


\* What an iteration leaves of the assignments: who is in a plan visited is what
\* AgentsAfter made of it with the agents available then; the others keep theirs.
LEMMA FinalAgents ==
  ASSUME OnePlanEach, NEW R, GoodPlans(R), NEW trees, TreesKnown(trees),
         NEW agents, NEW g, UpdateCourse(g, R, trees, agents),
         NEW order, order = DepthFirst(R, Master), NEW Q,
         Q = RecursiveUpdateAssignment(R, trees, agents)
  PROVE  /\ SameStates(Q, R)
         /\ \A k \in 1..Len(order) :
              Q[order[k]].agents = AgentsAfter(R, trees, order[k], g[k - 1].available)
         /\ \A p \in Plans : (\A k \in 1..Len(order) : order[k] # p) => Q[p] = R[p]
<1> DEFINE n == Len(order)
<1>1. /\ g \in [0..n -> Updates(R)]
      /\ g[0] = [rps |-> R, available |-> agents]
      /\ \A k \in 1..n : g[k] = UpdateAssignment(R, trees, g[k - 1], order[k])
      /\ Q = g[n].rps
  BY DEF UpdateCourse
<1>2. order \in Seq(Plans \cap MyPlans(R)) /\ n \in Nat
      /\ \A k \in 1..n : order[k] \in Plans /\ order[k] \in MyPlans(R)
  <2>1. order \in Seq(Plans \cap MyPlans(R))
    BY OrderDescends
  <2>2. QED
    BY <2>1
<1>3. \A k \in 1..n : \A j \in 1..(k - 1) : order[j] # order[k]
  BY OrderDescends
<1> HIDE DEF n
\* What each step does.
<1>4. ASSUME NEW k \in 1..n
      PROVE  /\ g[k].rps[order[k]].agents = AgentsAfter(R, trees, order[k], g[k - 1].available)
             /\ \A q \in Plans \ {order[k]} : g[k].rps[q] = g[k - 1].rps[q]
  <2>1. g[k - 1] \in Updates(R) /\ order[k] \in MyPlans(R)
    BY <1>1, <1>2
  <2>2. g[k] = UpdateAssignment(R, trees, g[k - 1], order[k])
    BY <1>1
  <2>3. QED
    BY <2>1, <2>2, UpdateAssignmentGood
<1>5. SameStates(Q, R)
  BY <1>1, <1>2 DEF SameStates, Updates
<1>6. ASSUME NEW k \in 1..n
      PROVE  Q[order[k]].agents = AgentsAfter(R, trees, order[k], g[k - 1].available)
  <2> DEFINE G == {i \in 0..n : i >= k => g[i].rps[order[k]] = g[k].rps[order[k]]}
  <2>1. 0 \in G
    BY <1>2
  <2>2. ASSUME NEW i \in 0..(n - 1), i \in G PROVE i + 1 \in G
    <3>1. i + 1 \in 1..n /\ i + 1 \in 0..n /\ (i + 1) - 1 = i
      BY <1>2
    <3>2. CASE i + 1 <= k
      BY <1>2, <3>1, <3>2
    <3>3. CASE i + 1 > k
      <4>1. k \in 1..((i + 1) - 1) /\ i >= k
        BY <1>2, <3>1, <3>3
      <4>2. order[k] # order[i + 1] /\ order[k] \in Plans
        BY <1>2, <1>3, <3>1, <4>1
      <4>3. g[i + 1].rps[order[k]] = g[i].rps[order[k]]
        BY <1>4, <3>1, <4>2
      <4>4. QED
        BY <2>2, <3>1, <4>1, <4>3
    <3>4. QED
      BY <1>2, <3>2, <3>3
  <2>3. n \in G
    <3>1. 0..n \subseteq G
      <4> HIDE DEF G
      <4>1. QED
        BY <1>2, <2>1, <2>2, IntervalInduction
    <3>2. QED
      BY <1>2, <3>1
  <2>4. g[n].rps[order[k]] = g[k].rps[order[k]]
    BY <1>2, <2>3
  <2>5. QED
    BY <1>1, <1>4, <2>4
<1>7. ASSUME NEW p \in Plans, \A k \in 1..n : order[k] # p
      PROVE  Q[p] = R[p]
  <2> DEFINE G == {i \in 0..n : g[i].rps[p] = R[p]}
  <2>1. 0 \in G
    BY <1>1, <1>2
  <2>2. ASSUME NEW i \in 0..(n - 1), i \in G PROVE i + 1 \in G
    <3>1. i + 1 \in 1..n /\ i + 1 \in 0..n /\ (i + 1) - 1 = i
      BY <1>2
    <3>2. g[i + 1].rps[p] = g[i].rps[p]
      BY <1>4, <1>7, <3>1
    <3>3. QED
      BY <2>2, <3>1, <3>2
  <2>3. 0..n \subseteq G
    <3> HIDE DEF G
    <3>1. QED
      BY <1>2, <2>1, <2>2, IntervalInduction
  <2>4. QED
    BY <1>1, <1>2, <2>3
<1>8. QED
  BY <1>5, <1>6, <1>7 DEF n

\* Who reports to be in the plan or is known to be, and is available, stays.
LEMMA StaysInPlan ==
  ASSUME NEW R, GoodPlans(R), NEW p \in MyPlans(R), NEW trees, TreesKnown(trees),
         NEW a \in Others, Leads(trees[a].tree, R, p), PlaceOf(R[p], a) # {},
         NEW available, a \in available
  PROVE  \E x \in AgentsAfter(R, trees, p, available) : x[1] = a
<1> DEFINE new == Reporting(R, trees, p)
           quiet == NoUpdates(trees)
           rp == R[p]
<1>1. Runs(rp, p)
  BY PlanOfMine
<1>2. a \in Known(trees)
  <2>1. p \in Upto(R, p)
    BY DEF Upto
  <2>2. CASE p = Master
    <3>1. ContainsPlan(trees[a].tree, p)
      BY <2>1, <2>2 DEF Leads
    <3>2. QED
      BY <3>1 DEF ContainsPlan, InTree, StatesOf, Known
  <2>3. CASE p # Master
    <3>1. trees[a].tree # {}
      BY <2>1, <2>3 DEF Leads
    <3>2. QED
      BY <3>1 DEF Known
  <2>4. QED
    BY <2>2, <2>3
<1>3. CASE trees[a].isNew
  <2>1. a \in new
    BY <1>2, <1>3 DEF Reporting
  <2> DEFINE s == CHOOSE s \in InTree(trees[a].tree, p) : TRUE
  <2>2. s \in States
    BY <2>1, ReportingIsKnown
  <2>3. a \in Agents
    BY DEF Agents
  <2> HIDE DEF s
  <2>4. PICK x \in Reported(rp, a, s) : x[1] = a
    BY <1>1, <2>2, <2>3, ReportedPlaces
  <2>5. x \in Heard(rp, trees, p, new)
    BY <2>1, <2>4 DEF Heard, s
  <2>6. Stays(rp, x, new, quiet) /\ Available(rp, x, available)
    BY <2>1, <2>4 DEF Stays, Available
  <2> HIDE DEF new, quiet, rp
  <2>7. x \in AgentsAfter(R, trees, p, available)
    BY <2>5, <2>6 DEF AgentsAfter, new, quiet, rp
  <2>8. QED
    BY <2>4, <2>7
<1>4. CASE ~ trees[a].isNew
  <2>1. a \notin new /\ a \in quiet
    BY <1>2, <1>4 DEF Reporting, NoUpdates
  <2>2. PICK x \in rp.agents : x[1] = a
    BY DEF PlaceOf
  <2>3. x \in Heard(rp, trees, p, new)
    BY <2>1, <2>2 DEF Heard
  <2>4. Stays(rp, x, new, quiet) /\ Available(rp, x, available)
    BY <2>1, <2>2 DEF Stays, Available
  <2> HIDE DEF new, quiet, rp
  <2>5. x \in AgentsAfter(R, trees, p, available)
    BY <2>3, <2>4 DEF AgentsAfter, new, quiet, rp
  <2>6. QED
    BY <2>2, <2>5
<1>5. QED
  BY <1>3, <1>4

\* A tree leads to the same plans when only the assignments changed.
LEMMA LeadsAlike ==
  ASSUME NEW R, GoodPlans(R), NEW Q, SameStates(Q, R), NEW p, NEW tree
  PROVE  Upto(Q, p) = Upto(R, p) /\ (Leads(tree, Q, p) <=> Leads(tree, R, p))
<1>1. MyPlans(Q) = MyPlans(R)
  BY SameStatesSamePlans
<1>2. \A q \in MyPlans(R) : Q[q].state = R[q].state
  BY DEF SameStates, MyPlans
<1>3. Upto(Q, p) = Upto(R, p)
  BY <1>1, <1>2 DEF Upto
<1>4. ASSUME NEW u \in MyPlans(R) PROVE ChildrenOf(Q, u) = ChildrenOf(R, u)
  <2>1. ToSet(PlansIn[R[u].state]) \subseteq Plans /\ Q[u].state = R[u].state
    BY <1>2, PlanOfMine, PlansOfStates
  <2>2. QED
    BY <2>1 DEF ChildrenOf, SameStates
<1>5. \A q : Parents(Q, q) = Parents(R, q)
  BY <1>1, <1>4 DEF Parents
<1>6. \A q : \A u \in Parents(R, q) : Q[u].state = R[u].state
  BY <1>2 DEF Parents
<1>7. QED
  BY <1>3, <1>5, <1>6 DEF Leads

\* An iteration keeps whom it should.
LEMMA TickRemovesOnlyInactive ==
  ASSUME OnePlanEach, TeamInv, Tick, NEW p \in MyPlans(rps'),
         NEW a \in ActiveAgents(team') \ {Me},
         Leads(spts'[a].tree, rps', p), PlaceOf(rps[p], a) # {},
         \A q \in Upto(rps', p) \ {p} : <<a, rps'[q].state>> \in rps'[q].agents
  PROVE  PlaceOf(rps'[p], a) # {}
<1> DEFINE R == rps
           Q == rps'
           trees == UpdatedTrees
           agents == ActiveAgents(UpdatedTeam)
           order == DepthFirst(R, Master)
           n == Len(order)
<1>1. Q = RecursiveUpdateAssignment(R, trees, agents) /\ team' = UpdatedTeam
  BY TickParts
<1>2. GoodPlans(R) /\ TreesKnown(trees) /\ agents \in SUBSET Agents /\ Me \in agents
  BY UpdatedTypes DEF TeamInv
<1>3. a \in Others /\ a \in agents
  BY <1>1 DEF ActiveAgents
<1>4. spts'[a].tree = trees[a].tree
  BY <1>3, TickKeeps
<1>5. PICK g : UpdateCourse(g, R, trees, agents)
  BY <1>2, UpdateCourseExists
<1> HIDE DEF R, Q, trees, agents, order
<1>6. /\ SameStates(Q, R)
      /\ \A k \in 1..n :
           Q[order[k]].agents = AgentsAfter(R, trees, order[k], g[k - 1].available)
      /\ \A q \in Plans : (\A k \in 1..n : order[k] # q) => Q[q] = R[q]
  BY <1>1, <1>2, <1>5, FinalAgents DEF order
<1>7. Upto(Q, p) = Upto(R, p) /\ (Leads(trees[a].tree, Q, p) <=> Leads(trees[a].tree, R, p))
      /\ MyPlans(Q) = MyPlans(R)
  BY <1>2, <1>6, LeadsAlike, SameStatesSamePlans
<1>8. Leads(trees[a].tree, R, p) /\ p \in MyPlans(R) /\ PlaceOf(R[p], a) # {} /\ p \in Plans
      /\ \A q \in Upto(R, p) \ {p} : <<a, Q[q].state>> \in Q[q].agents
  BY <1>4, <1>7 DEF Q, R, MyPlans
<1>9. /\ order \in Seq(Plans \cap MyPlans(R))
      /\ \A k \in 1..n : \A j \in 1..(k - 1) :
           order[k] \in PlansUnder(R[order[j]].state) /\ order[j] # order[k]
  BY <1>2, OrderDescends DEF order
<1> HIDE DEF n
<1>10. n \in Nat /\ \A k \in 1..n : order[k] \in Plans /\ order[k] \in MyPlans(R)
  BY <1>9 DEF n
<1>11. /\ g \in [0..n -> Updates(R)] /\ g[0].available = agents
       /\ \A k \in 1..n : g[k] = UpdateAssignment(R, trees, g[k - 1], order[k])
  BY <1>5 DEF UpdateCourse, n, order
<1>12. CASE \A k \in 1..n : order[k] # p
  <2>1. Q[p] = R[p]
    BY <1>6, <1>8, <1>12
  <2>2. QED
    BY <1>8, <2>1 DEF Q
<1>13. ASSUME NEW k \in 1..n, order[k] = p PROVE PlaceOf(Q[p], a) # {}
  <2> DEFINE G == {i \in 0..(k - 1) : a \in g[i].available}
  <2>1. 0 \in G
    BY <1>3, <1>11, <1>10
  <2>2. ASSUME NEW i \in 0..((k - 1) - 1), i \in G PROVE i + 1 \in G
    <3>1. i + 1 \in 1..n /\ i + 1 \in 1..(k - 1) /\ (i + 1) - 1 = i /\ i + 1 \in 0..(k - 1)
      BY <1>10
    <3> DEFINE q == order[i + 1]
               rp == [R[q] EXCEPT !.agents = AgentsAfter(R, trees, q, g[i].available)]
    <3>2. q \in MyPlans(R) /\ q # p /\ p \in PlansUnder(R[q].state) /\ q \in Plans
      BY <1>9, <1>10, <1>13, <3>1
    <3>3. q \in Upto(R, p) \ {p}
      BY <3>2 DEF Upto
    <3>4. <<a, Q[q].state>> \in Q[q].agents /\ Q[q].state = R[q].state
      BY <1>6, <1>8, <3>2, <3>3 DEF SameStates
    <3>5. Q[q].agents = AgentsAfter(R, trees, q, g[i].available)
      BY <1>6, <3>1
    <3>6. g[i + 1].available = AvailableAfter(rp, g[i].available)
      <4>1. g[i + 1] = UpdateAssignment(R, trees, g[i], q)
        BY <1>11, <3>1
      <4> HIDE DEF q
      <4>2. UpdateAssignment(R, trees, g[i], q).available = AvailableAfter(rp, g[i].available)
        BY DEF UpdateAssignment
      <4>3. QED
        BY <4>1, <4>2
    <3>7. R[q] \in RunningPlan
      BY <1>2, <3>2, PlanOfMine DEF Runs
    <3> HIDE DEF q
    <3>8. <<a, rp.state>> \in rp.agents
      BY <3>4, <3>5, <3>7 DEF RunningPlan
    <3> HIDE DEF rp
    <3>9. a \in InState(rp, rp.state) /\ a \in InTask(rp, EntryOf[rp.state])
      <4> DEFINE x == <<a, rp.state>>
      <4>1. x \in rp.agents /\ x[1] = a /\ x[2] = rp.state
        BY <3>8
      <4> HIDE DEF x
      <4>2. QED
        BY <4>1 DEF InState, InTask
    <3>10. a \in g[i].available
      BY <2>2
    <3>11. a \in g[i + 1].available
      BY <3>6, <3>9, <3>10 DEF AvailableAfter
    <3>12. QED
      BY <3>1, <3>11
  <2>3. a \in g[k - 1].available
    <3>1. 0..(k - 1) \subseteq G /\ k - 1 \in Nat
      <4>1. k - 1 \in Nat
        BY <1>10
      <4> HIDE DEF G
      <4>2. QED
        BY <2>1, <2>2, <4>1, IntervalInduction
    <3>2. QED
      BY <3>1
  <2>4. PICK x \in AgentsAfter(R, trees, p, g[k - 1].available) : x[1] = a
    BY <1>2, <1>3, <1>8, <2>3, StaysInPlan
  <2>5. Q[p].agents = AgentsAfter(R, trees, p, g[k - 1].available)
    BY <1>6, <1>13
  <2>6. QED
    BY <2>4, <2>5 DEF PlaceOf
<1>14. QED
  BY <1>12, <1>13 DEF Q

\* Only an iteration of the main loop counts.
LEMMA OthersKeepIteration ==
  ASSUME [Next]_vars, iteration' # iteration
  PROVE  Tick
BY DEF Next, vars, mine, HandlePlanTreeInfo, Broadcast, TimeOut, Silence, Expires,
       MoveOther, SetAgentIgnored, HearAuthority, QueueTimeOut, ProtectionEnds,
       AdaptAssignment, CycleChanges, MoveState

\* While states have one plan each, an iteration removes no active agent from a plan
\* into which its tree leads: the list of available agents, which each visit of
\* recursiveUpdateAssignment shortens, has it still.
THEOREM RemovesOnlyInactive ==
  ASSUME OnePlanEach
  PROVE  Spec => OnlyInactiveRemoved
<1> DEFINE Removes ==
      iteration' # iteration =>
        \A p \in MyPlans(rps') : \A a \in ActiveAgents(team') \ {Me} :
          (/\ Leads(spts'[a].tree, rps', p) /\ PlaceOf(rps[p], a) # {}
           /\ \A q \in Upto(rps', p) \ {p} : <<a, rps'[q].state>> \in rps'[q].agents)
            => PlaceOf(rps'[p], a) # {}
<1>1. Init => TeamInv
  BY InitInv
<1>2. TeamInv /\ [Next]_vars => TeamInv'
  BY StepKeepsInv
<1>3. TeamInv /\ [Next]_vars => Removes
  BY OthersKeepIteration, TickRemovesOnlyInactive
<1>4. QED
  BY <1>1, <1>2, <1>3, PTL DEF Spec, OnlyInactiveRemoved
===============================================================================
