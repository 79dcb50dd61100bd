----------------------------- MODULE SelectorProofs -----------------------------
(***************************************************************************)
(* For any plans, cardinalities, teams, reports, successes and pool: the   *)
(* running plans that plan selection makes are filled by valid             *)
(* assignments, and the other agents keep the tasks they report as long as *)
(* the tasks have room.                                                    *)
(***************************************************************************)
EXTENDS PlanSelectorProperties, DataInduction, SequenceTheorems

Assumptions == AgentsAssumption /\ PlansAssumption /\ PoolAssumption /\ InputAssumption

-------------------------------------------------------------------------------
(* The fringe *)

\* A sequence with an element put in anywhere.
LEMMA InsertAtType ==
  ASSUME NEW S, NEW s \in Seq(S), NEW x \in S, NEW i \in 1..(Len(s) + 1)
  PROVE  InsertAt(s, i, x) \in Seq(S)
<1>1. SubSeq(s, 1, i - 1) \in Seq(S) /\ SubSeq(s, i, Len(s)) \in Seq(S)
  <2>1. \A k \in 1..(i - 1) : s[k] \in S
    OBVIOUS
  <2>2. \A k \in i..Len(s) : s[k] \in S
    OBVIOUS
  <2>3. QED
    BY <2>1, <2>2, SubSeqProperties
<1>2. <<x>> \in Seq(S)
  OBVIOUS
<1>3. QED
  BY <1>1, <1>2 DEF InsertAt

\* upper_bound (PartialAssignment.cpp:168) stays within the fringe, whatever the
\* order of its elements is, so that expand inserts and loses nothing.
LEMMA InsertKeeps ==
  ASSUME NEW S, NEW fringe \in Seq(S), NEW pa \in S
  PROVE  Insert(fringe, pa) \in Seq(S)
<1> DEFINE n == Len(fringe)
           L == {l \in [lo : 0..n, n : 0..n] : l.lo + l.n <= n}
           c == [lo |-> 0, n |-> n]
           Step(l) == Halved(fringe, pa, l)
           steps == [k \in 1..n |-> [l \in L |-> Step(l)]]
           g == CHOOSE h : h = [k \in 0..n |-> IF k = 0 THEN c ELSE Step(h[k - 1])]
<1>1. n \in Nat
  OBVIOUS
<1>2. ASSUME NEW l \in L PROVE Step(l) \in L
  <2> DEFINE half == l.n \div 2
  <2>1. l \in [lo : 0..n, n : 0..n] /\ l.lo \in Nat /\ l.n \in Nat /\ l.lo + l.n <= n
    BY <1>1
  <2>2. half \in Nat /\ half <= l.n /\ (l.n # 0 => half + 1 <= l.n)
    BY <2>1
  <2> HIDE DEF half
  <2>3. CASE l.n = 0
    BY <2>3 DEF Halved
  <2>4. CASE l.n # 0 /\ Before(pa, fringe[l.lo + half + 1])
    <3>1. Step(l) = [l EXCEPT !.n = half]
      BY <2>4 DEF Halved, half
    <3>2. Step(l).lo = l.lo /\ Step(l).n = half /\ Step(l) \in [lo : 0..n, n : 0..n]
      BY <1>1, <2>1, <2>2, <3>1
    <3>3. QED
      BY <1>1, <2>1, <2>2, <3>2
  <2>5. CASE l.n # 0 /\ ~ Before(pa, fringe[l.lo + half + 1])
    <3>1. Step(l) = [lo |-> l.lo + half + 1, n |-> l.n - half - 1]
      BY <2>5 DEF Halved, half
    <3>2. l.lo + half + 1 \in 0..n /\ l.n - half - 1 \in 0..n
          /\ (l.lo + half + 1) + (l.n - half - 1) <= n
      BY <1>1, <2>1, <2>2, <2>5
    <3>3. QED
      BY <3>1, <3>2
  <2>6. QED
    BY <2>3, <2>4, <2>5
<1>3. c \in L
  BY <1>1
<1>4. Insert(fringe, pa) = InsertAt(fringe, g[n].lo + 1, pa)
  BY DEF Insert
<1>5. \A l \in L : l.lo \in 0..n
  OBVIOUS
<1> HIDE DEF L, c, Step, n
<1>6. steps \in StepsOn(L, n)
  BY <1>2 DEF StepsOn
<1> HIDE DEF steps
<1>7. PICK f : StaysIn(f, L, n) /\ Unfolds(f, c, steps, n)
  BY <1>1, <1>3, <1>6, IntervalRecursion
<1>8. f \in [0..n -> L] /\ f[0] = c /\ \A k \in 1..n : f[k] = steps[k][f[k - 1]]
  BY <1>7 DEF StaysIn, Unfolds
<1>9. ASSUME NEW k \in 1..n PROVE f[k] = Step(f[k - 1])
  <2>1. k - 1 \in 0..n
    BY <1>1
  <2>2. f[k - 1] \in L
    BY <1>8, <2>1
  <2>3. QED
    BY <1>8, <2>2 DEF steps
<1>10. f = [k \in 0..n |-> IF k = 0 THEN c ELSE Step(f[k - 1])]
  BY <1>1, <1>8, <1>9
<1>11. g = [k \in 0..n |-> IF k = 0 THEN c ELSE Step(g[k - 1])]
  BY <1>10
<1> HIDE DEF g
<1>12. SameSteps(f, g, n)
  BY <1>1, <1>8, <1>9, <1>11 DEF SameSteps
<1>13. g[n] \in L
  BY <1>1, <1>8, <1>12, IntervalUnique DEF SameValues
<1>14. g[n].lo + 1 \in 1..(Len(fringe) + 1)
  BY <1>1, <1>5, <1>13 DEF n
<1>15. QED
  BY <1>4, <1>14, InsertAtType

\* The fringe holds what it held and what was inserted.
LEMMA InsertAllKeeps ==
  ASSUME NEW S, NEW fringe \in Seq(S), NEW pas, Len(pas) \in Nat, NEW which,
         \A k \in 1..Len(pas) : k \in which => pas[k] \in S
  PROVE  InsertAll(fringe, pas, which) \in Seq(S)
<1> DEFINE n == Len(pas)
           Step(k, s) == IF k \in which THEN Insert(s, pas[k]) ELSE s
           steps == [k \in 1..n |-> [s \in Seq(S) |-> Step(k, s)]]
           g == CHOOSE h : h = [k \in 0..n |-> IF k = 0 THEN fringe ELSE Step(k, h[k - 1])]
<1>1. n \in Nat
  OBVIOUS
<1>2. \A k \in 1..n : \A s \in Seq(S) : Step(k, s) \in Seq(S)
  BY InsertKeeps
<1>3. InsertAll(fringe, pas, which) = g[n]
  BY DEF InsertAll
<1> HIDE DEF Step, n
<1>4. steps \in StepsOn(Seq(S), n)
  BY <1>2 DEF StepsOn
<1> HIDE DEF steps
<1>5. PICK f : StaysIn(f, Seq(S), n) /\ Unfolds(f, fringe, steps, n)
  BY <1>1, <1>4, IntervalRecursion
<1>6. f \in [0..n -> Seq(S)] /\ f[0] = fringe /\ \A k \in 1..n : f[k] = steps[k][f[k - 1]]
  BY <1>5 DEF StaysIn, Unfolds
<1>7. ASSUME NEW k \in 1..n PROVE f[k] = Step(k, f[k - 1])
  <2>1. k - 1 \in 0..n
    BY <1>1
  <2>2. f[k - 1] \in Seq(S)
    BY <1>6, <2>1
  <2>3. QED
    BY <1>6, <2>2 DEF steps
<1>8. f = [k \in 0..n |-> IF k = 0 THEN fringe ELSE Step(k, f[k - 1])]
  BY <1>1, <1>6, <1>7
<1>9. g = [k \in 0..n |-> IF k = 0 THEN fringe ELSE Step(k, g[k - 1])]
  BY <1>8
<1> HIDE DEF g
<1>10. SameSteps(f, g, n)
  BY <1>1, <1>6, <1>7, <1>9 DEF SameSteps
<1>11. g[n] \in Seq(S)
  BY <1>1, <1>6, <1>10, IntervalUnique DEF SameValues
<1>12. QED
  BY <1>3, <1>11

-------------------------------------------------------------------------------
(* Partial assignments, for the input i *)

\* The agents and successes of a task.
Count(i, pa, e) == Cardinality(i.done[pa.plan][e]) + Cardinality(Working(pa, e))

\* The tasks that the agents have when the search begins.
SeedTasks(i, p, agents) ==
  LET before(a) == {b \in agents \cap Others : b < a /\ i.trees[p][b] = i.trees[p][a]}
      keeps(a) == /\ a \in Others /\ i.trees[p][a] # 0
                  /\ EntryPoints[p][i.trees[p][a]].max - Cardinality(i.done[p][i.trees[p][a]])
                       > Cardinality(before(a))
  IN  [a \in agents |-> IF i.old = NoOld /\ keeps(a) THEN i.trees[p][a] ELSE 0]

\* A partial assignment of a plan's tasks to the agents.
Shaped(pa, agents) ==
  /\ pa = [plan |-> pa.plan, asg |-> pa.asg, util |-> pa.util]
  /\ pa.plan \in Plans /\ pa.asg \in [agents -> {0} \cup Tasks(pa.plan)]

\* The agents that had a task when the search began have it.
KeepsSeed(i, pa, agents) ==
  \A a \in agents : SeedTasks(i, pa.plan, agents)[a] \in {0, pa.asg[a]}

NotOverfull(i, pa) == \A e \in Tasks(pa.plan) : Count(i, pa, e) <= EntryPoints[pa.plan][e].max

\* What the fringe holds: only a root may have tasks with less than no room, and a
\* root leaves the robot itself unassigned.
Partial(i, pa, agents) ==
  /\ Shaped(pa, agents) /\ KeepsSeed(i, pa, agents)
  /\ Unassigned(pa) = {} => NotOverfull(i, pa)

\* What the search returns.
Whole(i, pa, agents) ==
  /\ Shaped(pa, agents) /\ KeepsSeed(i, pa, agents)
  /\ Unassigned(pa) = {} /\ NotOverfull(i, pa)
  /\ \A e \in Tasks(pa.plan) : EntryPoints[pa.plan][e].min <= Count(i, pa, e)

Crew(agents) == agents \subseteq Agents /\ Me \in agents

\* The room of a task and what counts against it are numbers.
LEMMA RoomIsCount ==
  ASSUME Assumptions, in \in Inputs, NEW agents, Crew(agents), NEW pa, Shaped(pa, agents),
         NEW e \in Tasks(pa.plan)
  PROVE  /\ EntryPoints[pa.plan][e].min \in Nat /\ EntryPoints[pa.plan][e].max \in Nat
         /\ Count(in, pa, e) \in Nat
         /\ Room(pa, e).min = EntryPoints[pa.plan][e].min - Count(in, pa, e)
         /\ Room(pa, e).max = EntryPoints[pa.plan][e].max - Count(in, pa, e)
<1>1. pa.plan \in Plans /\ DOMAIN pa.asg = agents
  BY DEF Shaped
<1> DEFINE X == [min : Nat, max : Nat, sub : Seq(Seq(Plans))]
           s == EntryPoints[pa.plan]
<1>2. s \in Seq(X) /\ e \in DOMAIN s
  BY <1>1 DEF Assumptions, PlansAssumption, Tasks
<1>3. s[e].min \in Nat /\ s[e].max \in Nat
  <2>1. \A x \in X : x.min \in Nat /\ x.max \in Nat
    OBVIOUS
  <2> HIDE DEF X, s
  <2>2. s[e] \in X
    BY <1>2
  <2>3. QED
    BY <2>1, <2>2
<1>4. in.done[pa.plan][e] \subseteq Agents
  BY <1>1 DEF Assumptions, InputAssumption, Tasks
<1>5. Working(pa, e) \subseteq Agents
  BY <1>1 DEF Working, Crew
<1>6. IsFiniteSet(in.done[pa.plan][e]) /\ IsFiniteSet(Working(pa, e))
  BY <1>4, <1>5, FS_Subset DEF Assumptions, AgentsAssumption
<1>7. Cardinality(in.done[pa.plan][e]) \in Nat /\ Cardinality(Working(pa, e)) \in Nat
  BY <1>6, FS_CardinalityType
<1>8. QED
  BY <1>3, <1>7 DEF Count, Room

\* PartialAssignment::isGoal, which counts the room down, finds what is whole when
\* no task is overfull.
LEMMA GoalIsWhole ==
  ASSUME Assumptions, in \in Inputs, NEW agents, Crew(agents), NEW pa, Partial(in, pa, agents),
         IsGoal(pa)
  PROVE  Whole(in, pa, agents)
<1>1. Shaped(pa, agents) /\ Unassigned(pa) = {} /\ NotOverfull(in, pa)
  BY DEF Partial, IsGoal
<1>2. ASSUME NEW e \in Tasks(pa.plan) PROVE EntryPoints[pa.plan][e].min <= Count(in, pa, e)
  <2>1. Room(pa, e).min <= 0
    BY DEF IsGoal
  <2>2. QED
    BY <1>1, <2>1, RoomIsCount
<1>3. QED
  BY <1>1, <1>2 DEF Whole, Partial

\* And Assignment::isValid, which counts agents and successes up, agrees.
LEMMA WholeIsFilled ==
  ASSUME Assumptions, in \in Inputs, NEW agents, Crew(agents), NEW pa, Whole(in, pa, agents)
  PROVE  DOMAIN pa.asg = agents /\ AssignmentIsValid(pa)
<1>1. ASSUME NEW e \in Tasks(pa.plan)
      PROVE  LET n == Cardinality(Working(pa, e)) + Cardinality(in.done[pa.plan][e])
             IN  EntryPoints[pa.plan][e].min <= n /\ n <= EntryPoints[pa.plan][e].max
  <2>1. Cardinality(Working(pa, e)) \in Nat /\ Cardinality(in.done[pa.plan][e]) \in Nat
    <3>1. Working(pa, e) \subseteq Agents /\ in.done[pa.plan][e] \subseteq Agents
      BY DEF Whole, Shaped, Working, Crew, Assumptions, InputAssumption, Tasks
    <3>2. IsFiniteSet(Working(pa, e)) /\ IsFiniteSet(in.done[pa.plan][e])
      BY <3>1, FS_Subset DEF Assumptions, AgentsAssumption
    <3>3. QED
      BY <3>2, FS_CardinalityType
  <2>2. Count(in, pa, e) = Cardinality(Working(pa, e)) + Cardinality(in.done[pa.plan][e])
    BY <2>1 DEF Count
  <2>3. QED
    BY <2>2 DEF Whole, NotOverfull
<1>2. QED
  BY <1>1 DEF AssignmentIsValid, Whole, Shaped

\* An evaluation changes the utility alone.
LEMMA Evaluated ==
  ASSUME NEW agents, NEW pa, Shaped(pa, agents), NEW old
  PROVE  /\ Shaped(Evaluate(pa, old), agents) /\ Evaluate(pa, old).plan = pa.plan
         /\ Evaluate(pa, old).asg = pa.asg /\ Evaluate(pa, old).util = Utility(pa, old)
<1> DEFINE u == Utility(pa, old)
           w == [pa EXCEPT !.util = u]
<1>1. w = Evaluate(pa, old)
  BY Zenon DEF Evaluate
<1> HIDE DEF u
<1>2. pa = [plan |-> pa.plan, asg |-> pa.asg, util |-> pa.util]
  BY DEF Shaped
<1>3. w = [plan |-> pa.plan, asg |-> pa.asg, util |-> u]
  BY <1>2
<1>4. w.plan = pa.plan /\ w.asg = pa.asg /\ w.util = u
  BY <1>3
<1>5. Shaped(w, agents)
  BY <1>3, <1>4 DEF Shaped
<1>6. QED
  BY <1>1, <1>4, <1>5 DEF u

\* prepare, and addAlreadyAssignedRobots for the others (TaskAssignmentProblem.cpp).
LEMMA SeedIsPartial ==
  ASSUME Assumptions, in \in Inputs, NEW agents, Crew(agents), NEW p \in Plans
  PROVE  Partial(in, Seed(p, agents), agents) /\ Seed(p, agents).plan = p
<1> DEFINE root == Prepare(p, agents)
           before(a) == {b \in agents \cap Others : b < a /\ in.trees[p][b] = in.trees[p][a]}
           keeps(a) == /\ a \in Others /\ in.trees[p][a] # 0
                       /\ Room(root, in.trees[p][a]).max > Cardinality(before(a))
           f == [a \in agents |-> IF keeps(a) THEN in.trees[p][a] ELSE 0]
           new == [root EXCEPT !.asg = f]
<1>1. Shaped(root, agents) /\ root.plan = p /\ root.asg = [a \in agents |-> 0]
  BY DEF Prepare, Shaped
<1>2. \A a \in agents : in.trees[p][a] \in {0} \cup Tasks(p)
  BY DEF Assumptions, InputAssumption, Crew, Tasks
<1>3. f \in [agents -> {0} \cup Tasks(p)] /\ f[Me] = 0
  BY <1>2 DEF Crew, Others
<1>4. Preassign(root) = IF new.asg = root.asg THEN root ELSE Evaluate(new, NoOld)
  <2> DEFINE e0(a) == in.trees[root.plan][a]
             before0(a) == {b \in DOMAIN root.asg \cap Others : b < a /\ e0(b) = e0(a)}
             keeps0(a) == /\ a \in Others /\ e0(a) # 0
                          /\ Room(root, e0(a)).max > Cardinality(before0(a))
             f0 == [a \in DOMAIN root.asg |-> IF keeps0(a) THEN e0(a) ELSE root.asg[a]]
             new0 == [root EXCEPT !.asg = f0]
  <2>1. Preassign(root) = IF new0.asg = root.asg THEN root ELSE Evaluate(new0, NoOld)
    BY Zenon DEF Preassign
  <2>2. DOMAIN root.asg = agents /\ \A a \in agents : root.asg[a] = 0
    BY <1>1
  <2>3. \A a \in agents : keeps0(a) <=> keeps(a)
    <3> HIDE DEF root
    <3>1. \A a \in agents : before0(a) = before(a)
      BY <1>1, <2>2
    <3>2. QED
      BY <1>1, <3>1
  <2>4. \A a \in agents : e0(a) = in.trees[p][a]
    BY <1>1
  <2> HIDE DEF keeps, keeps0, e0, root
  <2>5. f0 = f
    BY <2>2, <2>3, <2>4
  <2>6. QED
    BY <2>1, <2>5
<1> HIDE DEF root, f
<1>5. new = [plan |-> p, asg |-> f, util |-> root.util]
  BY <1>1 DEF Shaped
<1>6. Shaped(new, agents) /\ new.plan = p /\ new.asg = f
  BY <1>3, <1>5 DEF Shaped
<1> HIDE DEF new
<1>7. /\ Shaped(Preassign(root), agents) /\ Preassign(root).plan = p
      /\ Preassign(root).asg = f
  <2>1. CASE new.asg = root.asg
    BY <1>1, <1>3, <1>4, <1>6, <2>1
  <2>2. CASE new.asg # root.asg
    BY <1>3, <1>4, <1>6, <2>2, Evaluated
  <2>3. QED
    BY <2>1, <2>2
<1>8. in.old = NoOld => f = SeedTasks(in, p, agents)
  <2>1. ASSUME NEW a \in agents, a \in Others, in.trees[p][a] # 0
        PROVE  Room(root, in.trees[p][a]).max
                 = EntryPoints[p][in.trees[p][a]].max - Cardinality(in.done[p][in.trees[p][a]])
    <3> DEFINE e == in.trees[p][a]
    <3>1. e \in Tasks(root.plan)
      BY <1>1, <1>2, <2>1
    <3>2. Working(root, e) = {}
      BY <1>1, <2>1 DEF Working
    <3> HIDE DEF e
    <3>3. Count(in, root, e) = Cardinality(in.done[p][e])
      <4>1. in.done[p][e] \subseteq Agents
        BY <1>1, <3>1 DEF Assumptions, InputAssumption, Tasks
      <4>2. IsFiniteSet(in.done[p][e])
        BY <4>1, FS_Subset DEF Assumptions, AgentsAssumption
      <4>3. Cardinality(in.done[p][e]) \in Nat /\ Cardinality({}) = 0
        BY <4>2, FS_CardinalityType, FS_EmptySet
      <4>4. QED
        BY <1>1, <3>2, <4>3 DEF Count
    <3>4. QED
      BY <1>1, <3>1, <3>3, RoomIsCount DEF e
  <2>2. QED
    BY <2>1 DEF SeedTasks, f
<1>9. in.old # NoOld => root.asg = SeedTasks(in, p, agents)
  BY <1>1 DEF SeedTasks
<1>10. /\ Shaped(Seed(p, agents), agents) /\ Seed(p, agents).plan = p
       /\ Seed(p, agents).asg = SeedTasks(in, p, agents) /\ Seed(p, agents).asg[Me] = 0
  <2>1. Seed(p, agents) = IF in.old = NoOld THEN Preassign(root) ELSE root
    BY DEF Seed, root
  <2>2. root.asg[Me] = 0
    BY <1>1 DEF Crew
  <2>3. QED
    BY <1>1, <1>3, <1>7, <1>8, <1>9, <2>1, <2>2
<1>11. KeepsSeed(in, Seed(p, agents), agents)
  BY <1>10 DEF KeepsSeed
<1>12. Me \in Unassigned(Seed(p, agents))
  BY <1>10 DEF Unassigned, Shaped, Crew
<1>13. QED
  BY <1>10, <1>11, <1>12 DEF Partial

\* expand (PartialAssignment.cpp): what is not thrown away for its utility is valid,
\* and no task of it is overfull; the agent that gets a task had none.
LEMMA ChildIsPartial ==
  ASSUME Assumptions, in \in Inputs, NEW agents, Crew(agents), NEW pa, Partial(in, pa, agents),
         NEW e \in Expandable(pa), Children(pa, in.old)[e].util.max > -Unit
  PROVE  Partial(in, Children(pa, in.old)[e], agents)
<1> DEFINE a == Min(Unassigned(pa))
           f == [pa.asg EXCEPT ![a] = e]
           x == [pa EXCEPT !.asg = f]
           y == Evaluate(x, in.old)
<1>1. Unassigned(pa) # {} /\ e \in Tasks(pa.plan)
  BY DEF Expandable, Children
<1>2. Children(pa, in.old)[e] = y
  BY <1>1 DEF Children
<1>3. Shaped(pa, agents) /\ KeepsSeed(in, pa, agents)
  BY DEF Partial
<1>4. a \in agents /\ pa.asg[a] = 0
  <2>1. Unassigned(pa) \in SUBSET Nat
    BY <1>3 DEF Unassigned, Shaped, Crew, Assumptions, AgentsAssumption
  <2>2. \E n \in Unassigned(pa) : \A m \in Unassigned(pa) : n <= m
    BY <1>1, <2>1, LeastNatural
  <2>3. a \in Unassigned(pa)
    BY <2>2 DEF Min
  <2>4. QED
    BY <1>3, <2>3 DEF Unassigned, Shaped
<1> HIDE DEF a
<1>5. x = [plan |-> pa.plan, asg |-> f, util |-> pa.util]
  BY <1>3 DEF Shaped
<1>6. f \in [agents -> {0} \cup Tasks(pa.plan)] /\ \A b \in agents : b # a => f[b] = pa.asg[b]
  BY <1>1, <1>3 DEF Shaped
<1> HIDE DEF f
<1>7. Shaped(x, agents) /\ x.plan = pa.plan /\ x.asg = f
  BY <1>3, <1>5, <1>6 DEF Shaped
<1> HIDE DEF x
<1>8. Shaped(y, agents) /\ y.plan = pa.plan /\ y.asg = f /\ y.util = Utility(x, in.old)
  BY <1>7, Evaluated
<1>9. y.util.max > -Unit
  BY <1>2
<1> HIDE DEF y
<1>10. IsValid(x)
  <2>1. ~ IsValid(x) => Utility(x, in.old) = [min |-> -Unit, max |-> -Unit]
    BY DEF Utility
  <2>2. CASE ~ IsValid(x)
    <3>1. y.util.max = -Unit /\ -Unit \in Int
      BY <1>8, <2>1, <2>2 DEF Unit
    <3>2. QED
      BY <1>9, <3>1
  <2>3. QED
    BY <2>2
<1>11. NotOverfull(in, y)
  <2>1. \A d \in Tasks(x.plan) : Room(x, d).max >= 0
    BY <1>10 DEF IsValid
  <2>2. \A d \in Tasks(x.plan) : Count(in, x, d) <= EntryPoints[x.plan][d].max
    BY <1>7, <2>1, RoomIsCount
  <2>3. \A d : Count(in, y, d) = Count(in, x, d)
    BY <1>7, <1>8 DEF Count, Working
  <2>4. QED
    BY <1>7, <1>8, <2>2, <2>3 DEF NotOverfull
<1>12. KeepsSeed(in, y, agents)
  <2> SUFFICES ASSUME NEW b \in agents PROVE SeedTasks(in, pa.plan, agents)[b] \in {0, f[b]}
    BY <1>8 DEF KeepsSeed
  <2>1. SeedTasks(in, pa.plan, agents)[b] \in {0, pa.asg[b]}
    BY <1>3 DEF KeepsSeed
  <2>2. QED
    BY <1>4, <1>6, <2>1
<1>13. QED
  BY <1>2, <1>8, <1>11, <1>12 DEF Partial

-------------------------------------------------------------------------------
(* The nested calls *)

PartialSeq(i, s, agents) == \E S : s \in Seq(S) /\ \A x \in S : Partial(i, x, agents)

\* A running plan, and those of the state its task begins in.
Made(i, rp, agents) ==
  /\ Whole(i, rp.pa, agents)
  /\ \A c \in DOMAIN rp.children : Whole(i, rp.children[c].pa, Working(rp.pa, rp.pa.asg[Me]))

MadeSeq(i, s, agents) == \E S : s \in Seq(S) /\ \A x \in S : Made(i, x, agents)

FrameShape(f) ==
  f = [todo |-> f.todo, agents |-> f.agents, plans |-> f.plans, fringe |-> f.fringe,
       goals |-> f.goals, given |-> f.given, candidate |-> f.candidate, rps |-> f.rps]

GoodFrame(i, f) ==
  /\ FrameShape(f) /\ Crew(f.agents) /\ f.todo \in Seq(Seq(Plans))
  /\ PartialSeq(i, f.fringe, f.agents) /\ MadeSeq(i, f.rps, f.agents)
  /\ f.plans # {} => f.todo # << >>
  /\ f.candidate # NoPA => f.todo # << >> /\ Whole(i, f.candidate, f.agents)

\* f calls g for the agents that share the robot's task.
Calls(f, g) == f.candidate # NoPA /\ g.agents = Working(f.candidate, f.candidate.asg[Me])

IsSeq(s) == \E S : s \in Seq(S)

GoodStack(i, st) ==
  /\ IsSeq(st)
  /\ \A k \in 1..Len(st) : GoodFrame(i, st[k])
  /\ \A k \in 1..(Len(st) - 1) : Calls(st[k], st[k + 1])
  /\ Len(st) > 0 => st[1].agents = Agents

\* A better assignment of a running plan is looked for without descending.
OneSearch(st) == Len(st) <= 1 /\ (Len(st) = 1 => st[1].todo # << >>)

SelectorInv ==
  /\ in \in Inputs /\ GoodStack(in, stack) /\ MadeSeq(in, result, Agents)
  /\ poolSize \in Nat /\ used \in Nat /\ used < poolSize
  /\ outcome \in {"none", "exhausted"} \cup Answer
  /\ in.old # NoOld => OneSearch(stack) /\ outcome # "created"

\* The call on top goes on.
LEMMA TopReplaced ==
  ASSUME NEW i, NEW st, GoodStack(i, st), Len(st) > 0, NEW f, GoodFrame(i, f),
         f.agents = st[Len(st)].agents
  PROVE  /\ GoodStack(i, [st EXCEPT ![Len(st)] = f])
         /\ OneSearch(st) /\ f.todo # << >> => OneSearch([st EXCEPT ![Len(st)] = f])
<1> DEFINE n == Len(st)
           w == [st EXCEPT ![n] = f]
<1>1. PICK S : st \in Seq(S)
  BY DEF GoodStack, IsSeq
<1>2. n \in Nat /\ n \in 1..n
  BY <1>1
<1>3. w \in Seq(S \cup {f}) /\ Len(w) = n /\ w[n] = f /\ \A k \in 1..n : k # n => w[k] = st[k]
  BY <1>1, <1>2
<1> HIDE DEF w, n
<1>4. \A k \in 1..n : GoodFrame(i, w[k])
  BY <1>3 DEF GoodStack, n
<1>5. \A k \in 1..(n - 1) : Calls(w[k], w[k + 1])
  <2> SUFFICES ASSUME NEW k \in 1..(n - 1) PROVE Calls(w[k], w[k + 1])
    OBVIOUS
  <2>1. k \in 1..n /\ k + 1 \in 1..n /\ k # n
    BY <1>2
  <2>2. w[k] = st[k] /\ w[k + 1].agents = st[k + 1].agents
    BY <1>3, <2>1 DEF n
  <2>3. QED
    BY <2>2 DEF GoodStack, Calls, n
<1>6. w[1].agents = Agents
  <2>1. 1 \in 1..n /\ n > 0
    BY <1>2
  <2>2. w[1].agents = st[1].agents
    BY <1>3, <2>1 DEF n
  <2>3. QED
    BY <2>2 DEF GoodStack, n
<1>7. GoodStack(i, w)
  BY <1>3, <1>4, <1>5, <1>6 DEF GoodStack, IsSeq
<1>8. OneSearch(st) /\ f.todo # << >> => OneSearch(w)
  BY <1>2, <1>3 DEF OneSearch, n
<1>9. QED
  BY <1>7, <1>8 DEF w, n

\* It returns.
LEMMA TopPopped ==
  ASSUME NEW i, NEW st, GoodStack(i, st), Len(st) > 1
  PROVE  GoodStack(i, Front(st)) /\ Len(Front(st)) = Len(st) - 1
         /\ Front(st)[Len(st) - 1] = st[Len(st) - 1]
<1> DEFINE n == Len(st)
           w == Front(st)
<1>1. PICK S : st \in Seq(S)
  BY DEF GoodStack, IsSeq
<1>2. n \in Nat
  BY <1>1
<1>3. w \in Seq(S) /\ Len(w) = n - 1 /\ \A k \in 1..(n - 1) : w[k] = st[k]
  <2>1. w = SubSeq(st, 1, n - 1)
    BY DEF Front
  <2>2. \A k \in 1..(n - 1) : st[k] \in S
    BY <1>1
  <2>3. QED
    BY <1>1, <1>2, <2>1, <2>2, SubSeqProperties
<1> HIDE DEF w
<1>4. \A k \in 1..(n - 1) : GoodFrame(i, w[k])
  <2>1. \A k \in 1..(n - 1) : k \in 1..n
    BY <1>2
  <2>2. QED
    BY <1>3, <2>1 DEF GoodStack
<1>5. \A k \in 1..(n - 2) : Calls(w[k], w[k + 1])
  <2> SUFFICES ASSUME NEW k \in 1..(n - 2) PROVE Calls(w[k], w[k + 1])
    OBVIOUS
  <2>1. k \in 1..(n - 1) /\ k + 1 \in 1..(n - 1)
    BY <1>2
  <2>2. w[k] = st[k] /\ w[k + 1] = st[k + 1]
    BY <1>3, <2>1
  <2>3. QED
    BY <2>1, <2>2 DEF GoodStack
<1>6. w[1].agents = Agents
  <2>1. 1 \in 1..(n - 1) /\ n > 0
    BY <1>2
  <2>2. w[1] = st[1]
    BY <1>3, <2>1
  <2>3. QED
    BY <2>1, <2>2 DEF GoodStack
<1>7. GoodStack(i, w)
  <2>1. Len(w) = n - 1 /\ Len(w) - 1 = n - 2
    BY <1>2, <1>3
  <2>2. IsSeq(w)
    BY <1>3 DEF IsSeq
  <2> HIDE DEF n
  <2>3. QED
    BY <1>4, <1>5, <1>6, <2>1, <2>2 DEF GoodStack
<1>8. QED
  BY <1>2, <1>3, <1>7 DEF w

\* It calls another.
LEMMA TopPushed ==
  ASSUME NEW i, NEW st, GoodStack(i, st), Len(st) > 0, NEW f, GoodFrame(i, f), Calls(st[Len(st)], f)
  PROVE  GoodStack(i, Append(st, f))
<1> DEFINE n == Len(st)
           w == Append(st, f)
<1>1. PICK S : st \in Seq(S)
  BY DEF GoodStack, IsSeq
<1>2. n \in Nat
  BY <1>1
<1>3. w \in Seq(S \cup {f}) /\ Len(w) = n + 1 /\ w[n + 1] = f /\ \A k \in 1..n : w[k] = st[k]
  BY <1>1, <1>2
<1> HIDE DEF w
<1>4. \A k \in 1..(n + 1) : GoodFrame(i, w[k])
  BY <1>2, <1>3 DEF GoodStack
<1>5. \A k \in 1..n : Calls(w[k], w[k + 1])
  <2> SUFFICES ASSUME NEW k \in 1..n PROVE Calls(w[k], w[k + 1])
    OBVIOUS
  <2>1. CASE k = n
    BY <1>2, <1>3, <2>1
  <2>2. CASE k # n
    BY <1>2, <1>3, <2>2 DEF GoodStack
  <2>3. QED
    BY <2>1, <2>2
<1>6. w[1].agents = Agents
  BY <1>2, <1>3 DEF GoodStack
<1>7. QED
  BY <1>2, <1>3, <1>4, <1>5, <1>6 DEF GoodStack, IsSeq, w

\* No running plans are well made.
LEMMA NoneMade ==
  ASSUME NEW i, NEW agents
  PROVE  MadeSeq(i, << >>, agents)
<1> DEFINE S == {}
<1>1. << >> \in Seq(S) /\ \A x \in S : Made(i, x, agents)
  OBVIOUS
<1> HIDE DEF S
<1>2. QED
  BY <1>1 DEF MadeSeq

\* A call begins with groups of plans and no search.
LEMMA FrameIsGood ==
  ASSUME NEW i, NEW groups \in Seq(Seq(Plans)), NEW agents, Crew(agents)
  PROVE  GoodFrame(i, Frame(groups, agents)) /\ Frame(groups, agents).agents = agents
         /\ Frame(groups, agents).todo = groups
<1> DEFINE f == Frame(groups, agents)
<1>1. /\ FrameShape(f) /\ f.todo = groups /\ f.agents = agents /\ f.plans = {}
      /\ f.fringe = << >> /\ f.candidate = NoPA /\ f.rps = << >>
  BY DEF Frame, FrameShape
<1>2. << >> \in Seq({})
  OBVIOUS
<1>3. PartialSeq(i, << >>, agents) /\ MadeSeq(i, << >>, agents)
  <2>1. PartialSeq(i, << >>, agents)
    <3>1. \E S : << >> \in Seq(S) /\ \A x \in S : Partial(i, x, agents)
      <4> WITNESS {}
      <4> QED
        BY <1>2
    <3>2. QED
      BY <3>1 DEF PartialSeq
  <2>2. MadeSeq(i, << >>, agents)
    BY NoneMade
  <2>3. QED
    BY <2>1, <2>2
<1> HIDE DEF f
<1>4. GoodFrame(i, f)
  BY <1>1, <1>3 DEF GoodFrame
<1>5. QED
  BY <1>1, <1>4 DEF f

-------------------------------------------------------------------------------
(* The steps of the selection *)

\* The invariant of a step that leaves the pool and the result alone.
LEMMA StackKept ==
  ASSUME SelectorInv, GoodStack(in, stack'), UNCHANGED <<in, result>>,
         poolSize' \in Nat, used' \in Nat, used' < poolSize',
         outcome' \in {"none", "exhausted"} \cup Answer,
         in.old # NoOld => OneSearch(stack') /\ outcome' # "created"
  PROVE  SelectorInv'
BY DEF SelectorInv

\* The call on top, its agents and the pool.
LEMMA TopOfStack ==
  ASSUME SelectorInv, ~ Idle
  PROVE  Len(stack) \in Nat /\ Len(stack) > 0 /\ Top = stack[Len(stack)] /\ GoodFrame(in, Top)
<1>1. PICK S : stack \in Seq(S)
  BY DEF SelectorInv, GoodStack, IsSeq
<1>2. Len(stack) \in Nat /\ Len(stack) > 0
  BY <1>1 DEF Idle
<1>3. Len(stack) \in 1..Len(stack)
  BY <1>2
<1>4. QED
  BY <1>2, <1>3 DEF SelectorInv, GoodStack, Top

\* No call is going on.
LEMMA NoCalls == (\A i : GoodStack(i, << >>)) /\ OneSearch(<< >>)
<1>1. << >> \in Seq({})
  OBVIOUS
<1>2. IsSeq(<< >>)
  BY <1>1, Zenon DEF IsSeq
<1>3. QED
  BY <1>2 DEF GoodStack, OneSearch

\* A pool that ran out is replaced by a larger one.
LEMMA ExhaustedKeeps ==
  ASSUME SelectorInv, PoolExhausted
  PROVE  SelectorInv'
<1>1. poolSize' \in Nat /\ used' \in Nat /\ used' < poolSize'
  BY DEF SelectorInv, PoolExhausted, LargerPool
<1>2. stack' = << >> /\ outcome' = "exhausted" /\ UNCHANGED <<in, result>>
  BY DEF PoolExhausted
<1>3. QED
  BY <1>1, <1>2, NoCalls, StackKept

\* The call on top goes on for the same agents.
LEMMA ReplaceKeeps ==
  ASSUME SelectorInv, ~ Idle, NEW f, GoodFrame(in, f), f.agents = Top.agents,
         in.old # NoOld => f.todo # << >>,
         Replace(f), UNCHANGED <<in, poolSize, outcome, result>>,
         used' \in Nat, used' < poolSize
  PROVE  SelectorInv'
<1>1. stack' = [stack EXCEPT ![Len(stack)] = f]
  BY DEF Replace
<1>2. Len(stack) > 0 /\ f.agents = stack[Len(stack)].agents
  BY TopOfStack
<1>3. GoodStack(in, stack')
      /\ (OneSearch(stack) /\ f.todo # << >> => OneSearch(stack'))
  BY <1>1, <1>2, TopReplaced DEF SelectorInv
<1>4. QED
  BY <1>3, StackKept DEF SelectorInv

\* A plan without a running plan: the call above tries its next assignment.
LEMMA FailKeeps ==
  ASSUME SelectorInv, ~ Idle, Fail
  PROVE  SelectorInv'
<1> DEFINE n == Len(stack)
<1>1. UNCHANGED <<in, used, poolSize, curUtility, result>>
  BY DEF Fail
<1>2. used' \in Nat /\ poolSize' \in Nat /\ used' < poolSize'
  BY <1>1 DEF SelectorInv
<1>3. n \in Nat /\ n > 0
  BY TopOfStack
<1>4. CASE n = 1
  <2>1. stack' = << >> /\ outcome' = "failed"
    BY <1>4 DEF Fail
  <2>2. QED
    BY <1>1, <1>2, <2>1, NoCalls, StackKept DEF Answer
<1>5. CASE n # 1
  <2> DEFINE st == Front(stack)
             above == stack[n - 1]
             f == [above EXCEPT !.candidate = NoPA]
  <2>1. n > 1 /\ n - 1 \in 1..n
    <3> HIDE DEF n
    <3>1. QED
      BY <1>3, <1>5
  <2>2. GoodStack(in, st) /\ Len(st) = n - 1 /\ st[n - 1] = above
    BY <2>1, TopPopped DEF SelectorInv
  <2>3. GoodFrame(in, above)
    BY <2>1 DEF SelectorInv, GoodStack
  <2>4. stack' = [st EXCEPT ![n - 1].candidate = NoPA] /\ outcome' = outcome
    BY <1>5 DEF Fail
  <2>5. [st EXCEPT ![n - 1].candidate = NoPA] = [st EXCEPT ![n - 1] = f]
    BY <2>2
  <2> HIDE DEF st
  <2>6. GoodFrame(in, f) /\ f.agents = above.agents
    <3> HIDE DEF above
    <3>1. /\ FrameShape(f) /\ f.agents = above.agents /\ f.todo = above.todo
          /\ f.plans = above.plans /\ f.fringe = above.fringe /\ f.rps = above.rps
          /\ f.candidate = NoPA
      <4>1. FrameShape(above)
        BY <2>3 DEF GoodFrame
      <4>2. QED
        BY <4>1 DEF FrameShape
    <3> HIDE DEF f
    <3>2. QED
      BY <2>3, <3>1 DEF GoodFrame
  <2> HIDE DEF f, above
  <2>7. GoodStack(in, stack')
    <3>1. Len(st) > 0 /\ f.agents = st[Len(st)].agents
      BY <2>1, <2>2, <2>6
    <3>2. GoodStack(in, [st EXCEPT ![Len(st)] = f])
      BY <2>2, <2>6, <3>1, TopReplaced
    <3>3. QED
      BY <2>2, <2>4, <2>5, <3>2 DEF f
  <2>8. in.old = NoOld
    BY <2>1 DEF SelectorInv, OneSearch
  <2>9. QED
    BY <1>1, <1>2, <2>4, <2>7, <2>8, StackKept DEF SelectorInv
<1>6. QED
  BY <1>4, <1>5

\* A number of partial assignments that the pool has is taken.
LEMMA PoolLasts ==
  ASSUME SelectorInv, NEW n \in Nat, ~ Exhausts(n)
  PROVE  used + n \in Nat /\ used + n < poolSize
BY DEF SelectorInv, Exhausts

\* The selection begins with the plans of a state.
LEMMA FirstCall ==
  ASSUME Assumptions, NEW i, NEW groups \in Seq(Seq(Plans))
  PROVE  /\ GoodStack(i, <<Frame(groups, Agents)>>)
         /\ groups # << >> => OneSearch(<<Frame(groups, Agents)>>)
<1> DEFINE f == Frame(groups, Agents)
<1>1. Crew(Agents)
  BY DEF Crew, Assumptions, AgentsAssumption
<1>2. GoodFrame(i, f) /\ f.agents = Agents /\ f.todo = groups
  BY <1>1, FrameIsGood
<1> HIDE DEF f
<1>3. <<f>> \in Seq({f}) /\ Len(<<f>>) = 1 /\ <<f>>[1] = f
  OBVIOUS
<1> DEFINE st == <<f>>
<1> HIDE DEF st
<1>4. st \in Seq({f}) /\ Len(st) = 1 /\ st[1] = f
  BY <1>3 DEF st
<1>5. IsSeq(st)
  BY <1>4 DEF IsSeq
<1>6. GoodStack(i, st) /\ (groups # << >> => OneSearch(st))
  BY <1>2, <1>4, <1>5 DEF GoodStack, OneSearch
<1>7. QED
  BY <1>6 DEF st, f

\* getPlansForState (PlanSelector.cpp:82).
LEMMA GetPlansForStateKeeps ==
  ASSUME Assumptions, SelectorInv, GetPlansForState
  PROVE  SelectorInv'
<1>1. StatePlans \in Seq(Seq(Plans))
  BY DEF Assumptions, PlansAssumption
<1>2. GoodStack(in, stack') /\ in.old = NoOld
  BY <1>1, FirstCall DEF GetPlansForState
<1>3. used' \in Nat /\ poolSize' \in Nat /\ used' < poolSize'
  BY DEF GetPlansForState, SelectorInv
<1>4. QED
  BY <1>2, <1>3, StackKept DEF GetPlansForState, SelectorInv

\* getBestSimilarAssignment (PlanSelector.cpp:49) is for one group of plans.
LEMMA GetBestSimilarAssignmentKeeps ==
  ASSUME Assumptions, SelectorInv, GetBestSimilarAssignment
  PROVE  SelectorInv'
<1> DEFINE groups == <<Head(StatePlans)>>
<1>1. groups \in Seq(Seq(Plans)) /\ groups # << >>
  BY DEF Assumptions, PlansAssumption
<1>2. stack' = <<Frame(groups, Agents)>>
  BY DEF GetBestSimilarAssignment
<1> HIDE DEF groups
<1>3. GoodStack(in, stack') /\ OneSearch(stack')
  BY <1>1, <1>2, FirstCall
<1>4. used' \in Nat /\ poolSize' \in Nat /\ used' < poolSize'
  BY DEF GetBestSimilarAssignment, SelectorInv
<1>5. UNCHANGED <<in, result, outcome>> /\ outcome # "created"
  BY DEF GetBestSimilarAssignment, Answer
<1>6. QED
  BY <1>3, <1>4, <1>5, StackKept DEF SelectorInv

\* Some of the elements of a sequence are finitely many.
LEMMA IndicesCounted ==
  ASSUME NEW m \in Nat, NEW K, K \subseteq 1..m
  PROVE  Cardinality(K) \in Nat
<1>1. IsFiniteSet(1..m)
  BY FS_Interval
<1>2. IsFiniteSet(K)
  BY <1>1, FS_Subset
<1>3. QED
  BY <1>2, FS_CardinalityType

\* A search is begun in a call.
Begun(t, plans, goals, fringe) == [t EXCEPT !.plans = plans, !.goals = goals, !.fringe = fringe]

\* The call stays what it was for.
LEMMA SearchBegun ==
  ASSUME NEW i, NEW t, GoodFrame(i, t), t.todo # << >>, NEW plans, NEW goals,
         NEW fringe, PartialSeq(i, fringe, t.agents)
  PROVE  /\ GoodFrame(i, Begun(t, plans, goals, fringe))
         /\ Begun(t, plans, goals, fringe).agents = t.agents
         /\ Begun(t, plans, goals, fringe).todo = t.todo
<1> DEFINE u == [t EXCEPT !.plans = plans]
           v == [u EXCEPT !.goals = goals]
           w == [v EXCEPT !.fringe = fringe]
<1>1. Begun(t, plans, goals, fringe) = w
  BY Zenon DEF Begun
<1>2. FrameShape(t)
  BY DEF GoodFrame
<1>3. u = [todo |-> t.todo, agents |-> t.agents, plans |-> plans, fringe |-> t.fringe,
           goals |-> t.goals, given |-> t.given, candidate |-> t.candidate, rps |-> t.rps]
  BY <1>2 DEF FrameShape
<1> HIDE DEF u
<1>4. v = [todo |-> t.todo, agents |-> t.agents, plans |-> plans, fringe |-> t.fringe,
           goals |-> goals, given |-> t.given, candidate |-> t.candidate, rps |-> t.rps]
  BY <1>3
<1> HIDE DEF v
<1>5. w = [todo |-> t.todo, agents |-> t.agents, plans |-> plans, fringe |-> fringe,
           goals |-> goals, given |-> t.given, candidate |-> t.candidate, rps |-> t.rps]
  BY <1>4
<1> HIDE DEF w
<1>6. /\ FrameShape(w) /\ w.agents = t.agents /\ w.todo = t.todo /\ w.fringe = fringe
      /\ w.candidate = t.candidate /\ w.rps = t.rps
  BY <1>5 DEF FrameShape
<1>7. GoodFrame(i, w)
  BY <1>6 DEF GoodFrame
<1>8. QED
  BY <1>1, <1>6, <1>7

\* createRunningPlan (PlanSelector.cpp:94): the fringe of a new search is of seeds.
LEMMA CreateRunningPlanKeeps ==
  ASSUME Assumptions, SelectorInv, CreateRunningPlan
  PROVE  SelectorInv'
<1> DEFINE group  == Head(Top.todo)
           enough == {k \in DOMAIN group : MinCardinality(group[k])
                                             <= Cardinality(Top.agents) + SuccessesInPlan(group[k])}
           plans  == {group[k] : k \in enough}
           seeds  == [k \in DOMAIN group |-> Seed(group[k], Top.agents)]
           fringe == InsertAll(<<>>, seeds, enough)
           goals  == Goals(plans, Top.agents)
           f      == [Top EXCEPT !.plans = plans, !.goals = goals, !.fringe = fringe]
<1>1. ~ Idle /\ Top.plans = {} /\ Top.todo # << >>
  BY DEF CreateRunningPlan
<1>2. GoodFrame(in, Top)
  BY <1>1, TopOfStack
<1>3. group \in Seq(Plans) /\ Crew(Top.agents) /\ in \in Inputs
  BY <1>1, <1>2 DEF GoodFrame, SelectorInv
<1>4. \E runtime \in BOOLEAN :
         LET judged == in.old # NoOld /\ AssignmentIsValid(in.old) /\ runtime
             taken  == Cardinality(enough) + (IF judged THEN 1 ELSE 0)
         IN  IF enough = {} THEN Fail
             ELSE IF Exhausts(taken) THEN PoolExhausted
             ELSE /\ Replace(f) /\ used' = used + taken
                  /\ UNCHANGED <<in, poolSize, outcome, result>>
  BY Zenon DEF CreateRunningPlan
<1>5. PICK taken :
         /\ taken \in Nat
         /\ IF enough = {} THEN Fail
            ELSE IF Exhausts(taken) THEN PoolExhausted
            ELSE /\ Replace(f) /\ used' = used + taken
                 /\ UNCHANGED <<in, poolSize, outcome, result>>
  <2> HIDE DEF enough, f
  <2>1. PICK runtime \in BOOLEAN :
         LET judged == in.old # NoOld /\ AssignmentIsValid(in.old) /\ runtime
             taken  == Cardinality(enough) + (IF judged THEN 1 ELSE 0)
         IN  IF enough = {} THEN Fail
             ELSE IF Exhausts(taken) THEN PoolExhausted
             ELSE /\ Replace(f) /\ used' = used + taken
                  /\ UNCHANGED <<in, poolSize, outcome, result>>
    BY <1>4
  <2> DEFINE judged == in.old # NoOld /\ AssignmentIsValid(in.old) /\ runtime
             taken  == Cardinality(enough) + (IF judged THEN 1 ELSE 0)
  <2> WITNESS taken
  <2>2. Cardinality(enough) \in Nat
    <3>1. enough \subseteq 1..Len(group) /\ Len(group) \in Nat
      BY <1>3 DEF enough
    <3> HIDE DEF group
    <3>2. QED
      BY <3>1, IndicesCounted
  <2>3. taken \in Nat
    BY <2>2
  <2>4. QED
    BY <2>1, <2>3
<1>6. CASE enough = {}
  BY <1>1, <1>5, <1>6, FailKeeps
<1>7. CASE enough # {} /\ Exhausts(taken)
  BY <1>5, <1>7, ExhaustedKeeps
<1>8. CASE enough # {} /\ ~ Exhausts(taken)
  <2>1. Replace(f) /\ used' = used + taken /\ UNCHANGED <<in, poolSize, outcome, result>>
    BY <1>5, <1>8
  <2>2. PartialSeq(in, fringe, Top.agents)
    <3> DEFINE S == {seeds[k] : k \in DOMAIN group}
    <3>1. \A k \in DOMAIN group : Partial(in, seeds[k], Top.agents)
      BY <1>3, SeedIsPartial
    <3>2. seeds \in Seq(S) /\ Len(seeds) = Len(group)
      <4> HIDE DEF enough
      <4>1. DOMAIN group = 1..Len(group) /\ Len(group) \in Nat
        BY <1>3
      <4> DEFINE m == Len(group)
      <4>2. seeds \in [1..m -> S]
        BY <4>1
      <4> HIDE DEF seeds, S, group, m
      <4>3. seeds \in Seq(S) /\ Len(seeds) = m
        BY <4>1, <4>2 DEF m
      <4>4. QED
        BY <4>3 DEF m
    <3>3. DOMAIN group = 1..Len(group) /\ Len(seeds) \in Nat
      BY <1>3, <3>2
    <3>4. \A k \in 1..Len(seeds) : k \in enough => seeds[k] \in S
      BY <3>2, <3>3
    <3>5. << >> \in Seq(S)
      OBVIOUS
    <3> HIDE DEF seeds, enough
    <3>6. fringe \in Seq(S)
      BY <3>3, <3>4, <3>5, InsertAllKeeps
    <3>7. QED
      BY <3>1, <3>6 DEF PartialSeq
  <2> HIDE DEF fringe, goals, plans, enough, group, seeds
  <2>3. f = Begun(Top, plans, goals, fringe)
    BY Zenon DEF Begun
  <2> HIDE DEF f
  <2>4. GoodFrame(in, f) /\ f.agents = Top.agents /\ f.todo = Top.todo
    BY <1>1, <1>2, <2>2, <2>3, SearchBegun
  <2>5. used' \in Nat /\ used' < poolSize
    BY <1>5, <1>8, <2>1, PoolLasts
  <2>6. QED
    BY <1>1, <2>1, <2>4, <2>5, ReplaceKeeps
<1>9. QED
  BY <1>6, <1>7, <1>8

\* The last of a sequence, and the others.
LEMMA LastAndFront ==
  ASSUME NEW S, NEW s \in Seq(S), s # << >>
  PROVE  Last(s) \in S /\ Front(s) \in Seq(S)
<1> DEFINE n == Len(s)
<1>1. n \in Nat /\ n > 0 /\ n \in 1..n
  OBVIOUS
<1>2. \A k \in 1..(n - 1) : s[k] \in S
  BY <1>1
<1>3. Last(s) = s[n] /\ Front(s) = SubSeq(s, 1, n - 1)
  BY DEF Last, Front
<1>4. n - 1 \in Int /\ n - 1 <= n
  BY <1>1
<1>5. SubSeq(s, 1, n - 1) \in Seq(S)
  BY <1>2, <1>4, SubSeqProperties
<1>6. QED
  BY <1>1, <1>3, <1>5

Found(t, fringe, pa, given) == [t EXCEPT !.fringe = fringe, !.candidate = pa, !.given = given]
Grown(t, fringe) == [t EXCEPT !.fringe = fringe]

\* A goal is taken from the fringe.
LEMMA GoalFound ==
  ASSUME NEW i, NEW t, GoodFrame(i, t), t.todo # << >>, NEW fringe, PartialSeq(i, fringe, t.agents),
         NEW pa, Whole(i, pa, t.agents), NEW given
  PROVE  /\ GoodFrame(i, Found(t, fringe, pa, given))
         /\ Found(t, fringe, pa, given).agents = t.agents
         /\ Found(t, fringe, pa, given).todo = t.todo
<1> DEFINE u == [t EXCEPT !.fringe = fringe]
           v == [u EXCEPT !.candidate = pa]
           w == [v EXCEPT !.given = given]
<1>1. Found(t, fringe, pa, given) = w
  BY Zenon DEF Found
<1>2. FrameShape(t)
  BY DEF GoodFrame
<1>3. u = [todo |-> t.todo, agents |-> t.agents, plans |-> t.plans, fringe |-> fringe,
           goals |-> t.goals, given |-> t.given, candidate |-> t.candidate, rps |-> t.rps]
  BY <1>2 DEF FrameShape
<1> HIDE DEF u
<1>4. v = [todo |-> t.todo, agents |-> t.agents, plans |-> t.plans, fringe |-> fringe,
           goals |-> t.goals, given |-> t.given, candidate |-> pa, rps |-> t.rps]
  BY <1>3
<1> HIDE DEF v
<1>5. w = [todo |-> t.todo, agents |-> t.agents, plans |-> t.plans, fringe |-> fringe,
           goals |-> t.goals, given |-> given, candidate |-> pa, rps |-> t.rps]
  BY <1>4
<1> HIDE DEF w
<1>6. /\ FrameShape(w) /\ w.agents = t.agents /\ w.todo = t.todo /\ w.fringe = fringe
      /\ w.candidate = pa /\ w.rps = t.rps
  BY <1>5 DEF FrameShape
<1>7. GoodFrame(i, w)
  BY <1>6 DEF GoodFrame
<1>8. QED
  BY <1>1, <1>6, <1>7

\* The fringe grows.
LEMMA FringeGrown ==
  ASSUME NEW i, NEW t, GoodFrame(i, t), NEW fringe, PartialSeq(i, fringe, t.agents)
  PROVE  /\ GoodFrame(i, Grown(t, fringe)) /\ Grown(t, fringe).agents = t.agents
         /\ Grown(t, fringe).todo = t.todo
<1> DEFINE u == Grown(t, fringe)
<1>1. FrameShape(t)
  BY DEF GoodFrame
<1>2. u = [todo |-> t.todo, agents |-> t.agents, plans |-> t.plans, fringe |-> fringe,
           goals |-> t.goals, given |-> t.given, candidate |-> t.candidate, rps |-> t.rps]
  BY <1>1 DEF FrameShape, Grown
<1> HIDE DEF u
<1>3. /\ FrameShape(u) /\ u.agents = t.agents /\ u.todo = t.todo /\ u.plans = t.plans
      /\ u.fringe = fringe /\ u.candidate = t.candidate /\ u.rps = t.rps
  BY <1>2 DEF FrameShape
<1>4. GoodFrame(i, u)
  BY <1>3 DEF GoodFrame
<1>5. QED
  BY <1>3, <1>4 DEF u

\* One round of the search: its goals are whole, and it keeps what is partial.
LEMMA SearchKeeps ==
  ASSUME Assumptions, SelectorInv, Search
  PROVE  SelectorInv'
<1> DEFINE pa == Last(Top.fringe)
           new == Children(pa, in.old)
           K == Expandable(pa)
           n == Cardinality(K)
           given == Top.given \cup {Goal(pa)}
           front == Front(Top.fringe)
           fringe == InsertAll(front, new, {e \in K : new[e].util.max > -Unit})
<1>1. ~ Idle /\ Top.plans # {}
  BY DEF Search, Searching
<1>2. GoodFrame(in, Top)
  BY <1>1, TopOfStack
<1>3. Crew(Top.agents) /\ in \in Inputs /\ Top.todo # << >>
  BY <1>1, <1>2 DEF GoodFrame, SelectorInv
<1>4. IF Top.fringe = << >> THEN Fail
      ELSE IF IsGoal(pa)
      THEN /\ Replace(Found(Top, front, pa, given))
           /\ UNCHANGED <<in, used, poolSize, outcome, result>>
      ELSE IF Exhausts(n) THEN PoolExhausted
      ELSE /\ Replace(Grown(Top, fringe)) /\ used' = used + n
           /\ UNCHANGED <<in, poolSize, outcome, result>>
  BY Zenon DEF Search, Found, Grown
<1>5. CASE Top.fringe = << >>
  BY <1>1, <1>4, <1>5, FailKeeps
<1>6. CASE Top.fringe # << >>
  <2>1. PICK S : Top.fringe \in Seq(S) /\ \A x \in S : Partial(in, x, Top.agents)
    BY <1>2 DEF GoodFrame, PartialSeq
  <2>2. pa \in S /\ front \in Seq(S)
    BY <1>6, <2>1, LastAndFront
  <2>3. Partial(in, pa, Top.agents) /\ PartialSeq(in, front, Top.agents)
    BY <2>1, <2>2 DEF PartialSeq
  <2>4. CASE IsGoal(pa)
    <3>1. Whole(in, pa, Top.agents)
      BY <1>3, <2>3, <2>4, GoalIsWhole
    <3>2. /\ Replace(Found(Top, front, pa, given))
          /\ UNCHANGED <<in, used, poolSize, outcome, result>>
      BY <1>4, <1>6, <2>4
    <3> HIDE DEF front, pa, given
    <3> DEFINE f == Found(Top, front, pa, given)
    <3>3. GoodFrame(in, f) /\ f.agents = Top.agents /\ f.todo = Top.todo
      BY <1>2, <1>3, <2>3, <3>1, GoalFound
    <3> HIDE DEF f
    <3>4. used' \in Nat /\ used' < poolSize /\ Replace(f)
      BY <3>2 DEF SelectorInv, f
    <3>5. QED
      BY <1>1, <1>3, <3>2, <3>3, <3>4, ReplaceKeeps
  <2>5. CASE ~ IsGoal(pa) /\ Exhausts(n)
    BY <1>4, <1>6, <2>5, ExhaustedKeeps
  <2>6. CASE ~ IsGoal(pa) /\ ~ Exhausts(n)
    <3> DEFINE T == {e \in K : new[e].util.max > -Unit}
               m == Len(EntryPoints[pa.plan])
    <3>1. /\ Replace(Grown(Top, fringe)) /\ used' = used + n
          /\ UNCHANGED <<in, poolSize, outcome, result>>
      BY <1>4, <1>6, <2>6
    <3>2. m \in Nat /\ Tasks(pa.plan) = 1..m
      <4>1. pa.plan \in Plans
        BY <2>3 DEF Partial, Shaped
      <4>2. EntryPoints[pa.plan] \in Seq([min : Nat, max : Nat, sub : Seq(Seq(Plans))])
        BY <4>1 DEF Assumptions, PlansAssumption
      <4>3. QED
        BY <4>2 DEF Tasks
    <3>3. Len(new) \in Nat /\ K \subseteq 1..m
      <4>1. CASE Unassigned(pa) = {}
        <5>1. new = << >>
          BY <4>1 DEF Children
        <5>2. K = {}
          BY <5>1 DEF Expandable
        <5>3. QED
          BY <5>1, <5>2
      <4>2. CASE Unassigned(pa) # {}
        <5>1. new = [e \in 1..m |-> Evaluate([pa EXCEPT !.asg[Min(Unassigned(pa))] = e], in.old)]
          BY <3>2, <4>2, Zenon DEF Children
        <5>2. DOMAIN new = 1..m
          BY <5>1
        <5>3. K \subseteq 1..m
          BY <5>2 DEF Expandable
        <5>4. Len(new) = m
          <6> DEFINE g(e) == Evaluate([pa EXCEPT !.asg[Min(Unassigned(pa))] = e], in.old)
                     R == {g(e) : e \in 1..m}
          <6>1. new = [e \in 1..m |-> g(e)]
            BY <5>1
          <6> HIDE DEF g, new, m
          <6>2. new \in [1..m -> R]
            BY <6>1
          <6> HIDE DEF R
          <6>3. new \in Seq(R) /\ Len(new) = m
            BY <3>2, <6>2
          <6>4. QED
            BY <6>3
        <5>5. QED
          BY <3>2, <5>3, <5>4
      <4>3. QED
        BY <4>1, <4>2
    <3>4. n \in Nat
      <4> HIDE DEF K, m
      <4>1. QED
        BY <3>2, <3>3, IndicesCounted
    <3>5. \A e \in T : Partial(in, new[e], Top.agents)
      BY <1>3, <2>3, ChildIsPartial
    <3>6. PartialSeq(in, fringe, Top.agents)
      <4> DEFINE R == S \cup {new[e] : e \in T}
      <4> HIDE DEF new, front, T
      <4>1. front \in Seq(R)
        BY <2>2
      <4>2. \A k \in 1..Len(new) : k \in T => new[k] \in R
        OBVIOUS
      <4>3. \A x \in R : Partial(in, x, Top.agents)
        BY <2>1, <3>5
      <4> HIDE DEF R
      <4>4. InsertAll(front, new, T) \in Seq(R)
        BY <3>3, <4>1, <4>2, InsertAllKeeps
      <4>5. QED
        BY <4>3, <4>4 DEF PartialSeq, T
    <3> HIDE DEF fringe, n
    <3> DEFINE f == Grown(Top, fringe)
    <3>7. GoodFrame(in, f) /\ f.agents = Top.agents /\ f.todo = Top.todo
      BY <1>2, <3>6, FringeGrown
    <3>8. used' \in Nat /\ used' < poolSize /\ Replace(f)
      BY <2>6, <3>1, <3>4, PoolLasts
    <3> HIDE DEF f
    <3>9. QED
      BY <1>1, <1>3, <3>1, <3>7, <3>8, ReplaceKeeps
  <2>7. QED
    BY <2>4, <2>5, <2>6
<1>7. QED
  BY <1>5, <1>6

\* A candidate that is thrown away.
LEMMA RejectKeeps ==
  ASSUME SelectorInv, Reject
  PROVE  SelectorInv'
<1> DEFINE f == [Top EXCEPT !.candidate = NoPA]
<1>1. ~ Idle /\ Top.candidate # NoPA
  BY DEF Reject
<1>2. GoodFrame(in, Top)
  BY <1>1, TopOfStack
<1>3. Replace(f) /\ UNCHANGED <<in, used, poolSize, outcome, result>>
  BY Zenon DEF Reject
<1>4. /\ FrameShape(f) /\ f.agents = Top.agents /\ f.todo = Top.todo /\ f.plans = Top.plans
      /\ f.fringe = Top.fringe /\ f.rps = Top.rps /\ f.candidate = NoPA
  <2> DEFINE t == Top
  <2>1. FrameShape(t)
    BY <1>2 DEF GoodFrame
  <2> HIDE DEF t
  <2> DEFINE g == [t EXCEPT !.candidate = NoPA]
  <2>2. g = [todo |-> t.todo, agents |-> t.agents, plans |-> t.plans, fringe |-> t.fringe,
             goals |-> t.goals, given |-> t.given, candidate |-> NoPA, rps |-> t.rps]
    BY <2>1 DEF FrameShape
  <2> HIDE DEF g
  <2>3. /\ FrameShape(g) /\ g.agents = t.agents /\ g.todo = t.todo /\ g.plans = t.plans
        /\ g.fringe = t.fringe /\ g.rps = t.rps /\ g.candidate = NoPA
    BY <2>2 DEF FrameShape
  <2>4. QED
    BY <2>3 DEF g, t
<1> HIDE DEF f
<1>5. GoodFrame(in, f) /\ f.todo # << >>
  BY <1>1, <1>2, <1>4 DEF GoodFrame
<1>6. used' \in Nat /\ used' < poolSize
  BY <1>3 DEF SelectorInv
<1>7. QED
  BY <1>1, <1>3, <1>4, <1>5, <1>6, ReplaceKeeps

\* The task of a whole assignment, the states' plans it begins with and its agents.
LEMMA TaskOfRobot ==
  ASSUME Assumptions, NEW i, NEW agents, Crew(agents), NEW pa, Whole(i, pa, agents)
  PROVE  /\ EntryPoints[pa.plan][pa.asg[Me]].sub \in Seq(Seq(Plans))
         /\ Crew(Working(pa, pa.asg[Me])) /\ pa # NoPA
<1> DEFINE e == pa.asg[Me]
           X == [min : Nat, max : Nat, sub : Seq(Seq(Plans))]
<1>1. /\ pa.plan \in Plans /\ pa.asg \in [agents -> {0} \cup Tasks(pa.plan)] /\ Me \in agents
      /\ Unassigned(pa) = {}
  BY DEF Whole, Shaped, Crew
<1>2. e # 0
  BY <1>1 DEF Unassigned
<1>3. e \in Tasks(pa.plan)
  BY <1>1, <1>2
<1>4. EntryPoints[pa.plan] \in Seq(X)
  BY <1>1 DEF Assumptions, PlansAssumption
<1>5. \A x \in X : x.sub \in Seq(Seq(Plans))
  OBVIOUS
<1> HIDE DEF X
<1>6. EntryPoints[pa.plan][e] \in X
  BY <1>3, <1>4 DEF Tasks
<1>7. Crew(Working(pa, e))
  BY <1>1 DEF Crew, Working
<1>8. pa # NoPA
  <2>1. DOMAIN pa = {"plan", "asg", "util"}
    BY DEF Whole, Shaped
  <2>2. DOMAIN NoPA = {"plan"}
    BY DEF NoPA
  <2>3. QED
    BY <2>1, <2>2
<1>9. QED
  BY <1>5, <1>6, <1>7, <1>8

\* The call for the state that the robot's task begins in is for the agents of the task.
LEMMA DescendKeeps ==
  ASSUME Assumptions, SelectorInv, Descend
  PROVE  SelectorInv'
<1> DEFINE pa == Top.candidate
           e == pa.asg[Me]
           f == Frame(EntryPoints[pa.plan][e].sub, Working(pa, e))
<1>1. ~ Idle /\ pa # NoPA /\ in.old = NoOld
  BY DEF Descend
<1>2. stack' = Append(stack, f) /\ UNCHANGED <<in, used, poolSize, outcome, result>>
  BY DEF Descend
<1>3. GoodFrame(in, Top) /\ Len(stack) > 0 /\ Top = stack[Len(stack)]
  BY <1>1, TopOfStack
<1>4. Whole(in, pa, Top.agents) /\ Crew(Top.agents)
  BY <1>1, <1>3 DEF GoodFrame
<1>5. EntryPoints[pa.plan][e].sub \in Seq(Seq(Plans)) /\ Crew(Working(pa, e))
  BY <1>4, TaskOfRobot
<1>6. GoodFrame(in, f) /\ f.agents = Working(pa, e)
  BY <1>5, FrameIsGood
<1> HIDE DEF f
<1>7. Calls(Top, f)
  BY <1>1, <1>6 DEF Calls
<1>8. GoodStack(in, stack')
  BY <1>2, <1>3, <1>6, <1>7, TopPushed DEF SelectorInv
<1>9. used' \in Nat /\ poolSize' \in Nat /\ used' < poolSize'
  BY <1>2 DEF SelectorInv
<1>10. QED
  BY <1>1, <1>2, <1>8, <1>9, StackKept DEF SelectorInv

\* A call of the next plans of a state, with the running plans there are.
Continued(groups, agents, rps) == [Frame(groups, agents) EXCEPT !.rps = rps]

\* Such a call is good when its running plans are.
LEMMA ContinuedIsGood ==
  ASSUME NEW i, NEW groups \in Seq(Seq(Plans)), NEW agents, Crew(agents),
         NEW rps, MadeSeq(i, rps, agents)
  PROVE  /\ GoodFrame(i, Continued(groups, agents, rps))
         /\ Continued(groups, agents, rps).agents = agents
<1> DEFINE t == Frame(groups, agents)
           f == [t EXCEPT !.rps = rps]
<1>1. Continued(groups, agents, rps) = f
  BY Zenon DEF Continued
<1>2. GoodFrame(i, t) /\ t.agents = agents /\ t.todo = groups
  BY FrameIsGood
<1>3. FrameShape(t)
  BY <1>2 DEF GoodFrame
<1>4. t.plans = {} /\ t.candidate = NoPA
  BY DEF Frame
<1> HIDE DEF t
<1>5. f = [todo |-> t.todo, agents |-> t.agents, plans |-> t.plans, fringe |-> t.fringe,
           goals |-> t.goals, given |-> t.given, candidate |-> t.candidate, rps |-> rps]
  BY <1>3 DEF FrameShape
<1> HIDE DEF f
<1>6. /\ FrameShape(f) /\ f.agents = t.agents /\ f.todo = t.todo /\ f.plans = t.plans
      /\ f.fringe = t.fringe /\ f.candidate = t.candidate /\ f.rps = rps
  BY <1>5 DEF FrameShape
<1>7. GoodFrame(i, f)
  BY <1>2, <1>4, <1>6 DEF GoodFrame
<1>8. QED
  BY <1>1, <1>2, <1>6, <1>7

\* The running plans of the states below a candidate complete it.
LEMMA RunningPlanMade ==
  ASSUME NEW i, NEW agents, NEW pa, Whole(i, pa, agents),
         NEW rps, MadeSeq(i, rps, Working(pa, pa.asg[Me]))
  PROVE  Made(i, [pa |-> pa, children |-> rps], agents)
<1>1. PICK S : rps \in Seq(S) /\ \A x \in S : Made(i, x, Working(pa, pa.asg[Me]))
  BY DEF MadeSeq
<1>2. \A c \in DOMAIN rps : rps[c] \in S
  BY <1>1
<1>3. \A c \in DOMAIN rps : Whole(i, rps[c].pa, Working(pa, pa.asg[Me]))
  BY <1>1, <1>2 DEF Made
<1>4. QED
  BY <1>3 DEF Made

\* One running plan more.
LEMMA MadeAppended ==
  ASSUME NEW i, NEW agents, NEW rps, MadeSeq(i, rps, agents), NEW rp, Made(i, rp, agents)
  PROVE  MadeSeq(i, Append(rps, rp), agents)
<1>1. PICK S : rps \in Seq(S) /\ \A x \in S : Made(i, x, agents)
  BY DEF MadeSeq
<1> DEFINE T == S \cup {rp}
<1>2. Append(rps, rp) \in Seq(T)
  BY <1>1
<1>3. \A x \in T : Made(i, x, agents)
  BY <1>1
<1> HIDE DEF T
<1>4. QED
  BY <1>2, <1>3 DEF MadeSeq

\* What a call returns completes the candidate of the call above, or is the answer.
LEMMA ReturnKeeps ==
  ASSUME Assumptions, SelectorInv, Return
  PROVE  SelectorInv'
<1> DEFINE n == Len(stack)
<1>1. ~ Idle /\ Top.todo = << >> /\ UNCHANGED <<in, used, poolSize>>
  BY DEF Return
<1>2. n \in Nat /\ n > 0 /\ Top = stack[n] /\ GoodFrame(in, Top)
  BY <1>1, TopOfStack
<1>3. in.old = NoOld
  <2>1. n <= 1 => n = 1
    <3> HIDE DEF n
    <3>1. QED
      BY <1>2
  <2>2. n = 1 => stack[1].todo = << >>
    BY <1>1, <1>2
  <2>3. ~ OneSearch(stack)
    BY <2>1, <2>2 DEF OneSearch
  <2>4. QED
    BY <2>3 DEF SelectorInv
<1>4. used' \in Nat /\ poolSize' \in Nat /\ used' < poolSize'
  BY <1>1 DEF SelectorInv
<1>5. MadeSeq(in, Top.rps, Top.agents)
  BY <1>2 DEF GoodFrame
<1>6. CASE n = 1
  <2>1. stack' = << >> /\ result' = Top.rps /\ outcome' = "created"
    BY <1>6 DEF Return
  <2>2. Top.agents = Agents
    BY <1>2, <1>6 DEF SelectorInv, GoodStack
  <2>3. MadeSeq(in', result', Agents)
    BY <1>1, <1>5, <2>1, <2>2
  <2>4. GoodStack(in', stack')
    BY <2>1, NoCalls
  <2>5. QED
    BY <1>1, <1>3, <1>4, <2>1, <2>3, <2>4 DEF SelectorInv, Answer
<1>7. CASE n # 1
  <2> DEFINE above == stack[n - 1]
             rp == [pa |-> above.candidate, children |-> Top.rps]
             groups == Tail(above.todo)
             rps == Append(above.rps, rp)
             f == Continued(groups, above.agents, rps)
             st == Front(stack)
  <2>1. n > 1 /\ n - 1 \in 1..n /\ n - 1 \in 1..(n - 1)
    <3> HIDE DEF n
    <3>1. QED
      BY <1>2, <1>7
  <2>2. GoodFrame(in, above) /\ Calls(above, Top)
    <3>1. (n - 1) + 1 = n
      BY <1>2
    <3>2. GoodFrame(in, above)
      BY <2>1 DEF SelectorInv, GoodStack
    <3>3. Calls(stack[n - 1], stack[(n - 1) + 1])
      BY <2>1 DEF SelectorInv, GoodStack
    <3>4. QED
      BY <1>2, <3>1, <3>2, <3>3
  <2>3. GoodStack(in, st) /\ Len(st) = n - 1 /\ st[n - 1] = above
    BY <2>1, TopPopped DEF SelectorInv
  <2>4. stack' = [st EXCEPT ![n - 1] = f] /\ UNCHANGED <<result, outcome>>
    BY <1>7, Zenon DEF Return, Continued
  <2> HIDE DEF above, st, n
  <2>5. above.candidate # NoPA /\ Top.agents = Working(above.candidate, above.candidate.asg[Me])
    BY <2>2 DEF Calls
  <2>6. above.todo # << >> /\ Whole(in, above.candidate, above.agents)
    BY <2>2, <2>5 DEF GoodFrame
  <2>7. Made(in, rp, above.agents)
    BY <1>5, <2>5, <2>6, RunningPlanMade
  <2> HIDE DEF rp
  <2>8. MadeSeq(in, rps, above.agents)
    BY <2>2, <2>7, MadeAppended DEF GoodFrame
  <2>9. groups \in Seq(Seq(Plans)) /\ Crew(above.agents)
    BY <2>2, <2>6 DEF GoodFrame
  <2> HIDE DEF groups, rps
  <2>10. GoodFrame(in, f) /\ f.agents = above.agents
    BY <2>8, <2>9, ContinuedIsGood
  <2> HIDE DEF f
  <2>11. GoodStack(in, stack')
    <3>1. Len(st) > 0 /\ f.agents = st[Len(st)].agents
      BY <1>2, <2>1, <2>3, <2>10
    <3>2. GoodStack(in, [st EXCEPT ![Len(st)] = f])
      BY <2>3, <2>10, <3>1, TopReplaced
    <3>3. QED
      BY <2>3, <2>4, <3>2
  <2>12. QED
    BY <1>1, <1>3, <1>4, <2>4, <2>11, StackKept DEF SelectorInv
<1>8. QED
  BY <1>6, <1>7

\* A better assignment of a running plan is for the whole team.
LEMMA CompareKeeps ==
  ASSUME Assumptions, SelectorInv, Compare
  PROVE  SelectorInv'
<1> DEFINE rp == [pa |-> Top.candidate, children |-> << >>]
<1>1. /\ ~ Idle /\ Top.candidate # NoPA /\ in.old # NoOld
      /\ stack' = << >> /\ UNCHANGED <<in, used, poolSize>>
  BY DEF Compare
<1>2. outcome' \in {"better", "kept"} /\ result' = <<rp>>
  BY DEF Compare
<1>3. GoodFrame(in, Top) /\ Top = stack[Len(stack)] /\ Len(stack) > 0 /\ Len(stack) \in Nat
  BY <1>1, TopOfStack
<1>4. Top.agents = Agents
  <2>1. Len(stack) = 1
    <3> DEFINE n == Len(stack)
    <3>1. n <= 1 /\ n > 0 /\ n \in Nat
      BY <1>1, <1>3 DEF SelectorInv, OneSearch
    <3> HIDE DEF n
    <3>2. n = 1
      BY <3>1
    <3>3. QED
      BY <3>2 DEF n
  <2>2. QED
    BY <1>3, <2>1 DEF SelectorInv, GoodStack
<1>5. Whole(in, Top.candidate, Agents)
  BY <1>1, <1>3, <1>4 DEF GoodFrame
<1>6. Made(in, rp, Agents)
  BY <1>5 DEF Made
<1> HIDE DEF rp
<1>7. MadeSeq(in, <<rp>>, Agents)
  <2>1. <<rp>> \in Seq({rp})
    OBVIOUS
  <2> DEFINE s == <<rp>>
             S == {rp}
  <2>2. s \in Seq(S) /\ \A x \in S : Made(in, x, Agents)
    BY <1>6, <2>1
  <2> HIDE DEF s, S
  <2>3. MadeSeq(in, s, Agents)
    BY <2>2 DEF MadeSeq
  <2>4. QED
    BY <2>3 DEF s
<1>8. MadeSeq(in', result', Agents)
  BY <1>1, <1>2, <1>7
<1>9. GoodStack(in', stack') /\ OneSearch(stack')
  BY <1>1, NoCalls
<1>10. QED
  BY <1>1, <1>2, <1>8, <1>9 DEF SelectorInv, Answer

\* What does not change the state of the selection.
LEMMA RestKeeps ==
  ASSUME SelectorInv, UNCHANGED vars
  PROVE  SelectorInv'
BY Zenon DEF SelectorInv, vars

-------------------------------------------------------------------------------
(* The theorems *)

\* The invariant holds.
LEMMA SelectorInvHolds ==
  ASSUME Assumptions
  PROVE  Spec => []SelectorInv
<1>1. Init => SelectorInv
  <2> SUFFICES ASSUME Init PROVE SelectorInv
    OBVIOUS
  <2>1. GoodStack(in, stack) /\ OneSearch(stack)
    BY NoCalls DEF Init
  <2>2. MadeSeq(in, << >>, Agents)
    BY NoneMade
  <2>3. poolSize \in Nat /\ used \in Nat /\ used < poolSize
    BY DEF Init, Assumptions, PoolAssumption
  <2>4. QED
    BY <2>1, <2>2, <2>3 DEF Init, SelectorInv
<1>2. SelectorInv /\ [Next]_vars => SelectorInv'
  <2> SUFFICES ASSUME SelectorInv, [Next]_vars PROVE SelectorInv'
    OBVIOUS
  <2>1. CASE GetPlansForState
    BY <2>1, GetPlansForStateKeeps
  <2>2. CASE GetBestSimilarAssignment
    BY <2>2, GetBestSimilarAssignmentKeeps
  <2>3. CASE CreateRunningPlan
    BY <2>3, CreateRunningPlanKeeps
  <2>4. CASE Search
    BY <2>4, SearchKeeps
  <2>5. CASE Reject
    BY <2>5, RejectKeeps
  <2>6. CASE Descend
    BY <2>6, DescendKeeps
  <2>7. CASE Return
    BY <2>7, ReturnKeeps
  <2>8. CASE Compare
    BY <2>8, CompareKeeps
  <2>9. CASE Rest \/ UNCHANGED vars
    BY <2>9, RestKeeps DEF Rest
  <2>10. QED
    BY <2>1, <2>2, <2>3, <2>4, <2>5, <2>6, <2>7, <2>8, <2>9 DEF Next
<1>3. QED
  BY <1>1, <1>2, PTL DEF Spec

\* It says that what is answered is filled.
LEMMA InvFills ==
  ASSUME Assumptions, SelectorInv
  PROVE  PoolFillsPlans
<1>1. TypeOK
  <2>1. ASSUME NEW j \in DOMAIN stack, NEW k \in DOMAIN stack[j].fringe
        PROVE  DOMAIN stack[j].fringe[k].asg = stack[j].agents
    <3>1. j \in 1..Len(stack)
      BY DEF SelectorInv, GoodStack, IsSeq
    <3>2. GoodFrame(in, stack[j])
      BY <3>1 DEF SelectorInv, GoodStack
    <3>3. PICK S : stack[j].fringe \in Seq(S) /\ \A x \in S : Partial(in, x, stack[j].agents)
      BY <3>2 DEF GoodFrame, PartialSeq
    <3>4. stack[j].fringe[k] \in S
      BY <3>3
    <3>5. Shaped(stack[j].fringe[k], stack[j].agents)
      BY <3>3, <3>4 DEF Partial
    <3>6. QED
      BY <3>5 DEF Shaped
  <2>2. QED
    BY <2>1 DEF TypeOK, SelectorInv
<1>2. ResultIsFilled
  <2>1. PICK S : result \in Seq(S) /\ \A x \in S : Made(in, x, Agents)
    BY DEF SelectorInv, MadeSeq
  <2>2. ASSUME NEW k \in DOMAIN result
        PROVE  Made(in, result[k], Agents)
    BY <2>1
  <2>3. Crew(Agents) /\ in \in Inputs
    BY DEF Crew, Assumptions, AgentsAssumption, SelectorInv
  <2>4. ASSUME NEW k \in DOMAIN result
        PROVE  Filled(result[k], Agents)
    BY <2>2, <2>3, WholeIsFilled DEF Made, Filled
  <2>5. ASSUME NEW k \in DOMAIN result, NEW c \in DOMAIN result[k].children
        PROVE  Filled(result[k].children[c], Working(result[k].pa, result[k].pa.asg[Me]))
    <3> DEFINE pa == result[k].pa
               crew == Working(pa, pa.asg[Me])
               below == result[k].children[c]
    <3>1. Whole(in, pa, Agents) /\ Whole(in, below.pa, crew)
      BY <2>2 DEF Made
    <3> HIDE DEF pa, below
    <3>2. Crew(crew)
      BY <2>3, <3>1, TaskOfRobot
    <3> HIDE DEF crew
    <3>3. Filled(below, crew)
      BY <2>3, <3>1, <3>2, WholeIsFilled DEF Filled
    <3>4. QED
      BY <3>3 DEF pa, below, crew
  <2>6. QED
    BY <2>4, <2>5 DEF ResultIsFilled
<1>3. QED
  BY <1>1, <1>2 DEF PoolFillsPlans

\* And that agents whose task is not overfull by reports have it still.
LEMMA InvKeepsOthers ==
  ASSUME Assumptions, SelectorInv
  PROVE  OthersKeepTheirTask
<1> SUFFICES ASSUME outcome = "created", NEW k \in DOMAIN result,
                    \A e \in Tasks(result[k].pa.plan) :
                      Cardinality({b \in Others : in.trees[result[k].pa.plan][b] = e})
                        + Cardinality(in.done[result[k].pa.plan][e])
                      <= EntryPoints[result[k].pa.plan][e].max,
                    NEW a \in Others
             PROVE  in.trees[result[k].pa.plan][a] \in {0, result[k].pa.asg[a]}
  BY DEF OthersKeepTheirTask
<1> DEFINE pa == result[k].pa
           p == pa.plan
           e == in.trees[p][a]
           reporting == {b \in Others : in.trees[p][b] = e}
           before == {b \in Agents \cap Others : b < a /\ in.trees[p][b] = e}
<1>1. in.old = NoOld /\ in \in Inputs
  BY DEF SelectorInv
<1>2. Whole(in, pa, Agents)
  <2>1. PICK S : result \in Seq(S) /\ \A x \in S : Made(in, x, Agents)
    BY DEF SelectorInv, MadeSeq
  <2>2. QED
    BY <2>1 DEF Made
<1>3. Crew(Agents) /\ Shaped(pa, Agents) /\ p \in Plans /\ a \in Agents
  BY <1>2 DEF Crew, Assumptions, AgentsAssumption, Whole, Shaped, Others
<1>4. CASE e = 0
  BY <1>4
<1>5. CASE e # 0
  <2>1. e \in Tasks(p)
    BY <1>1, <1>3, <1>5 DEF Assumptions, InputAssumption, Tasks
  <2>2. Cardinality(reporting) + Cardinality(in.done[p][e]) <= EntryPoints[p][e].max
    BY <2>1
  <2>3. IsFiniteSet(reporting) /\ IsFiniteSet(in.done[p][e])
    <3>1. reporting \subseteq Agents /\ in.done[p][e] \subseteq Agents /\ IsFiniteSet(Agents)
      BY <1>1, <1>3, <2>1
      DEF Others, Assumptions, InputAssumption, AgentsAssumption, Tasks
    <3> HIDE DEF reporting
    <3>2. QED
      BY <3>1, FS_Subset
  <2>4. before \subseteq reporting /\ a \in reporting /\ a \notin before
    <3>1. a \in Nat /\ ~ (a < a)
      BY <1>3 DEF Assumptions, AgentsAssumption
    <3> HIDE DEF e
    <3>2. before \subseteq reporting /\ a \notin before
      BY <3>1
    <3>3. a \in reporting
      BY DEF e
    <3>4. QED
      BY <3>2, <3>3
  <2>5. EntryPoints[p][e].max \in Nat
    BY <1>1, <1>3, <2>1, RoomIsCount
  <2> HIDE DEF reporting
  <2>6. /\ Cardinality(reporting) \in Nat /\ Cardinality(in.done[p][e]) \in Nat
        /\ Cardinality(before) \in Nat /\ Cardinality(before) < Cardinality(reporting)
    <3> HIDE DEF before
    <3>1. IsFiniteSet(before) /\ Cardinality(before) <= Cardinality(reporting)
          /\ Cardinality(before) # Cardinality(reporting)
      BY <2>3, <2>4, FS_Subset
    <3>2. /\ Cardinality(reporting) \in Nat /\ Cardinality(in.done[p][e]) \in Nat
          /\ Cardinality(before) \in Nat
      BY <2>3, <3>1, FS_CardinalityType
    <3> DEFINE m == Cardinality(before)
               r == Cardinality(reporting)
    <3>3. m <= r /\ m # r /\ m \in Nat /\ r \in Nat
      BY <3>1, <3>2
    <3> HIDE DEF m, r
    <3>4. m < r
      BY <3>3
    <3>5. QED
      BY <3>2, <3>4 DEF m, r
  <2>7. EntryPoints[p][e].max - Cardinality(in.done[p][e]) > Cardinality(before)
    <3> HIDE DEF before, e
    <3>1. QED
      BY <2>2, <2>5, <2>6
  <2>8. SeedTasks(in, p, Agents)[a] = e
    BY <1>1, <1>3, <1>5, <2>7 DEF SeedTasks
  <2>9. QED
    BY <1>2, <1>3, <2>8 DEF Whole, KeepsSeed
<1>6. QED
  BY <1>4, <1>5

\* However the pool is used up by nested searches and started afresh, every
\* running plan that selection answers with is filled: what the search takes for a
\* goal is valid by the counts of Assignment::isValid, for the very agents that
\* share the robot's task above.
THEOREM SelectionsAreFilled == Spec => []PoolFillsPlans
<1>1. Assumptions
  BY AgentsAssumption, PlansAssumption, PoolAssumption, InputAssumption DEF Assumptions
<1>2. Spec => []SelectorInv
  BY <1>1, SelectorInvHolds
<1>3. SelectorInv => PoolFillsPlans
  BY <1>1, InvFills
<1>4. QED
  BY <1>2, <1>3, PTL

\* A robot that plans afresh leaves every other agent in the task it reports, when
\* those that report the task do not overfill it.
THEOREM OthersStay == Spec => []OthersKeepTheirTask
<1>1. Assumptions
  BY AgentsAssumption, PlansAssumption, PoolAssumption, InputAssumption DEF Assumptions
<1>2. Spec => []SelectorInv
  BY <1>1, SelectorInvHolds
<1>3. SelectorInv => OthersKeepTheirTask
  BY <1>1, InvKeepsOthers
<1>4. QED
  BY <1>2, <1>3, PTL
===============================================================================
