------------------------------ MODULE PlanSelector ------------------------------
(* How a robot chooses who does what in the plans of a state: the best-first    *)
(* search of TaskAssignmentProblem over partial assignments, its utilities, the *)
(* pool the partial assignments come from, and the recursion of PlanSelector    *)
(* into the plans of the states that the tasks begin in.                        *)
EXTENDS Integers, Sequences, FiniteSets, SequencesExt

CONSTANTS
  Agents, Me,        \* the active team, as numbers: agents are sorted by id
  Plans,             \* plan ids
  EntryPoints,       \* plan -> sequence of [min, max, sub]; sub: the initial state's plans
  StatePlans,        \* the plans of the state to fill: a sequence of groups, a
                     \* plan being a group of one and a plan type a longer one
  Inputs,            \* what the world and the team look like, see Input below
  SimilarityWeight,  \* of the utility functions; the priority weight is 1
  PoolSize           \* the initial size of the pool (10100 in the code)

ASSUME AgentsAssumption == Agents \subseteq Nat /\ IsFiniteSet(Agents) /\ Me \in Agents
ASSUME PlansAssumption ==
  /\ EntryPoints \in [Plans -> Seq([min : Nat, max : Nat, sub : Seq(Seq(Plans))])]
  /\ StatePlans \in Seq(Seq(Plans)) /\ StatePlans # << >>
ASSUME PoolAssumption == PoolSize \in Nat \ {0}
\* Every success is an agent's, and a report names a task of the plan or none.
ASSUME InputAssumption ==
  \A i \in Inputs : \A p \in Plans :
    /\ \A e \in DOMAIN EntryPoints[p] : i.done[p][e] \subseteq Agents
    /\ i.trees[p] \in [Agents -> {0} \cup DOMAIN EntryPoints[p]]

VARIABLES
  in,                \* the member of Inputs at hand
  stack,             \* nested calls of getPlansForStateInternal
  used, poolSize,    \* PartialAssignmentPool
  curUtility,        \* o_oldUtility
  outcome, result    \* of the last selection
vars == <<in, stack, used, poolSize, curUtility, outcome, result>>

Others == Agents \ {Me}
Tasks(p) == DOMAIN EntryPoints[p]
NoOld == <<>>

\* prio: priority of the role each agent has for each task; done: agents that
\* succeeded; trees: the task (0: none) the other agents report for each plan;
\* old: the running assignment, when a better one is looked for; unknown: what
\* the utility of a partial assignment that was never evaluated compares as.
Input(prio, done, trees, old, unknown) ==
  [prio |-> prio, done |-> done, trees |-> trees, old |-> old, unknown |-> unknown]

---------------------------------------------------------------------------
(* Partial assignments *)

Unit == 72       \* utilities are multiples of 1/Unit
Far  == 1000000  \* beyond every utility

Unassigned(pa) == {a \in DOMAIN pa.asg : pa.asg[a] = 0}
Working(pa, e) == {a \in DOMAIN pa.asg : pa.asg[a] = e}

\* Mutant: successes do not count.
RoomForAll(pa, e) ==
  LET taken == Cardinality(Working(pa, e))
  IN  [min |-> EntryPoints[pa.plan][e].min - taken, max |-> EntryPoints[pa.plan][e].max - taken]

\* The cardinalities prepare() starts from, less the agents assigned since.
Room(pa, e) ==
  LET taken == Cardinality(in.done[pa.plan][e]) + Cardinality(Working(pa, e))
  IN  [min |-> EntryPoints[pa.plan][e].min - taken, max |-> EntryPoints[pa.plan][e].max - taken]

IsValid(pa) ==
  /\ \A e \in Tasks(pa.plan) : Room(pa, e).max >= 0
  /\ MapThenSumSet(LAMBDA e : Room(pa, e).min, Tasks(pa.plan)) <= Cardinality(Unassigned(pa))

IsGoal(pa) == Unassigned(pa) = {} /\ \A e \in Tasks(pa.plan) : Room(pa, e).min <= 0

MinCardinality(p) == MapThenSumSet(LAMBDA e : EntryPoints[p][e].min, Tasks(p))
MaxCardinality(p) == MapThenSumSet(LAMBDA e : EntryPoints[p][e].max, Tasks(p))

\* Mutant: a role promises no more than it must.
LowestPriority(p, a) == 0

\* The best that an agent's role promises in any task.
HighestPriority(p, a) == Max({0} \cup {in.prio[p][e][a] : e \in Tasks(p)})

PriorityResult(pa) ==
  LET p     == pa.plan
      sum(S, e) == MapThenSumSet(LAMBDA a : in.prio[p][e][a], S)
      def   == MapThenSumSet(LAMBDA e : sum(Working(pa, e), e) + sum(in.done[p][e], e), Tasks(p))
      hope  == MapThenSumSet(LAMBDA a : HighestPriority(p, a), Unassigned(pa))
      denum == Max({1, Min({MaxCardinality(p), Cardinality(Agents)})})
  IN  IF \E e \in Tasks(p) : \E a \in Working(pa, e) \cup in.done[p][e] : in.prio[p][e][a] < 0
      THEN [min |-> -Unit, max |-> -Unit]
      ELSE [min |-> (Unit * def) \div denum, max |-> (Unit * (def + hope)) \div denum]

\* The hope of an old robot to return to its task is only counted when the task
\* has another robot already (UtilityFunction.cpp:219).
Similarity(pa, old) ==
  LET now(e)   == Working(pa, e) \cup in.done[pa.plan][e]
      size(e)  == Cardinality(Working(pa, e)) + Cardinality(in.done[pa.plan][e])
      was(e)   == <<Working(old, e), in.done[old.plan][e]>>
      count(S(_)) == MapThenSumSet(LAMBDA e : Cardinality(S(e)[1]) + Cardinality(S(e)[2]), Tasks(old.plan))
      same     == count(LAMBDA e : <<was(e)[1] \cap now(e), was(e)[2] \cap now(e)>>)
      hope     == count(LAMBDA e :
                    IF now(e) # {} /\ EntryPoints[old.plan][e].max > size(e)
                    THEN <<(was(e)[1] \ now(e)) \cap Unassigned(pa), (was(e)[2] \ now(e)) \cap Unassigned(pa)>>
                    ELSE <<{}, {}>>)
      n        == Max({1, count(was)})
  IN  [min |-> (Unit * same) \div n, max |-> (Unit * (same + hope)) \div n]

Utility(pa, old) ==
  LET prio == PriorityResult(pa)
      sim  == Similarity(pa, old)
      mean(x, y) == (x + SimilarityWeight * y) \div (1 + SimilarityWeight)
  IN  IF ~ IsValid(pa) THEN [min |-> -Unit, max |-> -Unit]
      ELSE IF prio.max <= -Unit \/ old = NoOld \/ SimilarityWeight = 0 THEN prio
      ELSE [min |-> mean(prio.min, sim.min), max |-> mean(prio.max, sim.max)]

Evaluate(pa, old) == [pa EXCEPT !.util = Utility(pa, old)]

\* PartialAssignment::compare: the second test of the ids never holds.
Before(a, b) ==
  LET count(x) == Cardinality(DOMAIN x.asg \ Unassigned(x))
      D == {i \in DOMAIN a.asg : a.asg[i] # b.asg[i]}
  IN  \/ a.util.max < b.util.max
      \/ /\ a.util.max = b.util.max
         /\ a.plan >= b.plan
         /\ \/ count(a) < count(b)
            \/ /\ count(a) = count(b)
               /\ \/ a.util.min < b.util.min
                  \/ /\ a.util.min = b.util.min
                     /\ D # {} /\ a.asg[Min(D)] < b.asg[Min(D)]

\* The n elements after the first lo are left; the middle one halves them.
Halved(fringe, pa, left) ==
  LET half == left.n \div 2
  IN  IF left.n = 0 THEN left
      ELSE IF Before(pa, fringe[left.lo + half + 1]) THEN [left EXCEPT !.n = half]
      ELSE [lo |-> left.lo + half + 1, n |-> left.n - half - 1]

\* std::upper_bound over the fringe, then insert; the best is last.
Insert(fringe, pa) ==
  LET left[k \in 0..Len(fringe)] ==
        IF k = 0 THEN [lo |-> 0, n |-> Len(fringe)] ELSE Halved(fringe, pa, left[k - 1])
  IN  InsertAt(fringe, left[Len(fringe)].lo + 1, pa)

\* Those of pas whose index is in which, one by one.
InsertAll(fringe, pas, which) ==
  LET grown[k \in 0..Len(pas)] ==
        IF k = 0 THEN fringe
        ELSE IF k \in which THEN Insert(grown[k - 1], pas[k]) ELSE grown[k - 1]
  IN  grown[Len(pas)]

\* The first free agent of pa in each task, and the tasks that have room for it.
Children(pa, old) ==
  IF Unassigned(pa) = {} THEN << >>
  ELSE [e \in Tasks(pa.plan) |-> Evaluate([pa EXCEPT !.asg[Min(Unassigned(pa))] = e], old)]
Expandable(pa) == {e \in DOMAIN Children(pa, in.old) : Room(pa, e).max > 0}

Prepare(p, agents) ==
  [plan |-> p, asg |-> [a \in agents |-> 0], util |-> [min |-> -Far, max |-> in.unknown]]

\* Mutant: what the other agents do is ignored.
PreassignNobody(pa) == pa

\* Other agents keep the task they report, in the order of their ids, as long as
\* it has room.
Preassign(pa) ==
  LET task(a)    == in.trees[pa.plan][a]
      earlier(a) == {b \in DOMAIN pa.asg \cap Others : b < a /\ task(b) = task(a)}
      keeps(a)   == /\ a \in Others /\ task(a) # 0
                    /\ Room(pa, task(a)).max > Cardinality(earlier(a))
      new        == [pa EXCEPT !.asg = [a \in DOMAIN @ |-> IF keeps(a) THEN task(a) ELSE @[a]]]
  IN  IF new.asg = pa.asg THEN pa ELSE Evaluate(new, NoOld)

\* A history variable of the problem, for the properties: by brute force, the
\* complete assignments that keep the agents assigned at first.
Goal(pa) == [plan |-> pa.plan, asg |-> pa.asg, value |-> Utility(pa, in.old).max]
Seed(p, agents) == IF in.old = NoOld THEN Preassign(Prepare(p, agents)) ELSE Prepare(p, agents)
Goals(plans, agents) ==
  {Goal(pa) : pa \in
     {x \in UNION {{[Prepare(p, agents) EXCEPT !.asg = f] : f \in [agents -> Tasks(p)]}
                     : p \in plans} :
        /\ IsGoal(x) /\ Utility(x, in.old).max > -Unit
        /\ \A a \in agents : Seed(x.plan, agents).asg[a] \in {0, x.asg[a]}}}

---------------------------------------------------------------------------
(* The selection *)

NoPA == [plan |-> 0]
Frame(groups, agents) ==
  [todo |-> groups, agents |-> agents, plans |-> {}, fringe |-> <<>>, goals |-> {}, given |-> {},
   candidate |-> NoPA, rps |-> <<>>]

Answer == {"created", "failed", "better", "kept"}

Top == stack[Len(stack)]
Replace(frame) == stack' = [stack EXCEPT ![Len(stack)] = frame]
Idle == stack = <<>>
Searching == ~ Idle /\ Top.plans # {} /\ Top.candidate = NoPA

\* The counter is tested after it was advanced: the last element is never used.
Exhausts(n) == n > 0 /\ used + n >= poolSize

\* Mutant: the pool is not enlarged.
SamePool(n) == n

LargerPool(n) == 2 * n + 5

PoolExhausted ==
  /\ stack' = <<>>
  /\ outcome' = "exhausted"
  /\ poolSize' = LargerPool(poolSize)
  /\ UNCHANGED <<in, used, curUtility, result>>

GetPlansForState ==
  /\ Idle /\ outcome \notin Answer /\ in.old = NoOld
  /\ stack' = <<Frame(StatePlans, Agents)>>
  /\ used' = 0
  /\ UNCHANGED <<in, poolSize, curUtility, outcome, result>>

GetBestSimilarAssignment ==
  /\ Idle /\ outcome \notin Answer /\ in.old # NoOld
  /\ stack' = <<Frame(<<Head(StatePlans)>>, Agents)>>
  /\ used' = 0
  /\ UNCHANGED <<in, poolSize, curUtility, outcome, result>>

\* The marks of this robot are counted twice (TeamObserver::successesInPlan).
SuccessesInPlan(p) ==
  MapThenSumSet(LAMBDA e : Cardinality(in.done[p][e]), Tasks(p))
  + Cardinality({e \in Tasks(p) : Me \in in.done[p][e]})

\* getPlansForStateInternal cannot make a running plan: the state above tries
\* its next best assignment, if there is one.
Fail ==
  /\ IF Len(stack) = 1 THEN stack' = <<>> /\ outcome' = "failed"
     ELSE /\ stack' = [Front(stack) EXCEPT ![Len(stack) - 1].candidate = NoPA]
          /\ UNCHANGED outcome
  /\ UNCHANGED <<in, used, poolSize, curUtility, result>>

AssignmentIsValid(pa) ==
  \A e \in Tasks(pa.plan) :
    LET c == Cardinality(Working(pa, e)) + Cardinality(in.done[pa.plan][e])
    IN  EntryPoints[pa.plan][e].min <= c /\ c <= EntryPoints[pa.plan][e].max

\* The beginning of createRunningPlan: the plans there are robots enough for,
\* the problem, and the value of the running assignment, whose runtime condition
\* may not hold any more.
CreateRunningPlan ==
  /\ ~ Idle /\ Top.plans = {} /\ Top.todo # <<>>
  /\ LET group  == Head(Top.todo)
         enough == {k \in DOMAIN group : MinCardinality(group[k])
                                           <= Cardinality(Top.agents) + SuccessesInPlan(group[k])}
         plans  == {group[k] : k \in enough}
         seeds  == [k \in DOMAIN group |-> Seed(group[k], Top.agents)]
     IN  \E runtime \in (IF in.old = NoOld THEN {FALSE} ELSE BOOLEAN) :
           LET judged == in.old # NoOld /\ AssignmentIsValid(in.old) /\ runtime
               taken  == Cardinality(enough) + (IF judged THEN 1 ELSE 0)
           IN  IF enough = {} THEN Fail
               ELSE IF Exhausts(taken) THEN PoolExhausted
               ELSE /\ Replace([Top EXCEPT !.plans = plans, !.goals = Goals(plans, Top.agents),
                                           !.fringe = InsertAll(<<>>, seeds, enough)])
                    /\ used' = used + taken
                    /\ curUtility' = IF judged THEN Utility(in.old, in.old).max ELSE -Unit
                    /\ UNCHANGED <<in, poolSize, outcome, result>>

\* One round of calcNextBestPartialAssignment.
Search ==
  /\ Searching
  /\ IF Top.fringe = <<>> THEN Fail
     ELSE LET pa == Last(Top.fringe)
              new == Children(pa, in.old)
              n == Cardinality(Expandable(pa))
          IN  IF IsGoal(pa)
              THEN /\ Replace([Top EXCEPT !.fringe = Front(@), !.candidate = pa, !.given = @ \cup {Goal(pa)}])
                   /\ UNCHANGED <<in, used, poolSize, curUtility, outcome, result>>
              ELSE IF Exhausts(n) THEN PoolExhausted
              ELSE /\ Replace([Top EXCEPT !.fringe = InsertAll(Front(@), new,
                                  {e \in Expandable(pa) : new[e].util.max > -Unit})])
                   /\ used' = used + n
                   /\ UNCHANGED <<in, poolSize, curUtility, outcome, result>>

\* A candidate whose precondition or runtime condition does not hold.
Reject ==
  /\ ~ Idle /\ Top.candidate # NoPA
  /\ Replace([Top EXCEPT !.candidate = NoPA])
  /\ UNCHANGED <<in, used, poolSize, curUtility, outcome, result>>

\* The candidate is taken: the plans of the state its task begins in are next,
\* with the agents of the task.
Descend ==
  /\ ~ Idle /\ Top.candidate # NoPA /\ in.old = NoOld
  /\ LET e == Top.candidate.asg[Me]
     IN  stack' = Append(stack, Frame(EntryPoints[Top.candidate.plan][e].sub, Working(Top.candidate, e)))
  /\ UNCHANGED <<in, used, poolSize, curUtility, outcome, result>>

\* All plans of a state have their running plan.
Return ==
  /\ ~ Idle /\ Top.todo = <<>>
  /\ IF Len(stack) = 1
     THEN stack' = <<>> /\ result' = Top.rps /\ outcome' = "created"
     ELSE /\ LET above == stack[Len(stack) - 1]
                 rp    == [pa |-> above.candidate, children |-> Top.rps]
             IN  stack' = [Front(stack) EXCEPT ![Len(stack) - 1] =
                   [Frame(Tail(above.todo), above.agents) EXCEPT !.rps = Append(above.rps, rp)]]
          /\ UNCHANGED <<result, outcome>>
  /\ UNCHANGED <<in, used, poolSize, curUtility>>

UtilityThreshold == 0

\* dynamicAllocationRule takes the candidate if it is better than what runs.
Compare ==
  /\ ~ Idle /\ Top.candidate # NoPA /\ in.old # NoOld
  /\ stack' = <<>>
  /\ outcome' = IF Top.candidate.util.max - curUtility > UtilityThreshold THEN "better" ELSE "kept"
  /\ result' = <<[pa |-> Top.candidate, children |-> <<>>]>>
  /\ UNCHANGED <<in, used, poolSize, curUtility>>

Init ==
  /\ in \in Inputs
  /\ stack = <<>> /\ used = 0 /\ poolSize = PoolSize
  /\ curUtility = -Unit /\ outcome = "none" /\ result = <<>>

\* The rules keep the answer; without one they ask again.
Rest == outcome \in Answer /\ UNCHANGED vars

Next ==
  \/ GetPlansForState \/ GetBestSimilarAssignment
  \/ CreateRunningPlan \/ Search \/ Reject \/ Descend \/ Return \/ Compare
  \/ Rest

Spec == Init /\ [][Next]_vars

\* WF_vars(Next), as Next can always change something until there is an answer
\* (no state is a deadlock): the selection is one call of the engine's thread.
FairSpec == Spec /\ ([]<>(outcome \in Answer) \/ []<><<TRUE>>_vars)
=============================================================================
