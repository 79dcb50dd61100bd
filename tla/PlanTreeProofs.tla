---------------------------- MODULE PlanTreeProofs ----------------------------
(***************************************************************************)
(* For any plan library and any number of objects: the rules of the rule   *)
(* book, the tick, the fast path, the sweep and the behaviours' threads keep *)
(* one tree of running plans, with the children of each plan's state and the *)
(* context of each behaviour's run.  First what the operations of          *)
(* RunningPlan, PlanSelector and PlanBase do to the tree, then that the rules *)
(* and the engine's loop use them so.  PlanTreeInv is the inductive invariant. *)
(***************************************************************************)
EXTENDS PlanTreeProperties, DataInduction, SequenceTheorems

-------------------------------------------------------------------------------
(* Plans and what is below them *)

Nodes == [Insts -> Node]

Closed(nodes, T) == \A i \in T : ToSet(nodes[i].children) \subseteq T

\* The least set of plans with S and all children.
Least(nodes, S, B) ==
  /\ S \subseteq B /\ B \subseteq Insts /\ Closed(nodes, B)
  /\ \A T \in SUBSET Insts : S \subseteq T /\ Closed(nodes, T) => B \subseteq T

\* The children of a plan are objects of the pool.
LEMMA ChildrenAreInsts ==
  ASSUME NEW nodes \in Nodes, NEW i \in Insts
  PROVE  ToSet(nodes[i].children) \subseteq Insts
<1>1. nodes[i].children \in Seq(Insts)
  BY DEF Nodes, Node
<1>2. QED
  BY <1>1 DEF ToSet

\* Below(t, S), which deactivate reaches one level after the other
\* (RunningPlan.cpp:341), is the least set with S and all children of its members:
\* NumInsts steps reach everything.
LEMMA BelowIsLeast ==
  ASSUME PlanTreeAssumption, NEW t, t.nodes \in Nodes, NEW S \in SUBSET Insts
  PROVE  Least(t.nodes, S, Below(t, S))
<1> DEFINE n == NumInsts
           More(T) == T \cup ChildrenOf(t, T)
           more == [T \in SUBSET Insts |-> More(T)]
           steps == [k \in 1..n |-> more]
           g == CHOOSE h : h = [k \in 0..n |-> IF k = 0 THEN S ELSE More(h[k - 1])]
<1>1. n \in Nat /\ IsFiniteSet(Insts) /\ Cardinality(Insts) = n
  BY FS_Interval DEF PlanTreeAssumption, Insts
<1>2. \A T \in SUBSET Insts : More(T) \in SUBSET Insts /\ T \subseteq More(T)
  BY ChildrenAreInsts DEF ChildrenOf
<1>3. Below(t, S) = g[n]
  BY DEF Below
<1> HIDE DEF n, More
<1>4. Grows(more, Insts)
  BY <1>2 DEF Grows
<1>5. steps \in StepsOn(SUBSET Insts, n)
  BY <1>2 DEF StepsOn
<1> HIDE DEF steps
<1>6. PICK f : StaysIn(f, SUBSET Insts, n) /\ Unfolds(f, S, steps, n)
  BY <1>1, <1>5, IntervalRecursion
<1>7. f \in [0..n -> SUBSET Insts] /\ f[0] = S /\ \A k \in 1..n : f[k] = more[f[k - 1]]
  BY <1>1, <1>6 DEF StaysIn, Unfolds, steps
<1>8. ASSUME NEW k \in 1..n
      PROVE  f[k] = More(f[k - 1]) /\ f[k - 1] \in SUBSET Insts
  <2>1. k - 1 \in 0..n
    BY <1>1
  <2>2. f[k - 1] \in SUBSET Insts
    BY <1>7, <2>1
  <2>3. f[k] = more[f[k - 1]]
    BY <1>7
  <2>4. QED
    BY <2>2, <2>3
<1>9. f = [k \in 0..n |-> IF k = 0 THEN S ELSE More(f[k - 1])]
  BY <1>1, <1>7, <1>8
<1>10. g = [k \in 0..n |-> IF k = 0 THEN S ELSE More(g[k - 1])]
  BY <1>9
<1> HIDE DEF g
<1>11. SameSteps(f, g, n)
  BY <1>1, <1>7, <1>8, <1>10 DEF SameSteps
<1>12. f[n] = g[n]
  BY <1>1, <1>11, IntervalUnique DEF SameValues
<1> HIDE DEF more
<1>13. more[f[n]] = f[n]
  <2>1. Iterates(f, more, Insts, n)
    BY <1>7 DEF Iterates
  <2>2. QED
    BY <1>1, <1>4, <2>1, GrowthStops
<1>14. f[n] \in SUBSET Insts
  BY <1>1, <1>7
<1>15. Closed(t.nodes, f[n])
  BY <1>13, <1>14 DEF more, More, ChildrenOf, Closed
<1>16. ASSUME NEW T \in SUBSET Insts, S \subseteq T, Closed(t.nodes, T) PROVE f[n] \subseteq T
  <2> DEFINE G == {k \in 0..n : f[k] \subseteq T}
  <2>1. 0 \in G
    BY <1>1, <1>7, <1>16
  <2>2. ASSUME NEW k \in 0..(n - 1), k \in G PROVE k + 1 \in G
    <3>1. k + 1 \in 1..n /\ f[k + 1] = More(f[k])
      BY <1>1, <1>8
    <3>2. ChildrenOf(t, f[k]) \subseteq T
      BY <1>16, <2>2 DEF ChildrenOf, Closed
    <3>3. QED
      BY <1>1, <2>2, <3>1, <3>2 DEF More
  <2> HIDE DEF G
  <2>3. 0..n \subseteq G
    BY <1>1, <2>1, <2>2, IntervalInduction
  <2>4. QED
    BY <1>1, <2>3 DEF G
<1>17. S \subseteq f[n]
  <2> DEFINE G == {k \in 0..n : S \subseteq f[k]}
  <2>1. 0 \in G
    BY <1>1, <1>7
  <2>2. ASSUME NEW k \in 0..(n - 1), k \in G PROVE k + 1 \in G
    <3>1. k + 1 \in 1..n /\ f[k + 1] = More(f[k])
      BY <1>1, <1>8
    <3>2. QED
      BY <1>1, <2>2, <3>1 DEF More
  <2> HIDE DEF G
  <2>3. 0..n \subseteq G
    BY <1>1, <2>1, <2>2, IntervalInduction
  <2>4. QED
    BY <1>1, <2>3 DEF G
<1> DEFINE B == f[n]
<1>18. Below(t, S) = B
  BY <1>3, <1>12
<1> HIDE DEF B, g
<1>19. Least(t.nodes, S, B)
  BY <1>14, <1>15, <1>16, <1>17 DEF Least, B
<1>20. QED
  BY <1>18, <1>19

-------------------------------------------------------------------------------
(* The tree *)

Kids(nodes, i)  == ToSet(nodes[i].children)
ActiveIn(nodes) == {i \in Insts : nodes[i].active = "Active"}

\* The children of active plans are active, know their parent and are there once.
OneParent(nodes) ==
  \A i \in ActiveIn(nodes) :
    /\ Kids(nodes, i) \subseteq ActiveIn(nodes)
    /\ \A c \in Kids(nodes, i) : nodes[c].parent = i
    /\ \A k, l \in DOMAIN nodes[i].children :
         nodes[i].children[k] = nodes[i].children[l] => k = l

\* Nothing is active but what hangs below the root.
Hangs(nodes, top) ==
  \A T \in SUBSET Insts :
    {top} \ {None} \subseteq T /\ Closed(nodes, T) => ActiveIn(nodes) \subseteq T

RootActive(nodes, top) ==
  IF top = None THEN \A i \in Insts : nodes[i].active = "Free"
  ELSE top \in ActiveIn(nodes) /\ nodes[top].parent = None

Consistent(nodes, top) ==
  OneParent(nodes) /\ Hangs(nodes, top) /\ RootActive(nodes, top)

\* No child of an active plan is out of the tree.
LEMMA ActiveClosed ==
  ASSUME NEW nodes \in Nodes, NEW top, Consistent(nodes, top)
  PROVE  Closed(nodes, ActiveIn(nodes)) /\ ActiveIn(nodes) \subseteq Insts
BY DEF Consistent, OneParent, Closed, Kids, ActiveIn

\* An active plan that is not the root is a child of the plan it points to.
LEMMA ActiveHasParent ==
  ASSUME NEW nodes \in Nodes, NEW top, Consistent(nodes, top),
         NEW i \in ActiveIn(nodes), i # top
  PROVE  nodes[i].parent \in ActiveIn(nodes) /\ i \in Kids(nodes, nodes[i].parent)
<1>1. top \in ActiveIn(nodes)
  BY DEF Consistent, RootActive, ActiveIn
<1>2. \E j \in ActiveIn(nodes) : i \in Kids(nodes, j)
  <2> SUFFICES ASSUME \A j \in ActiveIn(nodes) : i \notin Kids(nodes, j) PROVE FALSE
    OBVIOUS
  <2>1. Closed(nodes, ActiveIn(nodes) \ {i})
    BY DEF Consistent, OneParent, Closed, Kids
  <2>2. {top} \ {None} \subseteq ActiveIn(nodes) \ {i} /\ ActiveIn(nodes) \ {i} \in SUBSET Insts
    BY <1>1 DEF ActiveIn
  <2>3. ActiveIn(nodes) \subseteq ActiveIn(nodes) \ {i}
    BY <2>1, <2>2 DEF Consistent, Hangs
  <2>4. QED
    BY <2>3
<1>3. QED
  BY <1>2 DEF Consistent, OneParent

\* The subtree below an active plan is active, does not hold the plan or the root,
\* and no other plan outside it has children in it.
LEMMA SubtreeBelow ==
  ASSUME NEW nodes \in Nodes, NEW top, Consistent(nodes, top),
         NEW i \in ActiveIn(nodes), NEW G, Least(nodes, Kids(nodes, i), G)
  PROVE  /\ G \subseteq ActiveIn(nodes) \ {i, top}
         /\ \A j \in ActiveIn(nodes) \ G : j # i => Kids(nodes, j) \cap G = {}
<1> DEFINE A == ActiveIn(nodes)
<1>1. Closed(nodes, A) /\ A \in SUBSET Insts /\ Kids(nodes, i) \subseteq A
  BY ActiveClosed DEF Consistent, OneParent
<1>2. G \subseteq A
  BY <1>1 DEF Least
<1>3. ASSUME NEW j \in G PROVE j \in Kids(nodes, i) \/ \E x \in G : j \in Kids(nodes, x)
  <2> SUFFICES ASSUME j \notin Kids(nodes, i), \A x \in G : j \notin Kids(nodes, x)
               PROVE  FALSE
    OBVIOUS
  <2>1. Kids(nodes, i) \subseteq G \ {j} /\ Closed(nodes, G \ {j}) /\ G \ {j} \in SUBSET Insts
    BY DEF Least, Closed, Kids
  <2>2. G \subseteq G \ {j}
    BY <2>1 DEF Least
  <2>3. QED
    BY <1>3, <2>2
<1>4. ASSUME NEW j \in G PROVE nodes[j].parent \in G \cup {i}
  BY <1>2, <1>3 DEF Consistent, OneParent
<1>5. ASSUME NEW j \in A \ G, j # i PROVE Kids(nodes, j) \cap G = {}
  BY <1>4, <1>5 DEF Consistent, OneParent
<1>6. top \in A /\ top # None /\ nodes[top].parent = None /\ None \notin Insts
  BY DEF Consistent, RootActive, ActiveIn, None, Insts
<1>7. top \notin G
  BY <1>1, <1>2, <1>4, <1>6
<1>8. i \notin G
  <2> SUFFICES ASSUME i \in G PROVE FALSE
    OBVIOUS
  <2>1. \A j \in A \ G : Kids(nodes, j) \subseteq A \ G
    BY <1>1, <1>5 DEF Closed, Kids
  <2>2. Closed(nodes, A \ G) /\ A \ G \in SUBSET Insts /\ {top} \ {None} \subseteq A \ G
    BY <1>1, <1>6, <1>7, <2>1 DEF Closed, Kids
  <2>3. A \subseteq A \ G
    BY <2>2 DEF Consistent, Hangs
  <2>4. QED
    BY <1>2, <2>3
<1>9. QED
  BY <1>2, <1>5, <1>7, <1>8

\* The plans G below i retire and i has no children any more.
Prunes(nodes, i, G, after) ==
  /\ after \in Nodes
  /\ \A j \in Insts :
       /\ after[j].active = IF j \in G THEN "Retired" ELSE nodes[j].active
       /\ after[j].children = IF j = i THEN << >> ELSE nodes[j].children
       /\ after[j].parent = IF j \in Kids(nodes, i) THEN None ELSE nodes[j].parent

\* The tree is consistent when the subtree below a plan is taken out of it and
\* the plan's list of children is emptied.
LEMMA PruneKeeps ==
  ASSUME NEW nodes \in Nodes, NEW top, Consistent(nodes, top),
         NEW i \in ActiveIn(nodes), NEW G, Least(nodes, Kids(nodes, i), G),
         NEW after, Prunes(nodes, i, G, after)
  PROVE  Consistent(after, top) /\ ActiveIn(after) = ActiveIn(nodes) \ G
<1> DEFINE A == ActiveIn(nodes)
<1>1. /\ G \subseteq A \ {i, top} /\ A \subseteq Insts
      /\ \A j \in A \ G : j # i => Kids(nodes, j) \cap G = {}
  BY SubtreeBelow DEF ActiveIn
<1>2. ActiveIn(after) = A \ G
  BY <1>1 DEF Prunes, ActiveIn
<1>3. \A j \in Insts : Kids(after, j) = IF j = i THEN {} ELSE Kids(nodes, j)
  BY DEF Prunes, Kids, ToSet
<1>4. OneParent(after)
  <2> SUFFICES ASSUME NEW j \in A \ G
               PROVE  /\ Kids(after, j) \subseteq A \ G
                      /\ \A c \in Kids(after, j) : after[c].parent = j
                      /\ \A k, l \in DOMAIN after[j].children :
                           after[j].children[k] = after[j].children[l] => k = l
    BY <1>2 DEF OneParent
  <2>1. CASE j = i
    BY <1>1, <1>3, <2>1 DEF Prunes
  <2>2. CASE j # i
    <3>1. Kids(after, j) = Kids(nodes, j) /\ Kids(nodes, j) \subseteq A
          /\ after[j].children = nodes[j].children /\ Kids(nodes, i) \subseteq G
      BY <1>1, <1>3, <2>2 DEF Consistent, OneParent, Prunes, Least
    <3>2. Kids(nodes, j) \cap G = {}
      BY <1>1, <2>2
    <3>3. \A c \in Kids(nodes, j) : after[c].parent = nodes[c].parent
      BY <1>1, <3>1, <3>2 DEF Prunes
    <3>4. QED
      BY <1>1, <3>1, <3>2, <3>3 DEF Consistent, OneParent
  <2>3. QED
    BY <2>1, <2>2
<1>5. Hangs(after, top)
  <2> SUFFICES ASSUME NEW T \in SUBSET Insts, {top} \ {None} \subseteq T, Closed(after, T)
               PROVE  A \ G \subseteq T
    BY <1>2 DEF Hangs
  <2>1. Kids(nodes, i) \subseteq G /\ Closed(nodes, G) /\ G \subseteq Insts
    BY DEF Least
  <2>2. Closed(nodes, T \cup G)
    <3> SUFFICES ASSUME NEW j \in T \cup G PROVE Kids(nodes, j) \subseteq T \cup G
      BY DEF Closed, Kids
    <3>1. CASE j \in G
      BY <2>1, <3>1 DEF Closed, Kids
    <3>2. CASE j \in T /\ j # i
      BY <1>3, <3>2 DEF Closed, Kids
    <3>3. CASE j = i
      BY <2>1, <3>3
    <3>4. QED
      BY <3>1, <3>2, <3>3
  <2>3. A \subseteq T \cup G
    BY <2>1, <2>2 DEF Consistent, Hangs
  <2>4. QED
    BY <2>3
<1>6. RootActive(after, top)
  <2>1. top \in A /\ top # None /\ nodes[top].parent = None
    BY DEF Consistent, RootActive, ActiveIn
  <2>2. top \in A \ G /\ after[top].parent = None
    BY <1>1, <2>1 DEF Prunes
  <2>3. QED
    BY <1>2, <2>1, <2>2 DEF RootActive
<1>7. QED
  BY <1>2, <1>4, <1>5, <1>6 DEF Consistent

Pools    == [Behaviours -> BasicBehaviour]
TreeType == [nodes : Nodes, pool : Pools]

\* A plan has children in a state only.
Settled(nodes) == \A i \in ActiveIn(nodes) : nodes[i].children # << >> => nodes[i].state # NoState

\* A plan that waits for an allocation is in a state; the master plan has a task.
Allocatable(nodes, top) ==
  /\ \A i \in ActiveIn(nodes) : nodes[i].allocationNeeded => nodes[i].state # NoState
  /\ Settled(nodes)
  /\ top # None => nodes[top].entry \in States

\* A behaviour that is switched on has an active plan as its context, and its
\* thread is in no plan that is gone.
PoolFits(nodes, p) ==
  \A b \in Behaviours :
    /\ p[b].running => p[b].context \in ActiveIn(nodes) /\ nodes[p[b].context].type = b
    /\ p[b].contextInRun # None =>
         /\ p[b].context # None
         /\ nodes[p[b].contextInRun].active # "Free"
         /\ nodes[p[b].contextInRun].type = b

Good(t, top) ==
  /\ t \in TreeType
  /\ Consistent(t.nodes, top)
  /\ PoolFits(t.nodes, t.pool)

\* The data of plan j that the shape of the tree does not depend on.
SameData(nodes, after, j) ==
  /\ after[j].type = nodes[j].type
  /\ after[j].entry = nodes[j].entry
  /\ after[j].state = nodes[j].state
  /\ after[j].allocationNeeded = nodes[j].allocationNeeded
  /\ after[j].failHandlingNeeded = nodes[j].failHandlingNeeded
  /\ after[j].failCount = nodes[j].failCount
  /\ after[j].failedSubPlans = nodes[j].failedSubPlans

Stops(t, G, p) ==
  /\ p \in Pools
  /\ \A b \in Behaviours :
       /\ p[b].context = t.pool[b].context
       /\ p[b].contextInRun = t.pool[b].contextInRun
       /\ p[b].running <=> t.pool[b].running /\ \A j \in G : t.nodes[j].type # b

\* A record stays what it is when a field takes another value of its type.
LEMMA NodeUpdates ==
  ASSUME NEW n \in Node
  PROVE  /\ [n EXCEPT !.active = "Retired"] \in Node
         /\ [n EXCEPT !.parent = None] \in Node
         /\ \A s \in Seq(Insts) : [n EXCEPT !.children = s] \in Node
<1>1. [n EXCEPT !.active = "Retired"] \in Node
  BY DEF Node
<1>2. [n EXCEPT !.parent = None] \in Node
  BY DEF Node
<1>3. \A s \in Seq(Insts) : [n EXCEPT !.children = s] \in Node
  BY DEF Node
<1>4. QED
  BY <1>1, <1>2, <1>3

\* A behaviour that is stopped is a behaviour.
LEMMA BehaviourUpdates ==
  ASSUME NEW b \in BasicBehaviour
  PROVE  [b EXCEPT !.running = FALSE] \in BasicBehaviour
BY DEF BasicBehaviour

\* deactivateChildren (RunningPlan.cpp:341): the plans below plan i are retired
\* and their behaviours stopped, and nothing else changes.
LEMMA DeactivateDoes ==
  ASSUME PlanTreeAssumption, NEW t \in TreeType, NEW i \in Insts,
         NEW G \in SUBSET Insts, G = Deactivated(t, i)
  PROVE  LET u == DeactivateChildren(t, i)
         IN  /\ u \in TreeType
             /\ \A j \in Insts : /\ u.nodes[j].active = IF j \in G THEN "Retired"
                                                        ELSE t.nodes[j].active
                                 /\ u.nodes[j].children = t.nodes[j].children
                                 /\ u.nodes[j].parent = t.nodes[j].parent
                                 /\ SameData(t.nodes, u.nodes, j)
             /\ Stops(t, G, u.pool)
<1> DEFINE ns == [j \in Insts |-> IF j \in G THEN [t.nodes[j] EXCEPT !.active = "Retired"]
                                  ELSE t.nodes[j]]
           p == [b \in Behaviours |-> IF \E j \in G : t.nodes[j].type = b
                                      THEN [t.pool[b] EXCEPT !.running = FALSE]
                                      ELSE t.pool[b]]
<1>1. DeactivateChildren(t, i) = [nodes |-> ns, pool |-> p]
  BY DEF DeactivateChildren
<1>2. t.nodes \in Nodes /\ t.pool \in Pools
  BY DEF TreeType
<1>3. ns \in Nodes
  BY <1>2, NodeUpdates DEF Nodes
<1>4. \A j \in Insts : /\ ns[j].active = IF j \in G THEN "Retired" ELSE t.nodes[j].active
                       /\ ns[j].children = t.nodes[j].children
                       /\ ns[j].parent = t.nodes[j].parent
                       /\ SameData(t.nodes, ns, j)
  BY <1>2 DEF Nodes, Node, SameData
<1>5. p \in Pools
  BY <1>2, BehaviourUpdates DEF Pools
<1>6. Stops(t, G, p)
  BY <1>2, <1>5 DEF Pools, BasicBehaviour, Stops
<1> HIDE DEF ns, p
<1>7. QED
  BY <1>1, <1>3, <1>4, <1>5, <1>6 DEF TreeType

\* clearChildren (RunningPlan.cpp:351): plan i has no children, they have no
\* parent, and nothing else changes.
LEMMA ClearDoes ==
  ASSUME NEW t \in TreeType, NEW i \in Insts, i \notin Kids(t.nodes, i)
  PROVE  LET u == ClearChildren(t, i)
         IN  /\ u \in TreeType /\ u.pool = t.pool
             /\ \A j \in Insts : /\ u.nodes[j].active = t.nodes[j].active
                                 /\ u.nodes[j].children = IF j = i THEN << >>
                                                          ELSE t.nodes[j].children
                                 /\ u.nodes[j].parent = IF j \in Kids(t.nodes, i) THEN None
                                                        ELSE t.nodes[j].parent
                                 /\ SameData(t.nodes, u.nodes, j)
<1> DEFINE old == t.nodes
           ns == [j \in Insts |-> IF j = i THEN [old[j] EXCEPT !.children = << >>]
                                  ELSE IF j \in Kids(old, i) THEN [old[j] EXCEPT !.parent = None]
                                  ELSE old[j]]
<1>1. ClearChildren(t, i) = [t EXCEPT !.nodes = ns]
  BY DEF ClearChildren, Kids
<1>2. old \in Nodes /\ << >> \in Seq(Insts)
  BY DEF TreeType
<1> HIDE DEF old
<1>3. ns \in Nodes
  BY <1>2, NodeUpdates DEF Nodes
<1>4. \A j \in Insts : /\ ns[j].active = old[j].active
                       /\ ns[j].children = IF j = i THEN << >> ELSE old[j].children
                       /\ ns[j].parent = IF j = i THEN old[j].parent
                                         ELSE IF j \in Kids(old, i) THEN None ELSE old[j].parent
                       /\ SameData(old, ns, j)
  BY <1>2 DEF Nodes, Node, SameData
<1> HIDE DEF ns
<1>5. [t EXCEPT !.nodes = ns] \in TreeType /\ [t EXCEPT !.nodes = ns].nodes = ns
      /\ [t EXCEPT !.nodes = ns].pool = t.pool
  BY <1>3 DEF TreeType
<1>6. QED
  BY <1>1, <1>4, <1>5 DEF old

\* What dropChildren makes of the tree.
Dropped(t, i, G, u) ==
  /\ Least(t.nodes, Kids(t.nodes, i), G)
  /\ Prunes(t.nodes, i, G, u.nodes)
  /\ \A j \in Insts : SameData(t.nodes, u.nodes, j)
  /\ Stops(t, G, u.pool)

\* The two together, as the rules call them: what is left of the tree when the
\* children of an active plan are dropped.
LEMMA DropDoes ==
  ASSUME PlanTreeAssumption, NEW top, NEW t, Good(t, top), NEW i \in ActiveIn(t.nodes)
  PROVE  /\ DropChildren(t, i) \in TreeType
         /\ Dropped(t, i, Deactivated(t, i), DropChildren(t, i))
<1> DEFINE G == Deactivated(t, i)
           u == DeactivateChildren(t, i)
           w == ClearChildren(u, i)
<1>1. t \in TreeType /\ t.nodes \in Nodes /\ Consistent(t.nodes, top) /\ i \in Insts
  BY DEF Good, TreeType, ActiveIn
<1>2. Kids(t.nodes, i) \in SUBSET Insts
  BY <1>1, ChildrenAreInsts DEF Kids
<1>3. Least(t.nodes, Kids(t.nodes, i), G)
  BY <1>1, <1>2, BelowIsLeast DEF Deactivated, Kids
<1> HIDE DEF G
<1>4. i \notin G /\ Kids(t.nodes, i) \subseteq G /\ G \in SUBSET Insts
  <2>1. i \notin G
    BY <1>1, <1>3, SubtreeBelow
  <2>2. QED
    BY <1>3, <2>1 DEF Least
<1>5. /\ u \in TreeType
      /\ \A j \in Insts : /\ u.nodes[j].active = IF j \in G THEN "Retired"
                                                 ELSE t.nodes[j].active
                          /\ u.nodes[j].children = t.nodes[j].children
                          /\ u.nodes[j].parent = t.nodes[j].parent
                          /\ SameData(t.nodes, u.nodes, j)
      /\ Stops(t, G, u.pool)
  BY <1>1, <1>4, DeactivateDoes DEF G
<1> HIDE DEF u
<1>6. Kids(u.nodes, i) = Kids(t.nodes, i) /\ i \notin Kids(u.nodes, i)
  BY <1>1, <1>4, <1>5 DEF Kids
<1>7. /\ w \in TreeType /\ w.pool = u.pool
      /\ \A j \in Insts : /\ w.nodes[j].active = u.nodes[j].active
                          /\ w.nodes[j].children = IF j = i THEN << >>
                                                   ELSE u.nodes[j].children
                          /\ w.nodes[j].parent = IF j \in Kids(u.nodes, i) THEN None
                                                 ELSE u.nodes[j].parent
                          /\ SameData(u.nodes, w.nodes, j)
  BY <1>1, <1>5, <1>6, ClearDoes
<1>8. w = DropChildren(t, i)
  BY DEF DropChildren, u
<1> HIDE DEF w
<1>9. w.nodes \in Nodes
  BY <1>7 DEF TreeType
<1>10. Prunes(t.nodes, i, G, w.nodes)
  BY <1>5, <1>6, <1>7, <1>9 DEF Prunes
<1>11. \A j \in Insts : SameData(t.nodes, w.nodes, j)
  BY <1>5, <1>7 DEF SameData
<1>12. QED
  BY <1>3, <1>5, <1>7, <1>8, <1>10, <1>11 DEF Dropped, G

\* Dropping the children of an active plan leaves one tree with the behaviours of
\* its plans, without exactly what was below the plan.
LEMMA DropKeeps ==
  ASSUME PlanTreeAssumption, NEW top, NEW t, Good(t, top), NEW i \in ActiveIn(t.nodes),
         NEW G, NEW u \in TreeType, Dropped(t, i, G, u)
  PROVE  Good(u, top) /\ ActiveIn(u.nodes) = ActiveIn(t.nodes) \ G
         /\ G \cap {i, top} = {} /\ u.nodes[i].children = << >>
<1>1. t.nodes \in Nodes /\ Consistent(t.nodes, top) /\ PoolFits(t.nodes, t.pool)
      /\ t \in TreeType /\ i \in Insts
  BY DEF Good, TreeType, ActiveIn
<1>2. Consistent(u.nodes, top) /\ ActiveIn(u.nodes) = ActiveIn(t.nodes) \ G
  BY <1>1, PruneKeeps DEF Dropped
<1>3. G \cap {i, top} = {}
  BY <1>1, SubtreeBelow DEF Dropped
<1>4. PoolFits(u.nodes, u.pool)
  <2> SUFFICES ASSUME NEW b \in Behaviours
               PROVE /\ u.pool[b].running => /\ u.pool[b].context \in ActiveIn(u.nodes)
                                             /\ u.nodes[u.pool[b].context].type = b
                     /\ u.pool[b].contextInRun # None =>
                          /\ u.pool[b].context # None
                          /\ u.nodes[u.pool[b].contextInRun].active # "Free"
                          /\ u.nodes[u.pool[b].contextInRun].type = b
    BY DEF PoolFits
  <2>1. u.pool[b].running => /\ u.pool[b].context \in ActiveIn(u.nodes)
                             /\ u.nodes[u.pool[b].context].type = b
    <3> SUFFICES ASSUME u.pool[b].running
                 PROVE  /\ u.pool[b].context \in ActiveIn(u.nodes)
                        /\ u.nodes[u.pool[b].context].type = b
      OBVIOUS
    <3> DEFINE c == u.pool[b].context
    <3>1. t.pool[b].running /\ c = t.pool[b].context /\ \A j \in G : t.nodes[j].type # b
      BY DEF Dropped, Stops
    <3>2. c \in ActiveIn(t.nodes) /\ t.nodes[c].type = b
      BY <1>1, <3>1 DEF PoolFits
    <3> HIDE DEF c
    <3>3. c \notin G /\ c \in Insts
      BY <3>1, <3>2 DEF ActiveIn
    <3>4. c \in ActiveIn(u.nodes)
      BY <1>2, <3>2, <3>3
    <3>5. u.nodes[c].type = t.nodes[c].type
      BY <3>3 DEF Dropped, SameData
    <3>6. QED
      BY <3>2, <3>4, <3>5 DEF c
  <2>2. u.pool[b].contextInRun # None =>
          /\ u.pool[b].context # None /\ u.pool[b].contextInRun \in Insts
          /\ t.nodes[u.pool[b].contextInRun].active # "Free"
          /\ t.nodes[u.pool[b].contextInRun].type = b
    BY <1>1 DEF Dropped, Stops, PoolFits, Pools, BasicBehaviour, TreeType
  <2>3. QED
    BY <2>1, <2>2 DEF Dropped, Prunes, SameData
<1>5. QED
  BY <1>1, <1>2, <1>3, <1>4 DEF Good, Dropped, Prunes

\* Only data of plans changes, not the shape of the tree.
Relabels(t, u) ==
  /\ u \in TreeType /\ u.pool = t.pool
  /\ \A j \in Insts : /\ u.nodes[j].type = t.nodes[j].type
                      /\ u.nodes[j].active = t.nodes[j].active
                      /\ u.nodes[j].children = t.nodes[j].children
                      /\ u.nodes[j].parent = t.nodes[j].parent

\* Rules change flags, counters and states: the tree and the behaviours that
\* follow it are what they were.
LEMMA RelabelKeeps ==
  ASSUME NEW top, NEW t, Good(t, top), NEW u, Relabels(t, u)
  PROVE  Good(u, top) /\ ActiveIn(u.nodes) = ActiveIn(t.nodes)
<1>1. ActiveIn(u.nodes) = ActiveIn(t.nodes)
  BY DEF Relabels, ActiveIn
<1>2. \A j \in Insts : Kids(u.nodes, j) = Kids(t.nodes, j)
  BY DEF Relabels, Kids, ToSet
<1>3. \A T \in SUBSET Insts : Closed(u.nodes, T) <=> Closed(t.nodes, T)
  BY <1>2 DEF Closed, Kids
<1>4. Consistent(t.nodes, top) /\ PoolFits(t.nodes, t.pool)
      /\ t.pool \in Pools
  BY DEF Good, TreeType
<1>5. OneParent(u.nodes)
  <2>1. ActiveIn(t.nodes) \subseteq Insts
    BY DEF ActiveIn
  <2>2. QED
    BY <1>1, <1>2, <1>4, <2>1 DEF Consistent, OneParent, Relabels
<1>6. Hangs(u.nodes, top)
  BY <1>1, <1>3, <1>4 DEF Consistent, Hangs
<1>7. RootActive(u.nodes, top)
  BY <1>1, <1>4 DEF Consistent, RootActive, Relabels, ActiveIn
<1>8. PoolFits(u.nodes, u.pool)
  BY <1>1, <1>4 DEF PoolFits, Relabels, Pools, BasicBehaviour, ActiveIn
<1>9. QED
  BY <1>1, <1>5, <1>6, <1>7, <1>8 DEF Good, Consistent, Relabels

-------------------------------------------------------------------------------
(* The plans that are being ticked *)

\* Each plan on the stack but the last one is active, and the parent of the next.
Path(nodes, s) ==
  \A k \in 1..(Len(s) - 1) :
    /\ s[k].inst \in ActiveIn(nodes)
    /\ s[k + 1].inst \in ActiveIn(nodes) => nodes[s[k + 1].inst].parent = s[k].inst

\* Dropping the children of the plan that is visited, or of its parent, leaves the
\* plans above it, whose calls of tick are under way, where they are.
LEMMA PathSurvives ==
  ASSUME NEW nodes \in Nodes, NEW top, Consistent(nodes, top),
         NEW s \in Seq(Frame), Path(nodes, s), NEW i \in ActiveIn(nodes),
         s # << >> => /\ s[Len(s)].inst \in ActiveIn(nodes)
                      /\ i = s[Len(s)].inst \/ i = nodes[s[Len(s)].inst].parent,
         NEW G, Least(nodes, Kids(nodes, i), G),
         NEW after, Prunes(nodes, i, G, after)
  PROVE  Path(after, s)
<1> DEFINE m == IF i = s[Len(s)].inst THEN Len(s) ELSE Len(s) - 1
           H == {d \in 0..(m - 1) : s[m - d].inst \notin G}
<1>1. SUFFICES ASSUME Len(s) > 1 PROVE Path(after, s)
  BY DEF Path
<1>2. Len(s) \in Nat /\ s # << >> /\ m \in Nat /\ m >= 1 /\ m >= Len(s) - 1 /\ m <= Len(s)
  BY <1>1
<1>3. /\ i \notin G /\ top \notin G /\ Kids(nodes, i) \subseteq G /\ Closed(nodes, G)
      /\ ActiveIn(after) = ActiveIn(nodes) \ G
  BY SubtreeBelow, PruneKeeps DEF Least
<1>4. \A k \in 1..Len(s) : s[k].inst \in ActiveIn(nodes) /\ s[k].inst \in Insts
  <2>1. \A k \in 1..(Len(s) - 1) : s[k].inst \in ActiveIn(nodes)
    BY DEF Path
  <2>2. QED
    BY <1>2, <2>1 DEF ActiveIn
<1>5. \A k \in 1..(Len(s) - 1) : nodes[s[k + 1].inst].parent = s[k].inst
  BY <1>2, <1>4 DEF Path
<1>6. s[m].inst = i
  <2>1. CASE i = s[Len(s)].inst
    BY <2>1
  <2>2. CASE i # s[Len(s)].inst
    <3>1. m = Len(s) - 1 /\ i = nodes[s[Len(s)].inst].parent
      BY <1>2, <2>2
    <3>2. m \in 1..(Len(s) - 1) /\ Len(s) = m + 1
      BY <1>1, <1>2, <3>1
    <3>3. QED
      BY <1>5, <3>1, <3>2
  <2>3. QED
    BY <2>1, <2>2
<1> HIDE DEF m
<1>7. 0 \in H
  BY <1>2, <1>3, <1>6
<1>8. ASSUME NEW d \in 0..((m - 1) - 1), d \in H PROVE d + 1 \in H
  <2> DEFINE k == m - d - 1
  <2>1. k \in 1..(Len(s) - 1) /\ k + 1 = m - d /\ m - (d + 1) = k
    BY <1>2
  <2> HIDE DEF k
  <2>2. nodes[s[k + 1].inst].parent = s[k].inst /\ s[k + 1].inst \notin G
        /\ s[k + 1].inst \in ActiveIn(nodes) /\ s[k].inst \in Insts
    BY <1>2, <1>4, <1>5, <1>8, <2>1
  <2>3. s[k + 1].inst # top
    <3>1. ActiveIn(nodes) # {} => top # None /\ nodes[top].parent = None
      BY DEF Consistent, RootActive, ActiveIn
    <3>2. None \notin Insts
      BY DEF None, Insts
    <3>3. QED
      BY <2>2, <3>1, <3>2
  <2>4. s[k + 1].inst \in Kids(nodes, s[k].inst)
    BY <2>2, <2>3, ActiveHasParent
  <2>5. s[k].inst \notin G
    BY <1>3, <2>2, <2>4 DEF Closed, Kids
  <2>6. QED
    BY <1>2, <2>1, <2>5
<1>9. \A k \in 1..m : s[k].inst \notin G
  <2>1. 0..(m - 1) \subseteq H
    <3> HIDE DEF H
    <3>1. m - 1 \in Nat
      BY <1>2
    <3>2. QED
      BY <1>7, <1>8, <3>1, IntervalInduction
  <2>2. ASSUME NEW k \in 1..m PROVE s[k].inst \notin G
    <3>1. m - k \in 0..(m - 1) /\ m - (m - k) = k
      BY <1>2
    <3>2. QED
      BY <2>1, <3>1
  <2>3. QED
    BY <2>2
<1>10. ASSUME NEW k \in 1..(Len(s) - 1)
       PROVE  /\ s[k].inst \in ActiveIn(after)
              /\ s[k + 1].inst \in ActiveIn(after) => after[s[k + 1].inst].parent = s[k].inst
  <2>1. k \in 1..m /\ s[k].inst \in ActiveIn(nodes) \ G
    BY <1>2, <1>4, <1>9
  <2>2. ASSUME s[k + 1].inst \in ActiveIn(after) PROVE after[s[k + 1].inst].parent = s[k].inst
    <3>1. s[k + 1].inst \notin Kids(nodes, i) /\ s[k + 1].inst \in Insts
      BY <1>3, <2>2 DEF ActiveIn
    <3>2. QED
      BY <1>5, <3>1 DEF Prunes
  <2>3. QED
    BY <1>3, <2>1, <2>2
<1>11. QED
  BY <1>10 DEF Path

\* makeRunningPlan (PlanBase.h:59) finds an object that is free, where there is one.
LEMMA FreshIsFree ==
  ASSUME PlanTreeAssumption, NEW nodes \in Nodes, NEW i \in Insts, nodes[i].active = "Free"
  PROVE  Fresh(nodes) \in Insts /\ nodes[Fresh(nodes)].active = "Free"
<1> DEFINE F == {j \in Insts : nodes[j].active = "Free"}
<1>1. F \in SUBSET Nat /\ F # {}
  <2>1. Insts \subseteq Nat /\ i \in F
    BY DEF Insts
  <2>2. QED
    BY <2>1
<1>2. PICK j \in F : \A k \in F : j <= k
  BY <1>1, LeastNatural
<1>3. \A k \in 1..(j - 1) : nodes[k].active # "Free"
  BY <1>2 DEF Insts, PlanTreeAssumption
<1>4. \E k \in Insts : nodes[k].active = "Free" /\ \A l \in 1..(k - 1) : nodes[l].active # "Free"
  BY <1>2, <1>3
<1>5. QED
  BY <1>4 DEF Fresh

\* Plan n is a new child of i, the last one.
Grown(nodes, i, n, after) ==
  /\ after \in Nodes
  /\ after[n].active = "Active" /\ after[n].children = << >> /\ after[n].parent = i
  /\ after[i].active = nodes[i].active /\ after[i].parent = nodes[i].parent
  /\ after[i].children = Append(nodes[i].children, n)
  /\ \A j \in Insts \ {i, n} : after[j] = nodes[j]

\* A tree with one more child below an active plan is a tree.
LEMMA GrowKeeps ==
  ASSUME NEW nodes \in Nodes, NEW top, Consistent(nodes, top), NEW i \in ActiveIn(nodes),
         NEW n \in Insts, nodes[n].active = "Free", NEW after, Grown(nodes, i, n, after)
  PROVE  Consistent(after, top) /\ ActiveIn(after) = ActiveIn(nodes) \cup {n}
<1> DEFINE A == ActiveIn(nodes)
<1>1. n # i /\ n \notin A /\ A \subseteq Insts /\ i \in Insts /\ Closed(nodes, A)
  BY ActiveClosed DEF ActiveIn
<1>2. ActiveIn(after) = A \cup {n}
  BY <1>1 DEF Grown, ActiveIn
<1>3. nodes[i].children \in Seq(Insts)
  BY <1>1 DEF Nodes, Node
<1>4. Kids(after, i) = Kids(nodes, i) \cup {n}
  <2> DEFINE old == nodes[i].children
  <2>1. after[i].children = Append(old, n)
    BY DEF Grown
  <2>2. Len(old) \in Nat /\ DOMAIN old = 1..Len(old)
        /\ DOMAIN Append(old, n) = 1..(Len(old) + 1)
        /\ \A k \in 1..Len(old) : Append(old, n)[k] = old[k]
        /\ Append(old, n)[Len(old) + 1] = n
    BY <1>3
  <2> HIDE DEF old
  <2>3. {Append(old, n)[k] : k \in 1..(Len(old) + 1)} = {old[k] : k \in 1..Len(old)} \cup {n}
    BY <2>2
  <2>4. QED
    BY <2>1, <2>2, <2>3 DEF Kids, ToSet, old
<1>5. Kids(after, n) = {} /\ \A j \in Insts \ {i, n} : Kids(after, j) = Kids(nodes, j)
  BY DEF Grown, Kids, ToSet
<1>6. Kids(nodes, i) \subseteq A
  BY DEF Consistent, OneParent
<1>7. OneParent(after)
  <2> SUFFICES ASSUME NEW j \in A \cup {n}
               PROVE  /\ Kids(after, j) \subseteq A \cup {n}
                      /\ \A c \in Kids(after, j) : after[c].parent = j
                      /\ \A k, l \in DOMAIN after[j].children :
                           after[j].children[k] = after[j].children[l] => k = l
    BY <1>2 DEF OneParent
  <2>1. CASE j = n
    BY <1>5, <2>1 DEF Grown
  <2>2. CASE j = i
    <3>1. Kids(after, j) \subseteq A \cup {n}
      BY <1>4, <1>6, <2>2
    <3>2. \A c \in Kids(nodes, i) : after[c].parent = i
      BY <1>1, <1>6 DEF Grown, Consistent, OneParent
    <3>3. \A k, l \in DOMAIN nodes[i].children :
            nodes[i].children[k] = nodes[i].children[l] => k = l
      BY DEF Consistent, OneParent
    <3>4. \A k \in DOMAIN nodes[i].children : nodes[i].children[k] # n
      BY <1>1, <1>6 DEF Kids, ToSet
    <3>5. \A k, l \in DOMAIN after[i].children :
            after[i].children[k] = after[i].children[l] => k = l
      BY <1>1, <1>3, <3>3, <3>4 DEF Grown
    <3>6. QED
      BY <1>1, <1>4, <2>2, <3>1, <3>2, <3>5 DEF Grown
  <2>3. CASE j \in A \ {i, n}
    <3>1. after[j].children = nodes[j].children /\ Kids(after, j) = Kids(nodes, j)
          /\ Kids(nodes, j) \subseteq A
      BY <1>1, <1>5, <2>3 DEF Grown, Consistent, OneParent
    <3>2. \A c \in Kids(nodes, j) : after[c].parent = nodes[c].parent
      BY <1>1, <3>1 DEF Grown
    <3>3. QED
      BY <2>3, <3>1, <3>2 DEF Consistent, OneParent
  <2>4. QED
    BY <2>1, <2>2, <2>3
<1>8. Hangs(after, top)
  <2> SUFFICES ASSUME NEW T \in SUBSET Insts, {top} \ {None} \subseteq T, Closed(after, T)
               PROVE  A \cup {n} \subseteq T
    BY <1>2 DEF Hangs
  <2>1. Closed(nodes, T \cap A)
    <3> SUFFICES ASSUME NEW j \in T \cap A PROVE Kids(nodes, j) \subseteq T \cap A
      BY DEF Closed, Kids
    <3>1. Kids(nodes, j) \subseteq Kids(after, j)
      BY <1>1, <1>4, <1>5
    <3>2. QED
      BY <1>1, <3>1 DEF Closed, Kids
  <2>2. {top} \ {None} \subseteq T \cap A
    BY DEF Consistent, RootActive
  <2>3. A \subseteq T \cap A
    BY <1>1, <2>1, <2>2 DEF Consistent, Hangs
  <2>4. Kids(after, i) \subseteq T
    BY <2>3 DEF Closed, Kids
  <2>5. QED
    BY <1>4, <2>3, <2>4
<1>9. RootActive(after, top)
  <2>1. top \in A /\ top # None /\ nodes[top].parent = None
    BY DEF Consistent, RootActive, ActiveIn
  <2>2. after[top].parent = None
    BY <1>1, <2>1 DEF Grown
  <2>3. QED
    BY <1>2, <2>1, <2>2 DEF RootActive
<1>10. QED
  BY <1>2, <1>7, <1>8, <1>9 DEF Consistent

Works == [tree : TreeType, made : Seq(Insts), todo : Seq(Insts \X Types), room : BOOLEAN]

\* The state the robot starts plan p in, and the children that follow from it.
StartOf(p, tasks) == IF p \in Plans THEN tasks[p] ELSE NoState

KidsOf(n, s) == IF s = NoState THEN << >> ELSE [k \in DOMAIN StatePlans[s] |-> <<n, StatePlans[s][k]>>]

\* One more plan: n is made for the first entry of the list.
Makes(w, tasks, n, u) ==
  LET p == w.todo[1][2]
      parent == w.todo[1][1]
      s == StartOf(p, tasks)
  IN  /\ w.room /\ w.todo # << >>
      /\ Grown(w.tree.nodes, parent, n, u.tree.nodes)
      /\ SameData(w.tree.nodes, u.tree.nodes, parent)
      /\ u.tree.nodes[n].type = p /\ u.tree.nodes[n].state = s /\ u.tree.nodes[n].entry = s
      /\ ~ u.tree.nodes[n].allocationNeeded
      /\ u.tree.pool = IF p \in Behaviours
                       THEN [w.tree.pool EXCEPT ![p].context = n, ![p].running = TRUE]
                       ELSE w.tree.pool
      /\ u.todo = KidsOf(n, s) \o Tail(w.todo)
      /\ u.room = w.room

\* A plan that is made is a plan: active, without children, below its parent.
LEMMA NewNodeType ==
  ASSUME PlanTreeAssumption, NEW p \in Types, NEW parent \in Insts, NEW s \in States \cup {NoState},
         NEW c \in 0..FailLimit
  PROVE  LET child == [NewNode(p, parent, s) EXCEPT !.failCount = c]
         IN  /\ child \in Node /\ child.active = "Active" /\ child.children = << >>
             /\ child.parent = parent /\ child.type = p /\ child.state = s /\ child.entry = s
             /\ ~ child.allocationNeeded
<1>1. NewNode(p, parent, s) \in Node
  <2>1. NoFailures \in [Types -> 0..FailLimit]
    BY DEF NoFailures, FailLimit
  <2>2. << >> \in Seq(Insts)
    OBVIOUS
  <2>3. QED
    BY <2>1, <2>2 DEF NewNode, Node, FailLimit
<1>2. [NewNode(p, parent, s) EXCEPT !.failCount = c] \in Node
  BY <1>1 DEF Node
<1>3. QED
  BY <1>2 DEF NewNode

\* The children to be made are plans of the library, each with its parent.
LEMMA KidsOfType ==
  ASSUME PlanTreeAssumption, NEW n \in Insts, NEW s \in States \cup {NoState}
  PROVE  KidsOf(n, s) \in Seq(Insts \X Types)
<1>1. CASE s = NoState
  BY <1>1 DEF KidsOf
<1>2. CASE s # NoState
  <2>1. StatePlans[s] \in Seq(Types)
    BY <1>2 DEF PlanTreeAssumption
  <2> DEFINE q == StatePlans[s]
  <2>2. [k \in DOMAIN q |-> <<n, q[k]>>] \in Seq(Insts \X Types)
    <3>1. Len(q) \in Nat /\ DOMAIN q = 1..Len(q) /\ \A k \in 1..Len(q) : q[k] \in Types
      BY <2>1
    <3> HIDE DEF q
    <3>2. [k \in 1..Len(q) |-> <<n, q[k]>>] \in [1..Len(q) -> Insts \X Types]
      BY <3>1
    <3>3. QED
      BY <3>1, <3>2, SeqDef
  <2>3. QED
    BY <1>2, <2>2 DEF KidsOf
<1>3. QED
  BY <1>1, <1>2

\* A behaviour is started in the context of plan n.
Started(pl, b, n, after) ==
  /\ after \in Pools
  /\ after[b].context = n /\ after[b].running
  /\ after[b].contextInRun = pl[b].contextInRun
  /\ \A c \in Behaviours \ {b} : after[c] = pl[c]

\* startBehaviour hands the behaviour to the plan that runs it.
LEMMA StartedPool ==
  ASSUME NEW pl \in Pools, NEW b \in Behaviours, NEW n \in Insts
  PROVE  Started(pl, b, n, [pl EXCEPT ![b].context = n, ![b].running = TRUE])
<1>1. pl[b] \in BasicBehaviour
  BY DEF Pools
<1> DEFINE x == [pl[b] EXCEPT !.context = n, !.running = TRUE]
<1>2. x \in BasicBehaviour /\ x.context = n /\ x.running /\ x.contextInRun = pl[b].contextInRun
  BY <1>1 DEF BasicBehaviour
<1>3. [pl EXCEPT ![b].context = n, ![b].running = TRUE] = [pl EXCEPT ![b] = x]
  BY <1>1 DEF Pools
<1> HIDE DEF x
<1>4. QED
  BY <1>2, <1>3 DEF Pools, Started

\* One step of an allocation (PlanSelector.cpp:94) makes one plan in a free
\* object, or finds none free, or has nothing to make.
LEMMA MakeNextDoes ==
  ASSUME PlanTreeAssumption, NEW w \in Works, NEW tasks \in Tasks,
         w.todo # << >> => w.tree.nodes[w.todo[1][1]].active # "Free"
  PROVE  /\ MakeNext(w, tasks) \in Works
         /\ \/ (w.todo = << >> \/ ~ w.room) /\ MakeNext(w, tasks) = w
            \/ MakeNext(w, tasks) = [w EXCEPT !.room = FALSE]
            \/ \E n \in Insts : w.tree.nodes[n].active = "Free"
                                /\ Makes(w, tasks, n, MakeNext(w, tasks))
<1> DEFINE p == w.todo[1][2]
           parent == w.todo[1][1]
           n == Fresh(w.tree.nodes)
           s == StartOf(p, tasks)
           child == [NewNode(p, parent, s) EXCEPT
                       !.failCount = w.tree.nodes[parent].failedSubPlans[p]]
           nodes == [w.tree.nodes EXCEPT ![n] = child, ![parent].children = Append(@, n)]
           pl == IF p \in Behaviours
                 THEN [w.tree.pool EXCEPT ![p].context = n, ![p].running = TRUE]
                 ELSE w.tree.pool
           u == [tree |-> [nodes |-> nodes, pool |-> pl], made |-> Append(w.made, n),
                 todo |-> KidsOf(n, s) \o Tail(w.todo), room |-> w.room]
<1>1. CASE w.todo = << >> \/ ~ w.room
  BY Zenon, <1>1 DEF MakeNext
<1>2. CASE ~ (w.todo = << >> \/ ~ w.room) /\ \A i \in Insts : w.tree.nodes[i].active # "Free"
  <2>1. MakeNext(w, tasks) = [w EXCEPT !.room = FALSE]
    BY Zenon, <1>2 DEF MakeNext
  <2>2. QED
    BY <2>1 DEF Works
<1>3. CASE ~ (w.todo = << >> \/ ~ w.room) /\ \E i \in Insts : w.tree.nodes[i].active = "Free"
  <2>1. MakeNext(w, tasks) = u
    BY Zenon, <1>3 DEF MakeNext, StartOf, KidsOf
  <2>2. /\ w.tree.nodes \in Nodes /\ w.tree.pool \in Pools /\ w.made \in Seq(Insts)
        /\ w.todo \in Seq(Insts \X Types) /\ w.room \in BOOLEAN
    BY DEF Works, TreeType
  <2>3. p \in Types /\ parent \in Insts /\ Tail(w.todo) \in Seq(Insts \X Types)
    BY <1>3, <2>2
  <2> HIDE DEF p, parent
  <2>4. n \in Insts /\ w.tree.nodes[n].active = "Free" /\ w.tree.nodes[parent].active # "Free"
    BY <1>3, <2>2, FreshIsFree DEF parent
  <2>5. s \in States \cup {NoState}
    BY <2>3 DEF StartOf, Tasks, Types
  <2> HIDE DEF n, s
  <2>6. /\ child \in Node /\ child.active = "Active" /\ child.children = << >>
        /\ child.parent = parent /\ child.type = p /\ child.state = s /\ child.entry = s
        /\ ~ child.allocationNeeded
    <3> DEFINE c == w.tree.nodes[parent].failedSubPlans[p]
    <3>1. c \in 0..FailLimit
      BY <2>2, <2>3 DEF Nodes, Node
    <3>2. child = [NewNode(p, parent, s) EXCEPT !.failCount = c]
      OBVIOUS
    <3> HIDE DEF c, child
    <3> DEFINE made == [NewNode(p, parent, s) EXCEPT !.failCount = c]
    <3>3. /\ made \in Node /\ made.active = "Active" /\ made.children = << >>
          /\ made.parent = parent /\ made.type = p /\ made.state = s /\ made.entry = s
          /\ ~ made.allocationNeeded
      BY <2>3, <2>5, <3>1, NewNodeType
    <3> HIDE DEF made
    <3>4. QED
      BY <3>2, <3>3 DEF made
  <2> HIDE DEF child
  <2>7. n # parent
    BY <2>4
  <2>8. /\ nodes \in Nodes /\ nodes[n] = child
        /\ nodes[parent] = [w.tree.nodes[parent] EXCEPT !.children = Append(@, n)]
        /\ \A j \in Insts \ {parent, n} : nodes[j] = w.tree.nodes[j]
    <3>1. Append(w.tree.nodes[parent].children, n) \in Seq(Insts)
      BY <2>2, <2>3, <2>4 DEF Nodes, Node
    <3>2. [w.tree.nodes[parent] EXCEPT !.children = Append(@, n)] \in Node
      BY <2>2, <2>3, <3>1, NodeUpdates DEF Nodes
    <3>3. QED
      BY <2>2, <2>3, <2>4, <2>6, <2>7, <3>2 DEF Nodes
  <2> HIDE DEF nodes
  <2>9. Grown(w.tree.nodes, parent, n, nodes) /\ SameData(w.tree.nodes, nodes, parent)
    <3>1. w.tree.nodes[parent] \in Node
      BY <2>2, <2>3 DEF Nodes
    <3>2. QED
      BY <2>6, <2>8, <3>1 DEF Grown, SameData, Node
  <2>10. pl \in Pools
    BY <2>2, <2>4, StartedPool DEF Started
  <2>11. KidsOf(n, s) \o Tail(w.todo) \in Seq(Insts \X Types)
    BY <2>3, <2>4, <2>5, KidsOfType, ConcatProperties
  <2>12. u \in Works
    BY <2>2, <2>4, <2>8, <2>10, <2>11 DEF Works, TreeType
  <2>13. Makes(w, tasks, n, u)
    BY Zenon, <1>3, <2>6, <2>8, <2>9 DEF Makes, p, parent, s
  <2> HIDE DEF u
  <2>14. QED
    BY <2>1, <2>4, <2>12, <2>13
<1>4. QED
  BY <1>1, <1>2, <1>3

\* Plans that were there are as they were, but for children; plans that are new
\* are active and allocated.
Extends(t, u) ==
  /\ \A j \in Insts : t.nodes[j].active # "Free" =>
       /\ u.nodes[j].active = t.nodes[j].active /\ u.nodes[j].parent = t.nodes[j].parent
       /\ SameData(t.nodes, u.nodes, j)
  /\ \A j \in Insts : t.nodes[j].active = "Free" =>
       u.nodes[j].active # "Retired" /\
       (u.nodes[j].active = "Active" => ~ u.nodes[j].allocationNeeded)
  /\ \A b \in Behaviours : u.pool[b].contextInRun = t.pool[b].contextInRun

\* An allocation under way: the plans still to make have active parents in a state.
Working(t, top) ==
  {w \in Works : /\ Good(w.tree, top) /\ Settled(w.tree.nodes)
                 /\ Extends(t, w.tree)
                 /\ \A k \in DOMAIN w.todo : /\ w.todo[k][1] \in ActiveIn(w.tree.nodes)
                                             /\ w.tree.nodes[w.todo[k][1]].state # NoState}

\* A plan that is made joins the tree of an allocation under way; plans that were
\* there keep their data.
LEMMA MakesKeeps ==
  ASSUME PlanTreeAssumption, NEW t \in TreeType, NEW top, NEW w \in Working(t, top), NEW tasks \in Tasks,
         NEW n \in Insts, w.tree.nodes[n].active = "Free", NEW u \in Works,
         Makes(w, tasks, n, u)
  PROVE  u \in Working(t, top)
<1> DEFINE p == w.todo[1][2]
           parent == w.todo[1][1]
<1>1. /\ Good(w.tree, top) /\ Extends(t, w.tree) /\ w \in Works /\ Settled(w.tree.nodes)
      /\ \A k \in DOMAIN w.todo : /\ w.todo[k][1] \in ActiveIn(w.tree.nodes)
                                  /\ w.tree.nodes[w.todo[k][1]].state # NoState
  BY DEF Working
<1>2. /\ w.tree \in TreeType /\ w.tree.nodes \in Nodes /\ w.tree.pool \in Pools
      /\ u.tree \in TreeType /\ w.todo \in Seq(Insts \X Types) /\ w.todo # << >>
      /\ Consistent(w.tree.nodes, top) /\ PoolFits(w.tree.nodes, w.tree.pool)
  BY Zenon, <1>1 DEF Good, TreeType, Works, Makes
<1>3. p \in Types /\ parent \in ActiveIn(w.tree.nodes) /\ parent \in Insts
      /\ w.tree.nodes[parent].state # NoState
      /\ Tail(w.todo) \in Seq(Insts \X Types)
  <2> DEFINE X == Insts \X Types
             td == w.todo
  <2> HIDE DEF X, td
  <2>1. td \in Seq(X) /\ td # << >>
    BY <1>2 DEF X, td
  <2>2. td[1] \in X /\ 1 \in DOMAIN td /\ Tail(td) \in Seq(X)
    BY <2>1
  <2>3. w.todo[1] \in Insts \X Types /\ 1 \in DOMAIN w.todo /\ Tail(w.todo) \in Seq(Insts \X Types)
    BY <2>2 DEF X, td
  <2>4. p \in Types /\ parent \in Insts
    BY <2>3
  <2>5. QED
    BY <1>1, <2>3, <2>4
<1>4. /\ Grown(w.tree.nodes, parent, n, u.tree.nodes)
      /\ SameData(w.tree.nodes, u.tree.nodes, parent)
      /\ u.tree.nodes[n].type = p /\ ~ u.tree.nodes[n].allocationNeeded
      /\ u.tree.nodes[n].state = StartOf(p, tasks)
      /\ u.tree.pool = IF p \in Behaviours
                       THEN [w.tree.pool EXCEPT ![p].context = n, ![p].running = TRUE]
                       ELSE w.tree.pool
      /\ u.todo = KidsOf(n, StartOf(p, tasks)) \o Tail(w.todo)
  BY Zenon DEF Makes
<1> HIDE DEF p, parent
<1>5. /\ u.tree.nodes[n].active = "Active" /\ u.tree.nodes[n].children = << >>
      /\ u.tree.nodes[n].state = StartOf(p, tasks)
      /\ ~ u.tree.nodes[n].allocationNeeded /\ u.tree.nodes[n].type = p
      /\ \A j \in Insts \ {parent, n} : u.tree.nodes[j] = w.tree.nodes[j]
  BY <1>4 DEF Grown
<1>6. ASSUME NEW b \in Behaviours
       PROVE  /\ u.tree.pool[b].contextInRun = w.tree.pool[b].contextInRun
              /\ p = b => u.tree.pool[b].context = n
              /\ p # b => u.tree.pool[b] = w.tree.pool[b]
  <2> DEFINE pl == w.tree.pool
  <2>1. pl \in Pools
    BY <1>2
  <2> HIDE DEF pl
  <2>2. CASE p \in Behaviours
    <3> DEFINE after == [pl EXCEPT ![p].context = n, ![p].running = TRUE]
    <3>1. u.tree.pool = after
      BY <1>4, <2>2 DEF pl
    <3>2. Started(pl, p, n, after)
      BY <2>1, <2>2, StartedPool
    <3> HIDE DEF after
    <3>3. QED
      BY <3>1, <3>2 DEF pl, Started
  <2>3. CASE p \notin Behaviours
    BY <1>4, <2>3
  <2>4. QED
    BY <2>2, <2>3
<1>7. Consistent(u.tree.nodes, top) /\ ActiveIn(u.tree.nodes) = ActiveIn(w.tree.nodes) \cup {n}
  BY <1>2, <1>3, <1>4, GrowKeeps
<1>8. n \notin ActiveIn(w.tree.nodes) /\ n # parent
  BY <1>3 DEF ActiveIn
<1>9. ASSUME NEW j \in Insts, j # n
      PROVE  /\ u.tree.nodes[j].active = w.tree.nodes[j].active
             /\ u.tree.nodes[j].parent = w.tree.nodes[j].parent
             /\ SameData(w.tree.nodes, u.tree.nodes, j)
  BY ZenonT(40), <1>4, <1>9 DEF Grown, SameData
<1>10. PoolFits(u.tree.nodes, u.tree.pool)
  <2> SUFFICES ASSUME NEW b \in Behaviours
               PROVE  /\ u.tree.pool[b].running =>
                           /\ u.tree.pool[b].context \in ActiveIn(u.tree.nodes)
                           /\ u.tree.nodes[u.tree.pool[b].context].type = b
                      /\ u.tree.pool[b].contextInRun # None =>
                           /\ u.tree.pool[b].context # None
                           /\ u.tree.nodes[u.tree.pool[b].contextInRun].active # "Free"
                           /\ u.tree.nodes[u.tree.pool[b].contextInRun].type = b
    BY DEF PoolFits
  <2>1. u.tree.pool[b].contextInRun = w.tree.pool[b].contextInRun
    BY <1>6
  <2>2. w.tree.pool[b].contextInRun # None =>
          /\ w.tree.pool[b].contextInRun \in Insts \ {n} /\ w.tree.pool[b].context # None
          /\ w.tree.nodes[w.tree.pool[b].contextInRun].active # "Free"
          /\ w.tree.nodes[w.tree.pool[b].contextInRun].type = b
    <3>1. w.tree.pool[b].contextInRun \in Insts \cup {None}
      BY <1>2 DEF Pools, BasicBehaviour
    <3>2. w.tree.pool[b].contextInRun # None =>
            /\ w.tree.pool[b].context # None
            /\ w.tree.nodes[w.tree.pool[b].contextInRun].active # "Free"
            /\ w.tree.nodes[w.tree.pool[b].contextInRun].type = b
      BY <1>2 DEF PoolFits
    <3>3. QED
      BY <3>1, <3>2
  <2>3. w.tree.pool[b].contextInRun # None =>
          /\ u.tree.nodes[w.tree.pool[b].contextInRun].active # "Free"
          /\ u.tree.nodes[w.tree.pool[b].contextInRun].type = b
    <3> DEFINE j == w.tree.pool[b].contextInRun
    <3> HIDE DEF j
    <3>1. j \in Insts \ {n} => /\ u.tree.nodes[j].active = w.tree.nodes[j].active
                               /\ u.tree.nodes[j].type = w.tree.nodes[j].type
      BY <1>9 DEF SameData
    <3>2. QED
      BY Zenon, <2>2, <3>1 DEF j
  <2>4. CASE p = b
    <3>1. u.tree.pool[b].context = n
      BY <1>6, <2>4
    <3>2. n # None
      BY DEF None, Insts
    <3>3. QED
      BY Zenon, <1>7, <1>5, <2>1, <2>3, <2>4, <3>1, <3>2
  <2>5. CASE p # b
    <3>1. u.tree.pool[b] = w.tree.pool[b]
      BY <1>6, <2>5
    <3>2. w.tree.pool[b].running => /\ w.tree.pool[b].context \in ActiveIn(w.tree.nodes)
                                    /\ w.tree.nodes[w.tree.pool[b].context].type = b
      BY <1>2 DEF PoolFits
    <3>3. w.tree.pool[b].running => /\ w.tree.pool[b].context \in ActiveIn(u.tree.nodes)
                                    /\ u.tree.nodes[w.tree.pool[b].context].type = b
      BY <1>7, <1>8, <1>9, <3>2 DEF SameData, ActiveIn
    <3>4. QED
      BY Zenon, <2>1, <2>2, <2>3, <3>1, <3>3
  <2>6. QED
    BY <2>4, <2>5
<1>11. Extends(t, u.tree)
  <2>1. ASSUME NEW j \in Insts, t.nodes[j].active # "Free"
        PROVE  /\ u.tree.nodes[j].active = t.nodes[j].active
               /\ u.tree.nodes[j].parent = t.nodes[j].parent
               /\ SameData(t.nodes, u.tree.nodes, j)
    <3>1. /\ w.tree.nodes[j].active = t.nodes[j].active
          /\ w.tree.nodes[j].parent = t.nodes[j].parent
          /\ SameData(t.nodes, w.tree.nodes, j)
      BY <1>1, <2>1 DEF Extends
    <3>2. QED
      BY <1>9, <2>1, <3>1 DEF SameData
  <2>2. ASSUME NEW j \in Insts, t.nodes[j].active = "Free"
        PROVE  u.tree.nodes[j].active # "Retired" /\
               (u.tree.nodes[j].active = "Active" => ~ u.tree.nodes[j].allocationNeeded)
    <3>1. w.tree.nodes[j].active # "Retired" /\
          (w.tree.nodes[j].active = "Active" => ~ w.tree.nodes[j].allocationNeeded)
      BY <1>1, <2>2 DEF Extends
    <3>2. CASE j = n
      BY <1>5, <3>2
    <3>3. CASE j # n
      BY <1>9, <3>1, <3>3 DEF SameData
    <3>4. QED
      BY <3>2, <3>3
  <2>3. ASSUME NEW b \in Behaviours PROVE u.tree.pool[b].contextInRun = t.pool[b].contextInRun
    <3>1. w.tree.pool[b].contextInRun = t.pool[b].contextInRun
      BY <1>1 DEF Extends
    <3>2. QED
      BY <1>6, <3>1
  <2>4. QED
    BY <2>1, <2>2, <2>3 DEF Extends
<1>12. ASSUME NEW k \in DOMAIN u.todo
       PROVE  u.todo[k][1] \in ActiveIn(u.tree.nodes) /\ u.tree.nodes[u.todo[k][1]].state # NoState
  <2> DEFINE kids == KidsOf(n, StartOf(p, tasks))
             rest == Tail(w.todo)
  <2>1. /\ kids \in Seq(Insts \X Types)
        /\ \A l \in 1..Len(kids) : kids[l][1] = n /\ StartOf(p, tasks) # NoState
    <3>1. StartOf(p, tasks) \in States \cup {NoState}
      BY <1>3 DEF StartOf, Tasks, Types
    <3>2. kids \in Seq(Insts \X Types)
      BY <3>1, KidsOfType
    <3>3. \A l \in DOMAIN kids : kids[l][1] = n /\ StartOf(p, tasks) # NoState
      BY DEF KidsOf
    <3> HIDE DEF kids
    <3>4. QED
      BY <3>2, <3>3
  <2>2. /\ rest \in Seq(Insts \X Types)
        /\ \A l \in 1..Len(rest) : /\ rest[l][1] \in ActiveIn(w.tree.nodes)
                                   /\ w.tree.nodes[rest[l][1]].state # NoState
    <3>1. rest \in Seq(Insts \X Types)
      BY <1>3
    <3> DEFINE X == Insts \X Types
               td == w.todo
    <3> HIDE DEF X, td
    <3>2. td \in Seq(X) /\ td # << >>
      BY <1>2 DEF X, td
    <3>3. \A l \in 1..Len(Tail(td)) : l + 1 \in DOMAIN td /\ Tail(td)[l] = td[l + 1]
      BY <3>2
    <3>4. \A l \in 1..Len(rest) : l + 1 \in DOMAIN w.todo /\ rest[l] = w.todo[l + 1]
      BY <3>3 DEF td
    <3> HIDE DEF rest
    <3>5. QED
      BY <1>1, <3>1, <3>4
  <2>3. u.todo = kids \o rest
    BY <1>4
  <2> HIDE DEF kids, rest
  <2>4. \/ k \in 1..Len(kids) /\ u.todo[k] = kids[k]
        \/ k - Len(kids) \in 1..Len(rest) /\ u.todo[k] = rest[k - Len(kids)]
    BY <1>12, <2>1, <2>2, <2>3
  <2>5. CASE k \in 1..Len(kids) /\ u.todo[k] = kids[k]
    BY <1>7, <1>5, <2>1, <2>5
  <2>6. CASE k - Len(kids) \in 1..Len(rest) /\ u.todo[k] = rest[k - Len(kids)]
    <3> DEFINE l == k - Len(kids)
    <3>1. /\ rest[l][1] \in ActiveIn(w.tree.nodes) /\ w.tree.nodes[rest[l][1]].state # NoState
      BY <2>2, <2>6
    <3>2. rest[l][1] \in Insts \ {n}
      BY <1>8, <3>1 DEF ActiveIn
    <3>3. u.tree.nodes[rest[l][1]].state = w.tree.nodes[rest[l][1]].state
      BY <1>9, <3>2 DEF SameData
    <3>4. QED
      BY <1>7, <2>6, <3>1, <3>3
  <2>7. QED
    BY <2>4, <2>5, <2>6
<1>13. Settled(u.tree.nodes)
  <2> SUFFICES ASSUME NEW j \in ActiveIn(u.tree.nodes), u.tree.nodes[j].children # << >>
               PROVE  u.tree.nodes[j].state # NoState
    BY DEF Settled
  <2>1. j # n /\ j \in ActiveIn(w.tree.nodes) /\ j \in Insts
    <3>1. j \in ActiveIn(w.tree.nodes) \cup {n} /\ j # n
      BY <1>7, <1>5
    <3>2. QED
      BY <3>1 DEF ActiveIn
  <2>2. u.tree.nodes[j].state = w.tree.nodes[j].state
    BY <1>9, <2>1 DEF SameData
  <2>3. CASE j = parent
    BY <1>3, <2>2, <2>3
  <2>4. CASE j # parent
    <3>1. u.tree.nodes[j] = w.tree.nodes[j]
      BY <1>5, <2>1, <2>4
    <3>2. Settled(w.tree.nodes)
      BY <1>1
    <3>3. w.tree.nodes[j].state # NoState
      BY <2>1, <3>1, <3>2 DEF Settled
    <3>4. QED
      BY <3>1, <3>3
  <2>5. QED
    BY <2>3, <2>4
<1>14. QED
  BY <1>2, <1>7, <1>10, <1>11, <1>12, <1>13 DEF Working, Good

\* One step of an allocation, whichever case it is, keeps the tree a tree.
LEMMA MakeNextKeeps ==
  ASSUME PlanTreeAssumption, NEW t \in TreeType, NEW top, NEW w \in Working(t, top), NEW tasks \in Tasks
  PROVE  MakeNext(w, tasks) \in Working(t, top)
<1> DEFINE u == MakeNext(w, tasks)
<1>1. w \in Works /\ (w.todo # << >> => w.tree.nodes[w.todo[1][1]].active # "Free")
  BY DEF Working, Works, ActiveIn
<1>2. /\ u \in Works
      /\ \/ u = w
         \/ u = [w EXCEPT !.room = FALSE]
         \/ \E n \in Insts : w.tree.nodes[n].active = "Free" /\ Makes(w, tasks, n, u)
  BY <1>1, MakeNextDoes
<1> SUFFICES u \in Working(t, top)
  OBVIOUS
<1> HIDE DEF u
<1>3. CASE u = [w EXCEPT !.room = FALSE]
  <2>1. u.tree = w.tree /\ u.todo = w.todo
    BY <1>1, <1>3 DEF Works
  <2>2. /\ Good(u.tree, top) /\ Extends(t, u.tree) /\ Settled(u.tree.nodes)
        /\ \A k \in DOMAIN u.todo : /\ u.todo[k][1] \in ActiveIn(u.tree.nodes)
                                    /\ u.tree.nodes[u.todo[k][1]].state # NoState
    BY <2>1 DEF Working
  <2>3. QED
    BY <1>2, <2>2 DEF Working
<1>4. CASE \E n \in Insts : w.tree.nodes[n].active = "Free" /\ Makes(w, tasks, n, u)
  <2>1. PICK n \in Insts : w.tree.nodes[n].active = "Free" /\ Makes(w, tasks, n, u)
    BY <1>4
  <2>2. QED
    BY <1>2, <2>1, MakesKeeps
<1>5. QED
  BY <1>2, <1>3, <1>4

Begun(t, i) ==
  [tree |-> t, made |-> << >>, room |-> TRUE,
   todo |-> [j \in DOMAIN StatePlans[t.nodes[i].state] |-> <<i, StatePlans[t.nodes[i].state][j]>>]]

\* The allocation of plan i, step by step.
Allocates(t, top, i, tasks, f) ==
  /\ f \in [0..(NumInsts + 1) -> Working(t, top)]
  /\ f[0] = Begun(t, i)
  /\ \A k \in 1..(NumInsts + 1) : f[k] = MakeNext(f[k - 1], tasks)
  /\ Allocate(t, i, tasks) = f[NumInsts + 1]

\* getPlansForState (PlanSelector.cpp:208) adds plans below plan i, whose state and
\* task stay, and takes none away, however many steps it needs.
LEMMA AllocateDoes ==
  ASSUME PlanTreeAssumption, NEW top, NEW t, Good(t, top), Settled(t.nodes),
         NEW i \in ActiveIn(t.nodes), t.nodes[i].state \in States, NEW tasks \in Tasks
  PROVE  \E f : Allocates(t, top, i, tasks, f)
<1> DEFINE W == Working(t, top)
           n == NumInsts + 1
           c == Begun(t, i)
           Step(w) == MakeNext(w, tasks)
           steps == [k \in 1..n |-> [w \in W |-> Step(w)]]
           g == CHOOSE h : h = [k \in 0..n |-> IF k = 0 THEN c ELSE Step(h[k - 1])]
<1>1. n \in Nat /\ t \in TreeType /\ i \in Insts
  BY DEF PlanTreeAssumption, Good, ActiveIn
<1>2. \A w \in W : Step(w) \in W
  BY <1>1, MakeNextKeeps
<1>3. c \in W
  <2> DEFINE s == t.nodes[i].state
             kids == [j \in DOMAIN StatePlans[s] |-> <<i, StatePlans[s][j]>>]
  <2>1. kids \in Seq(Insts \X Types)
    <3>1. kids = KidsOf(i, s)
      BY DEF KidsOf, PlanTreeAssumption
    <3> HIDE DEF kids, s
    <3>2. QED
      BY <1>1, <3>1, KidsOfType DEF s
  <2>2. \A k \in DOMAIN kids : kids[k][1] = i
    OBVIOUS
  <2>3. c = [tree |-> t, made |-> << >>, room |-> TRUE, todo |-> kids]
    BY DEF Begun
  <2> HIDE DEF kids
  <2>4. c \in Works
    BY <1>1, <2>1, <2>3 DEF Works
  <2>5. Extends(t, t)
    BY DEF Extends, SameData, Nodes
  <2>6. t.nodes[i].state # NoState
    BY DEF PlanTreeAssumption
  <2>7. QED
    BY <2>2, <2>3, <2>4, <2>5, <2>6 DEF Working
<1>4. Allocate(t, i, tasks) = g[n]
  BY DEF Allocate, Begun
<1> HIDE DEF n, Step, c, W
<1>5. steps \in StepsOn(W, n)
  BY <1>2 DEF StepsOn
<1> HIDE DEF steps
<1>6. PICK f : StaysIn(f, W, n) /\ Unfolds(f, c, steps, n)
  BY <1>1, <1>3, <1>5, IntervalRecursion
<1>7. f \in [0..n -> W] /\ f[0] = c
  BY <1>6 DEF StaysIn, Unfolds
<1>8. ASSUME NEW k \in 1..n PROVE f[k] = Step(f[k - 1])
  <2>1. f[k - 1] \in W
    BY <1>1, <1>7
  <2>2. f[k] = steps[k][f[k - 1]]
    BY <1>6 DEF Unfolds
  <2>3. QED
    BY <2>1, <2>2 DEF steps
<1>9. f = [k \in 0..n |-> IF k = 0 THEN c ELSE Step(f[k - 1])]
  BY <1>1, <1>7, <1>8
<1>10. g = [k \in 0..n |-> IF k = 0 THEN c ELSE Step(g[k - 1])]
  BY <1>9
<1> HIDE DEF g
<1>11. SameSteps(f, g, n)
  BY <1>1, <1>7, <1>8, <1>10 DEF SameSteps
<1>12. f[n] = g[n]
  BY <1>1, <1>11, IntervalUnique DEF SameValues
<1>13. Allocates(t, top, i, tasks, f)
  BY <1>4, <1>7, <1>8, <1>12 DEF Allocates, n, W, c, Step
<1>14. QED
  BY <1>13

-------------------------------------------------------------------------------
(* The children an allocation makes *)

\* The plans of the state plan j is in.
PlansOf(nodes, j) == IF nodes[j].state = NoState THEN << >> ELSE StatePlans[nodes[j].state]

\* The plans that an allocation of plan i is to give children: i, unless it is the
\* root, and the plans it makes.
Growing(t, top, i, w) ==
  {j \in ActiveIn(w.tree.nodes) : t.nodes[j].active = "Free"} \cup ({i} \ {top})

\* What plan j still lacks comes as the entries a + 1, a + 2, ... of the list.
InTurn(w, j, a) ==
  LET got == w.tree.nodes[j].children
      all == PlansOf(w.tree.nodes, j)
      left == Len(all) - Len(got)
  IN  /\ left \in Nat /\ a + left <= Len(w.todo)
      /\ \A k \in 1..Len(got) : w.tree.nodes[got[k]].type = all[k]
      /\ \A l \in 1..left : w.todo[a + l] = <<j, all[Len(got) + l]>>
      /\ \A k \in 1..Len(w.todo) : w.todo[k][1] = j => a < k /\ k <= a + left

Pending(t, top, i, w) ==
  /\ \A j \in Growing(t, top, i, w) : \E a \in Nat : InTurn(w, j, a)
  /\ \A k \in 1..Len(w.todo) : w.todo[k][1] \in Growing(t, top, i, w) \cup {i}
  /\ \A j \in ActiveIn(t.nodes) \ {i} : w.tree.nodes[j].children = t.nodes[j].children

\* A step of an allocation: n becomes the child of parent for plan p, in state s.
Adds(w, u, n, p, parent, s) ==
  /\ w.todo \in Seq(Insts \X Types) /\ Len(w.todo) >= 1 /\ w.todo[1] = <<parent, p>>
  /\ n # parent /\ n \notin ActiveIn(w.tree.nodes)
  /\ ActiveIn(u.tree.nodes) = ActiveIn(w.tree.nodes) \cup {n}
  /\ u.tree.nodes[n].type = p /\ u.tree.nodes[n].state = s
  /\ u.tree.nodes[n].children = << >>
  /\ u.tree.nodes[parent].children = Append(w.tree.nodes[parent].children, n)
  /\ SameData(w.tree.nodes, u.tree.nodes, parent)
  /\ \A j \in Insts \ {parent, n} : u.tree.nodes[j] = w.tree.nodes[j]
  /\ u.todo = KidsOf(n, s) \o Tail(w.todo)

\* A plan that is made is the first of the list, and its own plans join the list.
LEMMA MakesAdds ==
  ASSUME PlanTreeAssumption, NEW t \in TreeType, NEW top, NEW w \in Working(t, top), NEW tasks \in Tasks,
         NEW n \in Insts, w.tree.nodes[n].active = "Free", NEW u \in Works,
         Makes(w, tasks, n, u)
  PROVE  \E p \in Types, parent \in ActiveIn(w.tree.nodes), s \in States \cup {NoState} :
           Adds(w, u, n, p, parent, s)
<1> DEFINE p == w.todo[1][2]
           parent == w.todo[1][1]
           s == StartOf(p, tasks)
<1>1. /\ Good(w.tree, top) /\ w \in Works
      /\ \A k \in DOMAIN w.todo : w.todo[k][1] \in ActiveIn(w.tree.nodes)
  BY DEF Working
<1>2. w.todo \in Seq(Insts \X Types) /\ w.todo # << >> /\ w.tree.nodes \in Nodes
      /\ Consistent(w.tree.nodes, top)
  BY <1>1 DEF Works, Makes, Good, TreeType
<1>3. /\ Len(w.todo) >= 1 /\ w.todo[1] = <<parent, p>> /\ p \in Types
      /\ parent \in ActiveIn(w.tree.nodes) /\ parent \in Insts
  BY <1>1, <1>2 DEF ActiveIn
<1>4. s \in States \cup {NoState}
  BY <1>3 DEF StartOf, Tasks, Types
<1>5. /\ Grown(w.tree.nodes, parent, n, u.tree.nodes)
      /\ SameData(w.tree.nodes, u.tree.nodes, parent)
      /\ u.tree.nodes[n].type = p /\ u.tree.nodes[n].state = s
      /\ u.todo = KidsOf(n, s) \o Tail(w.todo)
  BY Zenon DEF Makes
<1> HIDE DEF p, parent, s
<1>6. ActiveIn(u.tree.nodes) = ActiveIn(w.tree.nodes) \cup {n}
  BY <1>2, <1>3, <1>5, GrowKeeps
<1>7. n # parent /\ n \notin ActiveIn(w.tree.nodes)
  BY <1>3 DEF ActiveIn
<1>8. /\ u.tree.nodes[n].children = << >>
      /\ u.tree.nodes[parent].children = Append(w.tree.nodes[parent].children, n)
      /\ \A j \in Insts \ {parent, n} : u.tree.nodes[j] = w.tree.nodes[j]
  BY <1>5 DEF Grown
<1>9. Adds(w, u, n, p, parent, s)
  BY <1>2, <1>3, <1>5, <1>6, <1>7, <1>8 DEF Adds
<1>10. QED
  BY <1>3, <1>4, <1>9

\* The entries of the list after a step.
LEMMA ListAfter ==
  ASSUME NEW X, NEW kids \in Seq(X), NEW todo \in Seq(X), Len(todo) >= 1,
         NEW after, after = kids \o Tail(todo)
  PROVE  /\ Len(after) = Len(kids) + Len(todo) - 1
         /\ \A k \in 1..Len(kids) : after[k] = kids[k]
         /\ \A k \in (Len(kids) + 1)..Len(after) : /\ k - Len(kids) + 1 \in 2..Len(todo)
                                                   /\ after[k] = todo[k - Len(kids) + 1]
<1>1. Tail(todo) \in Seq(X) /\ Len(Tail(todo)) = Len(todo) - 1
      /\ \A k \in 1..(Len(todo) - 1) : Tail(todo)[k] = todo[k + 1]
  OBVIOUS
<1> DEFINE m == Len(kids)
           rest == Tail(todo)
<1>2. m \in Nat /\ rest \in Seq(X)
  BY <1>1
<1>3. Len(after) = m + Len(rest) /\ \A k \in 1..Len(after) :
        after[k] = IF k <= m THEN kids[k] ELSE rest[k - m]
  BY <1>2
<1> HIDE DEF rest
<1>4. ASSUME NEW k \in (m + 1)..Len(after)
      PROVE  k - m + 1 \in 2..Len(todo) /\ after[k] = todo[k - m + 1]
  <2>1. k - m \in 1..(Len(todo) - 1) /\ k \in 1..Len(after) /\ ~ (k <= m)
    BY <1>1, <1>2, <1>3 DEF rest
  <2>2. after[k] = rest[k - m]
    BY <1>3, <2>1
  <2>3. QED
    BY <1>1, <2>1, <2>2 DEF rest
<1>5. QED
  BY <1>1, <1>2, <1>3, <1>4 DEF rest

\* The children to be made of a plan are the plans of its state, in their order.
LEMMA KidsAre ==
  ASSUME PlanTreeAssumption, NEW n \in Insts, NEW s \in States \cup {NoState},
         NEW nodes, nodes[n].state = s
  PROVE  /\ PlansOf(nodes, n) \in Seq(Types) /\ Len(KidsOf(n, s)) = Len(PlansOf(nodes, n))
         /\ KidsOf(n, s) \in Seq(Insts \X Types)
         /\ \A l \in 1..Len(KidsOf(n, s)) : KidsOf(n, s)[l] = <<n, PlansOf(nodes, n)[l]>>
<1>1. CASE s = NoState
  BY <1>1 DEF KidsOf, PlansOf
<1>2. CASE s # NoState
  <2> DEFINE all == StatePlans[s]
             kids == [k \in 1..Len(all) |-> <<n, all[k]>>]
  <2>1. all \in Seq(Types) /\ PlansOf(nodes, n) = all
    BY <1>2 DEF PlansOf, PlanTreeAssumption
  <2>2. KidsOf(n, s) = kids
    BY <1>2, <2>1 DEF KidsOf
  <2> HIDE DEF all
  <2>3. kids \in Seq(Insts \X Types) /\ Len(kids) = Len(all)
        /\ \A l \in 1..Len(kids) : kids[l] = <<n, all[l]>>
    BY <2>1
  <2>4. QED
    BY <2>1, <2>2, <2>3
<1>3. QED
  BY <1>1, <1>2

\* The plans of a state are a sequence.
LEMMA PlansOfType ==
  ASSUME PlanTreeAssumption, NEW nodes \in Nodes, NEW j \in Insts
  PROVE  PlansOf(nodes, j) \in Seq(Types) /\ Len(PlansOf(nodes, j)) \in Nat
<1>1. nodes[j].state \in States \cup {NoState}
  BY DEF Nodes, Node
<1>2. PlansOf(nodes, j) \in Seq(Types)
  BY <1>1 DEF PlansOf, PlanTreeAssumption
<1>3. QED
  BY <1>2

\* A step makes the next child of the plan whose turn it is, and leaves to every
\* other plan what it lacks.
LEMMA PendingStep ==
  ASSUME PlanTreeAssumption, NEW t \in TreeType, NEW top, NEW i \in ActiveIn(t.nodes),
         NEW w \in Working(t, top), Pending(t, top, i, w),
         NEW n \in Insts, w.tree.nodes[n].active = "Free", NEW u \in Working(t, top),
         NEW p \in Types, NEW parent \in ActiveIn(w.tree.nodes), NEW s \in States \cup {NoState},
         Adds(w, u, n, p, parent, s)
  PROVE  Pending(t, top, i, u)
<1> DEFINE G == Growing(t, top, i, w)
           kids == KidsOf(n, s)
           m == Len(kids)
           N == w.tree.nodes
           M == u.tree.nodes
<1>1. /\ w.todo \in Seq(Insts \X Types) /\ Len(w.todo) >= 1 /\ w.todo[1] = <<parent, p>>
      /\ n # parent /\ n \notin ActiveIn(N) /\ ActiveIn(M) = ActiveIn(N) \cup {n}
      /\ M[n].type = p /\ M[n].state = s /\ M[n].children = << >>
      /\ M[parent].children = Append(N[parent].children, n)
      /\ \A j \in Insts \ {parent, n} : M[j] = N[j]
      /\ u.todo = kids \o Tail(w.todo)
  BY DEF Adds
<1>2. M[parent].type = N[parent].type /\ M[parent].state = N[parent].state
  BY DEF Adds, SameData
<1>3. /\ N \in Nodes /\ M \in Nodes /\ Consistent(N, top) /\ Extends(t, w.tree)
      /\ u.todo \in Seq(Insts \X Types)
      /\ \A k \in 1..Len(w.todo) : w.todo[k][1] \in ActiveIn(N)
  BY DEF Working, Good, TreeType, Works
<1>4. parent \in Insts /\ i \in Insts /\ i \in ActiveIn(N) /\ parent \in ActiveIn(N)
  BY <1>3 DEF ActiveIn, Extends
<1>5. /\ PlansOf(M, n) \in Seq(Types) /\ m = Len(PlansOf(M, n)) /\ m \in Nat
      /\ kids \in Seq(Insts \X Types)
      /\ \A l \in 1..m : kids[l] = <<n, PlansOf(M, n)[l]>>
  <2> HIDE DEF M, N
  <2>1. M[n].state = s
    BY <1>1
  <2>2. /\ PlansOf(M, n) \in Seq(Types) /\ Len(KidsOf(n, s)) = Len(PlansOf(M, n))
        /\ KidsOf(n, s) \in Seq(Insts \X Types)
        /\ \A l \in 1..Len(KidsOf(n, s)) : KidsOf(n, s)[l] = <<n, PlansOf(M, n)[l]>>
    BY <2>1, KidsAre
  <2>3. Len(PlansOf(M, n)) \in Nat
    BY <2>2
  <2>4. QED
    BY <2>2, <2>3
<1> HIDE DEF kids, N, M
<1>6. /\ Len(u.todo) = m + Len(w.todo) - 1
      /\ \A k \in 1..m : u.todo[k] = kids[k]
      /\ \A k \in (m + 1)..Len(u.todo) : k - m + 1 \in 2..Len(w.todo) /\ u.todo[k] = w.todo[k - m + 1]
  <2> DEFINE X == Insts \X Types
  <2>1. kids \in Seq(X) /\ w.todo \in Seq(X) /\ Len(w.todo) >= 1 /\ u.todo = kids \o Tail(w.todo)
    BY <1>1, <1>5
  <2> HIDE DEF X
  <2>2. QED
    BY <2>1, ListAfter
<1> HIDE DEF m
<1>7. ASSUME NEW k \in 1..m PROVE u.todo[k][1] = n
  <2>1. u.todo[k] = <<n, PlansOf(M, n)[k]>>
    BY <1>5, <1>6
  <2>2. QED
    BY <2>1
<1>8. \A j \in ActiveIn(N) : PlansOf(M, j) = PlansOf(N, j) /\ j \in Insts /\ j # n
                             /\ PlansOf(N, j) \in Seq(Types) /\ Len(PlansOf(N, j)) \in Nat
                             /\ N[j].children \in Seq(Insts)
  <2> SUFFICES ASSUME NEW j \in ActiveIn(N)
               PROVE  PlansOf(M, j) = PlansOf(N, j) /\ j \in Insts /\ j # n
                      /\ PlansOf(N, j) \in Seq(Types) /\ Len(PlansOf(N, j)) \in Nat
                      /\ N[j].children \in Seq(Insts)
    OBVIOUS
  <2>1. j \in Insts /\ j # n
    BY <1>1 DEF ActiveIn
  <2>2. M[j].state = N[j].state
    BY <1>1, <1>2, <2>1
  <2>3. QED
    BY <1>3, <2>1, <2>2, PlansOfType DEF PlansOf, Nodes, Node
<1>9. ASSUME NEW j \in ActiveIn(N), NEW k \in 1..Len(N[j].children)
      PROVE  M[N[j].children[k]].type = N[N[j].children[k]].type
  <2>1. N[j].children[k] \in Kids(N, j)
    BY <1>8 DEF Kids, ToSet
  <2>2. N[j].children[k] \in ActiveIn(N)
    BY <1>3, <2>1 DEF Consistent, OneParent
  <2>3. N[j].children[k] \in Insts /\ N[j].children[k] # n
    BY <1>8, <2>2
  <2>4. QED
    BY <1>1, <1>2, <2>3
<1>10. /\ G \subseteq ActiveIn(N) /\ Growing(t, top, i, u) = G \cup {n}
      /\ \A j \in G : \E a \in Nat : InTurn(w, j, a)
      /\ \A k \in 1..Len(w.todo) : w.todo[k][1] \in G \cup {i}
  <2>1. t.nodes[n].active = "Free"
    BY <1>3 DEF Extends, N
  <2>2. Growing(t, top, i, u) = G \cup {n}
    BY <1>1, <2>1 DEF Growing, N, M
  <2>3. G \subseteq ActiveIn(N)
    BY <1>4 DEF Growing, N
  <2>4. QED
    BY <2>2, <2>3 DEF Pending
<1>11. \A k \in 1..Len(w.todo) : w.todo[k][1] \in G \cup {i}
  BY DEF Pending
<1> HIDE DEF G
<1>12. \E a \in Nat : InTurn(u, n, a)
  <2>1. ASSUME NEW k \in 1..Len(u.todo), u.todo[k][1] = n PROVE k <= m
    <3> SUFFICES ASSUME k > m PROVE FALSE
      BY <1>5, <1>6
    <3>1. k \in (m + 1)..Len(u.todo)
      BY <1>5, <1>6
    <3>2. u.todo[k] = w.todo[k - m + 1] /\ k - m + 1 \in 1..Len(w.todo)
      BY <1>6, <3>1
    <3>3. n \in ActiveIn(N)
      BY <1>3, <2>1, <3>2
    <3>4. QED
      BY <1>1, <3>3
  <2>2. \A l \in 1..m : u.todo[0 + l] = <<n, PlansOf(M, n)[0 + l]>>
    BY <1>5, <1>6
  <2>3. InTurn(u, n, 0)
    <3>1. Len(M[n].children) = 0 /\ Len(u.todo) \in Nat
      BY <1>1, <1>3
    <3> DEFINE left == Len(PlansOf(M, n)) - Len(M[n].children)
    <3>2. left = m /\ left \in Nat /\ 0 + left <= Len(u.todo)
      BY <1>1, <1>5, <1>6, <3>1
    <3>3. \A l \in 1..left : u.todo[0 + l] = <<n, PlansOf(M, n)[Len(M[n].children) + l]>>
      BY <1>5, <2>2, <3>1, <3>2
    <3>4. \A k \in 1..Len(u.todo) : u.todo[k][1] = n => 0 < k /\ k <= 0 + left
      BY <1>5, <2>1, <3>1, <3>2
    <3>5. \A k \in 1..Len(M[n].children) : M[M[n].children[k]].type = PlansOf(M, n)[k]
      BY <3>1
    <3>6. QED
      BY <3>2, <3>3, <3>4, <3>5 DEF InTurn, M
  <2>4. QED
    BY <2>3
<1>13. ASSUME parent \in G PROVE \E a \in Nat : InTurn(u, parent, a)
  <2> DEFINE got == N[parent].children
             all == PlansOf(N, parent)
             left == Len(all) - Len(got)
             now == M[parent].children
  <2>1. PICK a \in Nat : InTurn(w, parent, a)
    BY <1>10, <1>13
  <2>2. /\ left \in Nat /\ a + left <= Len(w.todo)
        /\ \A k \in 1..Len(got) : N[got[k]].type = all[k]
        /\ \A l \in 1..left : w.todo[a + l] = <<parent, all[Len(got) + l]>>
        /\ \A k \in 1..Len(w.todo) : w.todo[k][1] = parent => a < k /\ k <= a + left
    BY <2>1 DEF InTurn, N
  <2>3. got \in Seq(Insts) /\ all \in Seq(Types) /\ Len(all) \in Nat /\ PlansOf(M, parent) = all
    BY <1>4, <1>8
  <2>4. now = Append(got, n)
    BY <1>1
  <2>5. \A k \in 1..Len(got) : M[got[k]].type = N[got[k]].type
    BY <1>4, <1>9
  <2> HIDE DEF all, got, now
  <2>6. Len(got) \in Nat /\ left \in Nat
    BY <2>2, <2>3
  <2>7. a = 0 /\ left >= 1
    <3>1. a < 1 /\ 1 <= a + left
      BY <1>1, <2>2
    <3>2. QED
      BY <2>6, <3>1
  <2>8. p = all[Len(got) + 1]
    BY <1>1, <2>2, <2>7
  <2>9. Len(now) = Len(got) + 1 /\ now[Len(got) + 1] = n /\ \A k \in 1..Len(got) : now[k] = got[k]
    BY <2>3, <2>4
  <2> DEFINE less == Len(all) - Len(now)
  <2>10. less = left - 1 /\ less \in Nat /\ m + less <= Len(u.todo)
    BY <1>5, <1>6, <2>2, <2>3, <2>6, <2>7, <2>9
  <2>11. \A k \in 1..Len(now) : M[now[k]].type = all[k]
    <3> SUFFICES ASSUME NEW k \in 1..Len(now) PROVE M[now[k]].type = all[k]
      OBVIOUS
    <3>1. CASE k \in 1..Len(got)
      BY <2>2, <2>5, <2>9, <3>1
    <3>2. CASE k = Len(got) + 1
      BY <1>1, <2>8, <2>9, <3>2
    <3>3. QED
      BY <2>6, <2>9, <3>1, <3>2
  <2>12. ASSUME NEW l \in 1..less PROVE u.todo[m + l] = <<parent, all[Len(now) + l]>>
    <3>1. m + l \in (m + 1)..Len(u.todo) /\ m + l - m + 1 = l + 1 /\ l + 1 \in 1..left
          /\ a + (l + 1) = l + 1 /\ Len(got) + (l + 1) = Len(now) + l
      BY <1>5, <1>6, <2>6, <2>7, <2>9, <2>10
    <3>2. u.todo[m + l] = w.todo[l + 1]
      <4> DEFINE k == m + l
      <4>1. k \in (m + 1)..Len(u.todo) /\ k - m + 1 = l + 1
        BY <1>5, <2>10, <3>1
      <4> HIDE DEF k
      <4>2. u.todo[k] = w.todo[k - m + 1]
        BY <1>6, <4>1
      <4>3. QED
        BY <4>1, <4>2 DEF k
    <3>3. w.todo[l + 1] = <<parent, all[Len(now) + l]>>
      BY <2>2, <3>1
    <3>4. QED
      BY <3>2, <3>3
  <2>13. ASSUME NEW k \in 1..Len(u.todo), u.todo[k][1] = parent PROVE m < k /\ k <= m + less
    <3>1. CASE k \in 1..m
      <4>1. u.todo[k][1] = n
        BY <1>7, <3>1
      <4>2. QED
        BY <1>1, <2>13, <4>1
    <3>2. CASE k \in (m + 1)..Len(u.todo)
      <4>1. u.todo[k] = w.todo[k - m + 1] /\ k - m + 1 \in 1..Len(w.todo)
        BY <1>6, <3>2
      <4>2. k - m + 1 <= a + left
        BY <2>2, <2>13, <4>1
      <4>3. k \in Nat /\ m < k
        BY <1>3, <1>5, <3>2
      <4>4. k - m + 1 <= left
        BY <2>7, <4>2, <4>3
      <4>5. QED
        BY <1>5, <2>6, <2>10, <4>3, <4>4
    <3>3. QED
      BY <1>5, <1>6, <3>1, <3>2
  <2>14. InTurn(u, parent, m)
    BY <2>3, <2>10, <2>11, <2>12, <2>13 DEF InTurn, M, now
  <2>15. QED
    BY <1>5, <2>14
<1>14. ASSUME NEW j \in G, j # parent PROVE \E a \in Nat : InTurn(u, j, a)
  <2> DEFINE got == N[j].children
             all == PlansOf(N, j)
             left == Len(all) - Len(got)
  <2>1. PICK a \in Nat : InTurn(w, j, a)
    BY <1>10
  <2>2. /\ left \in Nat /\ a + left <= Len(w.todo)
        /\ \A k \in 1..Len(got) : N[got[k]].type = all[k]
        /\ \A l \in 1..left : w.todo[a + l] = <<j, all[Len(got) + l]>>
        /\ \A k \in 1..Len(w.todo) : w.todo[k][1] = j => a < k /\ k <= a + left
    BY <2>1 DEF InTurn, N
  <2>3. got \in Seq(Insts) /\ all \in Seq(Types) /\ Len(all) \in Nat /\ PlansOf(M, j) = all
        /\ j # n /\ j \in Insts
    BY <1>8, <1>10
  <2>4. M[j].children = got
    BY <1>1, <1>14, <2>3
  <2>5. \A k \in 1..Len(got) : M[got[k]].type = all[k]
    BY <1>9, <1>10, <2>2
  <2> HIDE DEF all, got
  <2>6. CASE left = 0
    <3>1. ASSUME NEW k \in 1..Len(w.todo) PROVE w.todo[k][1] # j
      <4>1. w.todo[k][1] = j => a < k /\ k <= a + 0
        BY <2>2, <2>6
      <4>2. QED
        BY <4>1
    <3>2. ASSUME NEW k \in 1..Len(u.todo) PROVE u.todo[k][1] # j
      <4>1. CASE k \in 1..m
        BY <1>7, <2>3, <4>1
      <4>2. CASE k \in (m + 1)..Len(u.todo)
        <5>1. u.todo[k] = w.todo[k - m + 1] /\ k - m + 1 \in 1..Len(w.todo)
          BY <1>6, <4>2
        <5>2. QED
          BY <3>1, <5>1
      <4>3. QED
        BY <1>5, <1>6, <4>1, <4>2
    <3>3. Len(u.todo) \in Nat
      BY <1>3
    <3>4. InTurn(u, j, 0)
      BY <2>3, <2>4, <2>5, <2>6, <3>2, <3>3 DEF InTurn, M
    <3>5. QED
      BY <3>4
  <2>7. CASE left >= 1
    <3> DEFINE b == a - 1 + m
    <3>1. a >= 1
      <4> SUFFICES ASSUME a = 0 PROVE FALSE
        OBVIOUS
      <4>1. w.todo[1] = <<j, all[Len(got) + 1]>>
        BY <2>2, <2>7
      <4>2. QED
        BY <1>1, <1>14, <4>1
    <3>2. b \in Nat /\ b + left <= Len(u.todo)
      BY <1>5, <1>6, <2>2, <3>1
    <3>3. ASSUME NEW l \in 1..left PROVE u.todo[b + l] = <<j, all[Len(got) + l]>>
      <4>1. b + l \in (m + 1)..Len(u.todo) /\ b + l - m + 1 = a + l
        <5>1. a \in Nat /\ left \in Nat /\ m \in Nat /\ Len(u.todo) \in Nat
          BY <1>3, <1>5, <2>2
        <5>2. l \in Nat /\ 1 <= l /\ l <= left /\ b = a - 1 + m /\ b + left <= Len(u.todo)
          BY <3>2, <5>1
        <5> HIDE DEF b
        <5>3. QED
          BY <3>1, <5>1, <5>2
      <4>2. u.todo[b + l] = w.todo[a + l]
        <5> DEFINE k == b + l
        <5>1. k \in (m + 1)..Len(u.todo) /\ k - m + 1 = a + l
          BY <1>5, <3>2, <4>1
        <5> HIDE DEF k
        <5>2. u.todo[k] = w.todo[k - m + 1]
          BY <1>6, <5>1
        <5>3. QED
          BY <5>1, <5>2 DEF k
      <4>3. QED
        BY <2>2, <4>2
    <3>4. ASSUME NEW k \in 1..Len(u.todo), u.todo[k][1] = j PROVE b < k /\ k <= b + left
      <4>1. CASE k \in 1..m
        BY <1>7, <2>3, <3>4, <4>1
      <4>2. CASE k \in (m + 1)..Len(u.todo)
        <5>1. u.todo[k] = w.todo[k - m + 1] /\ k - m + 1 \in 1..Len(w.todo)
          BY <1>6, <4>2
        <5>2. a < k - m + 1 /\ k - m + 1 <= a + left
          BY <2>2, <3>4, <5>1
        <5>3. QED
          BY <1>5, <2>2, <4>2, <5>2
      <4>3. QED
        BY <1>5, <1>6, <4>1, <4>2
    <3> HIDE DEF b
    <3>5. InTurn(u, j, b)
      BY <2>2, <2>3, <2>4, <2>5, <3>2, <3>3, <3>4 DEF InTurn, M
    <3>6. QED
      BY <3>2, <3>5
  <2>8. QED
    BY <2>2, <2>6, <2>7
<1>15. ASSUME NEW k \in 1..Len(u.todo) PROVE u.todo[k][1] \in Growing(t, top, i, u) \cup {i}
  <2>1. CASE k \in 1..m
    <3>1. u.todo[k][1] = n
      BY <1>7, <2>1
    <3>2. QED
      BY <1>10, <3>1
  <2>2. CASE k \in (m + 1)..Len(u.todo)
    <3> DEFINE l == k - m + 1
    <3>1. u.todo[k] = w.todo[l] /\ l \in 1..Len(w.todo)
      BY <1>6, <2>2
    <3> HIDE DEF l
    <3>2. w.todo[l][1] \in G \cup {i}
      BY <1>11, <3>1
    <3>3. QED
      BY <1>10, <3>1, <3>2
  <2>3. QED
    BY <1>5, <1>6, <2>1, <2>2
<1>16. ASSUME NEW j \in ActiveIn(t.nodes) \ {i} PROVE M[j].children = t.nodes[j].children
  <2>1. N[j].children = t.nodes[j].children
    BY DEF Pending, N
  <2>2. j \in Insts /\ j # n
    <3>1. j \in Insts /\ t.nodes[j].active = "Active"
      BY DEF ActiveIn
    <3>2. N[j].active = "Active"
      BY <1>3, <3>1 DEF Extends, N
    <3>3. QED
      BY <3>1, <3>2 DEF N
  <2>3. j # parent
    <3>1. parent \in G \cup {i}
      <4>1. w.todo[1][1] = parent /\ 1 \in 1..Len(w.todo)
        BY <1>1
      <4>2. QED
        BY <1>11, <4>1
    <3>2. j \notin G
      BY DEF G, Growing, ActiveIn
    <3>3. QED
      BY <3>1, <3>2
  <2>4. QED
    BY <1>1, <2>1, <2>2, <2>3
<1>17. QED
  BY <1>10, <1>12, <1>13, <1>14, <1>15, <1>16 DEF Pending, M

FreeIn(nodes) == {j \in Insts : nodes[j].active = "Free"}

\* An allocation that goes on after k steps has made k plans.
Lasts(w, k) == w.room /\ w.todo # << >> => Cardinality(FreeIn(w.tree.nodes)) + k <= NumInsts

\* There are NumInsts objects.
LEMMA InstsFinite ==
  PlanTreeAssumption => IsFiniteSet(Insts) /\ Cardinality(Insts) = NumInsts
BY FS_Interval DEF Insts, PlanTreeAssumption

\* A step of an allocation leaves what is to be made in order; with room left, it
\* has used one more of the free objects.
LEMMA MakeNextPending ==
  ASSUME PlanTreeAssumption, NEW t \in TreeType, NEW top, NEW i \in ActiveIn(t.nodes),
         NEW w \in Working(t, top), Pending(t, top, i, w), NEW k \in Nat, Lasts(w, k),
         NEW tasks \in Tasks
  PROVE  Pending(t, top, i, MakeNext(w, tasks)) /\ Lasts(MakeNext(w, tasks), k + 1)
<1> DEFINE u == MakeNext(w, tasks)
<1>1. u \in Working(t, top)
  BY MakeNextKeeps
<1>2. w \in Works /\ u \in Works
  BY <1>1 DEF Working
<1>3. \/ (w.todo = << >> \/ ~ w.room) /\ u = w
      \/ u = [w EXCEPT !.room = FALSE]
      \/ \E n \in Insts : w.tree.nodes[n].active = "Free" /\ Makes(w, tasks, n, u)
  <2>1. w.todo # << >> => w.tree.nodes[w.todo[1][1]].active # "Free"
    BY <1>2 DEF Working, Works, ActiveIn
  <2>2. QED
    BY <1>2, <2>1, MakeNextDoes
<1> SUFFICES Pending(t, top, i, u) /\ Lasts(u, k + 1)
  OBVIOUS
<1> HIDE DEF u
<1>4. CASE (w.todo = << >> \/ ~ w.room) /\ u = w
  BY <1>4 DEF Lasts
<1>5. CASE u = [w EXCEPT !.room = FALSE]
  <2>1. u.tree = w.tree /\ u.todo = w.todo /\ ~ u.room
    BY <1>2, <1>5 DEF Works
  <2>2. Growing(t, top, i, u) = Growing(t, top, i, w)
    BY <2>1 DEF Growing
  <2>3. ASSUME NEW j, NEW a, InTurn(w, j, a) PROVE InTurn(u, j, a)
    <3> DEFINE T == w.tree
               D == w.todo
    <3> HIDE DEF T, D
    <3>1. w.tree = T /\ w.todo = D /\ u.tree = T /\ u.todo = D
      BY <2>1 DEF T, D
    <3>2. QED
      BY <2>3, <3>1 DEF InTurn
  <2>4. QED
    BY <2>1, <2>2, <2>3 DEF Pending, Lasts
<1>6. CASE \E n \in Insts : w.tree.nodes[n].active = "Free" /\ Makes(w, tasks, n, u)
  <2>1. PICK n \in Insts : w.tree.nodes[n].active = "Free" /\ Makes(w, tasks, n, u)
    BY <1>6
  <2>2. PICK p \in Types, parent \in ActiveIn(w.tree.nodes), s \in States \cup {NoState} :
          Adds(w, u, n, p, parent, s)
    BY <1>2, <2>1, MakesAdds
  <2>3. Pending(t, top, i, u)
    BY <1>1, <2>1, <2>2, PendingStep
  <2>4. Lasts(u, k + 1)
    <3> DEFINE F == FreeIn(w.tree.nodes)
    <3>1. w.room /\ w.todo # << >>
      BY Zenon, <2>1 DEF Makes
    <3>2. n \in F /\ FreeIn(u.tree.nodes) = F \ {n}
      <4>1. \A j \in Insts \ {n} : u.tree.nodes[j].active = w.tree.nodes[j].active
        <5>1. \A j \in Insts \ {n, parent} : u.tree.nodes[j] = w.tree.nodes[j]
          BY <2>2 DEF Adds
        <5>2. parent \in ActiveIn(w.tree.nodes) /\ parent \in ActiveIn(u.tree.nodes)
          BY <2>2 DEF Adds
        <5>3. QED
          BY <5>1, <5>2 DEF ActiveIn
      <4>2. n \in ActiveIn(u.tree.nodes)
        BY <2>2 DEF Adds
      <4>3. QED
        BY <2>1, <4>1, <4>2 DEF FreeIn, ActiveIn
    <3>3. IsFiniteSet(F) /\ Cardinality(F) \in Nat
      <4>1. IsFiniteSet(Insts)
        BY InstsFinite
      <4>2. F \subseteq Insts
        BY DEF FreeIn
      <4>3. QED
        BY <4>1, <4>2, FS_Subset, FS_CardinalityType
    <3> HIDE DEF F
    <3>4. Cardinality(F \ {n}) = Cardinality(F) - 1
      BY <3>2, <3>3, FS_RemoveElement
    <3>5. Cardinality(F) + k <= NumInsts
      BY <3>1 DEF Lasts, F
    <3>6. QED
      BY <3>2, <3>3, <3>4, <3>5 DEF Lasts, PlanTreeAssumption
  <2>5. QED
    BY <2>3, <2>4
<1>7. QED
  BY <1>3, <1>4, <1>5, <1>6

\* An allocation begins with all the plans of the state to make.
LEMMA BegunPending ==
  ASSUME PlanTreeAssumption, NEW top, NEW t, Good(t, top), NEW i \in ActiveIn(t.nodes),
         t.nodes[i].state \in States, i # top => t.nodes[i].children = << >>
  PROVE  Pending(t, top, i, Begun(t, i)) /\ Lasts(Begun(t, i), 0)
<1> DEFINE all == StatePlans[t.nodes[i].state]
           todo == [j \in 1..Len(all) |-> <<i, all[j]>>]
           w == Begun(t, i)
<1>1. all \in Seq(Types) /\ PlansOf(t.nodes, i) = all /\ i \in Insts
  BY DEF PlanTreeAssumption, PlansOf, ActiveIn
<1>2. w.tree = t /\ w.todo = todo /\ w.room
  BY <1>1 DEF Begun
<1> HIDE DEF all, w
<1>3. Len(todo) = Len(all) /\ Len(all) \in Nat /\ \A k \in 1..Len(all) : todo[k] = <<i, all[k]>>
      /\ todo[k][1] = i
  BY <1>1
<1> HIDE DEF todo
<1>4. Growing(t, top, i, w) = {i} \ {top}
  BY <1>2 DEF Growing, ActiveIn
<1>5. ASSUME i # top PROVE InTurn(w, i, 0)
  <2> DEFINE got == w.tree.nodes[i].children
             left == Len(all) - Len(got)
  <2>1. got = << >> /\ Len(got) = 0 /\ left = Len(all) /\ left \in Nat /\ 0 + left <= Len(todo)
    BY <1>2, <1>3, <1>5
  <2>2. \A l \in 1..left : todo[0 + l] = <<i, all[Len(got) + l]>>
    BY <1>3, <2>1
  <2>3. \A k \in 1..Len(todo) : todo[k][1] = i => 0 < k /\ k <= 0 + left
    BY <1>3, <2>1
  <2>4. \A k \in 1..Len(got) : w.tree.nodes[got[k]].type = all[k]
    BY <2>1
  <2>5. PlansOf(w.tree.nodes, i) = all
    BY <1>1, <1>2
  <2>6. QED
    BY <1>2, <2>1, <2>2, <2>3, <2>4, <2>5 DEF InTurn
<1>6. Pending(t, top, i, w)
  BY <1>2, <1>3, <1>4, <1>5 DEF Pending
<1>7. Lasts(w, 0)
  <2>1. IsFiniteSet(Insts) /\ Cardinality(Insts) = NumInsts
    BY InstsFinite
  <2>2. FreeIn(w.tree.nodes) \subseteq Insts
    BY DEF FreeIn
  <2>3. Cardinality(FreeIn(w.tree.nodes)) <= NumInsts /\ Cardinality(FreeIn(w.tree.nodes)) \in Nat
    BY <2>1, <2>2, FS_Subset, FS_CardinalityType
  <2>4. QED
    BY <2>3 DEF Lasts
<1>8. QED
  BY <1>6, <1>7 DEF w

\* An allocation for which there was room to the end has made everything: each
\* step takes one of NumInsts objects, so that NumInsts steps are enough.
LEMMA AllocationCompletes ==
  ASSUME PlanTreeAssumption, NEW top, NEW t, Good(t, top), Settled(t.nodes),
         NEW i \in ActiveIn(t.nodes), t.nodes[i].state \in States, NEW tasks \in Tasks,
         i # top => t.nodes[i].children = << >>, Allocate(t, i, tasks).room
  PROVE  LET w == Allocate(t, i, tasks)
         IN  w \in Working(t, top) /\ Pending(t, top, i, w) /\ w.todo = << >>
<1> DEFINE n == NumInsts + 1
<1>1. n \in Nat /\ t \in TreeType
  BY DEF PlanTreeAssumption, Good
<1>2. PICK f : Allocates(t, top, i, tasks, f)
  BY AllocateDoes
<1>3. /\ f \in [0..n -> Working(t, top)] /\ f[0] = Begun(t, i)
      /\ \A k \in 1..n : f[k] = MakeNext(f[k - 1], tasks)
      /\ Allocate(t, i, tasks) = f[n]
  BY <1>2 DEF Allocates
<1> HIDE DEF n
<1> DEFINE K == {k \in 0..n : Pending(t, top, i, f[k]) /\ Lasts(f[k], k)}
<1>4. 0 \in K
  BY <1>1, <1>3, BegunPending
<1>5. ASSUME NEW k \in 0..(n - 1), k \in K PROVE k + 1 \in K
  <2>1. k \in Nat /\ k \in 0..n /\ k + 1 \in 1..n /\ k + 1 - 1 = k
    BY <1>1
  <2>2. f[k] \in Working(t, top) /\ f[k + 1] = MakeNext(f[k], tasks)
    BY <1>3, <2>1
  <2>3. Pending(t, top, i, f[k]) /\ Lasts(f[k], k)
    BY <1>5
  <2> DEFINE w == f[k]
  <2>4. w \in Working(t, top) /\ Pending(t, top, i, w) /\ Lasts(w, k)
    BY <2>2, <2>3
  <2> HIDE DEF w
  <2>5. Pending(t, top, i, MakeNext(w, tasks)) /\ Lasts(MakeNext(w, tasks), k + 1)
    BY <1>1, <2>1, <2>4, MakeNextPending
  <2>6. Pending(t, top, i, f[k + 1]) /\ Lasts(f[k + 1], k + 1)
    BY <2>2, <2>5 DEF w
  <2>7. QED
    BY <2>1, <2>6
<1> HIDE DEF K
<1>6. 0..n \subseteq K
  BY <1>1, <1>4, <1>5, IntervalInduction
<1>7. n \in 0..n
  BY <1>1
<1>8. Pending(t, top, i, f[n]) /\ Lasts(f[n], n) /\ f[n] \in Working(t, top)
  BY <1>3, <1>6, <1>7 DEF K
<1>9. f[n].todo = << >>
  <2> SUFFICES ASSUME f[n].todo # << >> PROVE FALSE
    OBVIOUS
  <2>1. Cardinality(FreeIn(f[n].tree.nodes)) + n <= NumInsts
    BY <1>3, <1>8 DEF Lasts
  <2>2. Cardinality(FreeIn(f[n].tree.nodes)) \in Nat
    <3>1. IsFiniteSet(Insts)
      BY InstsFinite
    <3>2. FreeIn(f[n].tree.nodes) \subseteq Insts
      BY DEF FreeIn
    <3>3. QED
      BY <3>1, <3>2, FS_Subset, FS_CardinalityType
  <2>3. QED
    BY <2>1, <2>2 DEF n, PlanTreeAssumption
<1>10. QED
  BY <1>3, <1>8, <1>9

-------------------------------------------------------------------------------
(* The sweep *)

\* Without leaves a sequence, the same one when there is nothing to leave out.
LEMMA WithoutDoes ==
  ASSUME NEW s \in Seq(Insts), NEW S
  PROVE  Without(s, S) \in Seq(Insts) /\ (ToSet(s) \cap S = {} => Without(s, S) = s)
<1> DEFINE n == Len(s)
           Q == Seq(Insts)
           Step(q, k) == IF s[k] \in S THEN q ELSE Append(q, s[k])
           steps == [k \in 1..n |-> [q \in Q |-> Step(q, k)]]
           g == CHOOSE h : h = [k \in 0..n |-> IF k = 0 THEN << >>
                                               ELSE IF s[k] \in S THEN h[k - 1]
                                               ELSE Append(h[k - 1], s[k])]
<1>1. n \in Nat /\ << >> \in Q /\ \A k \in 1..n : s[k] \in Insts
  OBVIOUS
<1>2. \A k \in 1..n : \A q \in Q : Step(q, k) \in Q
  BY <1>1
<1>3. Without(s, S) = g[n]
  BY DEF Without
<1>4. steps \in StepsOn(Q, n)
  BY <1>2 DEF StepsOn
<1> HIDE DEF n, steps, Q
<1>5. PICK f : StaysIn(f, Q, n) /\ Unfolds(f, << >>, steps, n)
  BY <1>1, <1>4, IntervalRecursion
<1>6. f \in [0..n -> Q] /\ f[0] = << >>
  BY <1>5 DEF StaysIn, Unfolds
<1>7. ASSUME NEW k \in 1..n PROVE f[k - 1] \in Q /\ f[k] = Step(f[k - 1], k)
  <2>1. f[k - 1] \in Q
    BY <1>1, <1>6
  <2>2. f[k] = steps[k][f[k - 1]]
    BY <1>5 DEF Unfolds
  <2> HIDE DEF Step
  <2>3. QED
    BY <2>1, <2>2 DEF steps
<1>8. f = [k \in 0..n |-> IF k = 0 THEN << >> ELSE Step(f[k - 1], k)]
  <2> HIDE DEF Step
  <2>1. QED
    BY <1>1, <1>6, <1>7
<1>9. g = [k \in 0..n |-> IF k = 0 THEN << >> ELSE Step(g[k - 1], k)]
  BY Zenon, <1>8
<1> HIDE DEF g
<1>10. SameSteps(f, g, n)
  <2> HIDE DEF Step
  <2>1. QED
    BY <1>1, <1>6, <1>7, <1>9 DEF SameSteps
<1>11. f[n] = g[n]
  BY <1>1, <1>10, IntervalUnique DEF SameValues
<1>12. f[n] \in Q
  BY <1>1, <1>6
<1>13. ASSUME ToSet(s) \cap S = {} PROVE f[n] = s
  <2> DEFINE G == {k \in 0..n : Len(f[k]) = k /\ \A j \in 1..k : f[k][j] = s[j]}
  <2>1. 0 \in G
    BY <1>1, <1>6
  <2>2. ASSUME NEW k \in 0..(n - 1), k \in G PROVE k + 1 \in G
    <3>1. k + 1 \in 1..n /\ (k + 1) - 1 = k
      BY <1>1
    <3>2. s[k + 1] \notin S
      BY <1>13, <3>1 DEF ToSet, n
    <3>3. f[k] \in Seq(Insts) /\ f[k + 1] = Append(f[k], s[k + 1])
      BY <1>7, <3>1, <3>2 DEF Q
    <3>4. Len(f[k]) = k /\ \A j \in 1..k : f[k][j] = s[j]
      BY <2>2
    <3>5. Len(f[k + 1]) = k + 1
      BY <3>3, <3>4
    <3>6. ASSUME NEW j \in 1..(k + 1) PROVE f[k + 1][j] = s[j]
      <4>1. CASE j = k + 1
        BY <3>3, <3>4, <4>1
      <4>2. CASE j # k + 1
        <5>1. j \in 1..k
          BY <4>2
        <5>2. f[k + 1][j] = f[k][j]
          BY <3>3, <3>4, <5>1
        <5>3. QED
          BY <3>4, <5>1, <5>2
      <4>3. QED
        BY <4>1, <4>2
    <3>7. k + 1 \in 0..n
      BY <1>1, <3>1
    <3>8. QED
      BY <3>5, <3>6, <3>7
  <2> HIDE DEF G
  <2>3. 0..n \subseteq G
    BY <1>1, <2>1, <2>2, IntervalInduction
  <2>4. Len(f[n]) = n /\ \A j \in 1..n : f[n][j] = s[j]
    BY <1>1, <2>3 DEF G
  <2>5. QED
    BY <1>12, <2>4 DEF n, Q
<1>14. QED
  BY <1>3, <1>11, <1>12, <1>13 DEF Q

\* Whatever happens to plans that are not active, the tree stays.
LEMMA ActiveKept ==
  ASSUME NEW nodes \in Nodes, NEW top, Consistent(nodes, top), NEW after \in Nodes,
         ActiveIn(after) = ActiveIn(nodes),
         \A i \in ActiveIn(nodes) : after[i].children = nodes[i].children
                                    /\ after[i].parent = nodes[i].parent,
         \A i \in Insts : nodes[i].active = "Free" => after[i].active = "Free"
  PROVE  Consistent(after, top)
<1> DEFINE A == ActiveIn(nodes)
<1>1. \A i \in A : Kids(after, i) = Kids(nodes, i) /\ Kids(nodes, i) \subseteq A
  BY DEF Consistent, OneParent, Kids, ToSet
<1>2. A \subseteq Insts
  BY DEF ActiveIn
<1>3. OneParent(after)
  BY <1>1 DEF Consistent, OneParent
<1>4. Hangs(after, top)
  <2> SUFFICES ASSUME NEW T \in SUBSET Insts, {top} \ {None} \subseteq T, Closed(after, T)
               PROVE  A \subseteq T
    BY DEF Hangs
  <2>1. {top} \ {None} \subseteq T \cap A
    BY DEF Consistent, RootActive
  <2>2. Closed(nodes, T \cap A)
    BY <1>1 DEF Closed, Kids
  <2>3. QED
    BY <1>2, <2>1, <2>2 DEF Consistent, Hangs
<1>5. RootActive(after, top)
  BY DEF Consistent, RootActive
<1>6. QED
  BY <1>3, <1>4, <1>5 DEF Consistent

\* A deleted plan's object is a plan again, and free.
LEMMA FreeNodeType == PlanTreeAssumption => FreeNode \in Node /\ FreeNode.active = "Free"
<1> SUFFICES ASSUME PlanTreeAssumption PROVE FreeNode \in Node /\ FreeNode.active = "Free"
  OBVIOUS
<1>1. NewNode(Master, None, NoState) \in Node
  <2>1. NoFailures \in [Types -> 0..FailLimit] /\ << >> \in Seq(Insts) /\ Master \in Types
    BY DEF NoFailures, FailLimit, PlanTreeAssumption, Types
  <2>2. QED
    BY <2>1 DEF NewNode, Node, FailLimit
<1>2. QED
  BY <1>1 DEF FreeNode, Node

\* A plan with other children is a plan.
LEMMA OtherChildren ==
  ASSUME NEW n \in Node, NEW s \in Seq(Insts), NEW x, x = [n EXCEPT !.children = s]
  PROVE  x \in Node /\ x.active = n.active /\ x.type = n.type /\ (s = n.children => x = n)
<1>1. x \in Node
  BY NodeUpdates
<1>2. QED
  BY <1>1 DEF Node

\* The sweep (PlanBase.cpp:158) takes away retired plans that no behaviour's thread
\* is in, and leaves the active ones alone.
LEMMA SweepKeeps ==
  ASSUME PlanTreeAssumption, Good(Tree, root), DeletePlans
  PROVE  /\ Good(Tree', root') /\ node' \in Nodes
         /\ ActiveIn(node') = ActiveIn(node)
         /\ \A i \in ActiveIn(node) : node'[i] = node[i]
<1> DEFINE gone == {i \in Insts : IsDeleteable(i)}
<1>1. /\ node \in Nodes /\ pool \in Pools /\ Consistent(node, root) /\ PoolFits(node, pool)
  BY DEF Good, Tree, TreeType
<1>2. /\ node' = [i \in Insts |-> IF i \in gone THEN FreeNode
                                  ELSE [node[i] EXCEPT !.children = Without(@, gone)]]
      /\ root' = root /\ pool' = pool
  BY DEF DeletePlans
<1>3. \A i \in gone : IsRetired(i) /\ (IsBehaviour(i) => ~ RunningInContext(i))
  <2> SUFFICES ASSUME NEW i \in gone
               PROVE IsRetired(i) /\ (IsBehaviour(i) => ~ RunningInContext(i))
    OBVIOUS
  <2>1. {i} \subseteq Below(Tree, {i})
    <3>1. {i} \in SUBSET Insts /\ Tree.nodes \in Nodes
      BY <1>1 DEF Tree
    <3>2. QED
      BY <3>1, BelowIsLeast DEF Least
  <2>2. QED
    BY <2>1 DEF IsDeleteable
<1> HIDE DEF gone
<1>4. gone \cap ActiveIn(node) = {} /\ ActiveIn(node) \subseteq Insts
  BY <1>3 DEF ActiveIn, IsRetired
<1>5. ASSUME NEW i \in Insts \ gone
      PROVE  /\ node'[i] \in Node /\ node'[i].active = node[i].active /\ node'[i].type = node[i].type
             /\ Kids(node, i) \cap gone = {} => node'[i] = node[i]
  <2> DEFINE c == Without(node[i].children, gone)
  <2>1. node[i] \in Node /\ node[i].children \in Seq(Insts)
    BY <1>1 DEF Nodes, Node
  <2>2. c \in Seq(Insts) /\ (Kids(node, i) \cap gone = {} => c = node[i].children)
    BY <2>1, WithoutDoes DEF Kids
  <2>3. node'[i] = [node[i] EXCEPT !.children = c]
    BY <1>2
  <2> HIDE DEF c
  <2>4. QED
    BY <2>1, <2>2, <2>3, OtherChildren
<1>6. ASSUME NEW i \in gone, i \in Insts PROVE node'[i] \in Node /\ node'[i].active = "Free"
  BY <1>2, <1>6, FreeNodeType
<1>7. node' \in Nodes
  BY <1>2, <1>5, <1>6 DEF Nodes
<1>8. ActiveIn(node') = ActiveIn(node)
  BY <1>4, <1>5, <1>6 DEF ActiveIn
<1>9. ASSUME NEW i \in ActiveIn(node) PROVE node'[i] = node[i]
  <2>1. Kids(node, i) \subseteq ActiveIn(node)
    BY <1>1 DEF Consistent, OneParent
  <2>2. QED
    BY <1>4, <1>5, <2>1
<1>10. \A i \in Insts : node[i].active = "Free" => node'[i].active = "Free"
  BY <1>5, <1>6
<1>11. Consistent(node', root)
  BY <1>1, <1>7, <1>8, <1>9, <1>10, ActiveKept
<1>12. PoolFits(node', pool)
  <2> SUFFICES ASSUME NEW b \in Behaviours
               PROVE  /\ pool[b].running => /\ pool[b].context \in ActiveIn(node')
                                            /\ node'[pool[b].context].type = b
                      /\ pool[b].contextInRun # None =>
                           /\ pool[b].context # None
                           /\ node'[pool[b].contextInRun].active # "Free"
                           /\ node'[pool[b].contextInRun].type = b
    BY DEF PoolFits
  <2>1. pool[b].running => /\ pool[b].context \in ActiveIn(node')
                           /\ node'[pool[b].context].type = b
    BY <1>1, <1>8, <1>9 DEF PoolFits
  <2>2. ASSUME pool[b].contextInRun # None
        PROVE  /\ pool[b].context # None
               /\ node'[pool[b].contextInRun].active # "Free"
               /\ node'[pool[b].contextInRun].type = b
    <3> DEFINE c == pool[b].contextInRun
    <3>1. c \in Insts /\ pool[b].context # None /\ node[c].active # "Free" /\ node[c].type = b
      BY <1>1, <2>2 DEF PoolFits, Pools, BasicBehaviour
    <3>2. IsBehaviour(c) /\ RunningInContext(c)
      BY <3>1 DEF IsBehaviour, RunningInContext
    <3>3. c \notin gone
      BY <1>3, <3>2
    <3>4. QED
      BY <1>5, <3>1, <3>3
  <2>3. QED
    BY <2>1, <2>2
<1>13. QED
  BY <1>1, <1>2, <1>7, <1>8, <1>9, <1>11, <1>12 DEF Good, Tree, TreeType

-------------------------------------------------------------------------------
(* One rule's change of the tree *)

\* A plan other than the root has no children, or those of its state; it has none
\* while it waits for an allocation.
TypesOf(nodes, i) ==
  [k \in DOMAIN nodes[i].children |-> nodes[nodes[i].children[k]].type]

Suits(nodes, i) ==
  /\ nodes[i].children # << >> => TypesOf(nodes, i) = PlansOf(nodes, i)
  /\ nodes[i].allocationNeeded => nodes[i].children = << >>

Suited(nodes, top) == \A i \in ActiveIn(nodes) \ {top} : Suits(nodes, i)

\* Children stay suited where neither they nor the state change.
LEMMA SuitedKept ==
  ASSUME NEW nodes \in Nodes, NEW top, Consistent(nodes, top), Suited(nodes, top), NEW after,
         ActiveIn(after) \subseteq ActiveIn(nodes),
         \A j \in ActiveIn(nodes) : after[j].type = nodes[j].type,
         \A j \in ActiveIn(after) \ {top} :
           \/ after[j].children = << >>
           \/ /\ after[j].children = nodes[j].children /\ after[j].state = nodes[j].state
              /\ after[j].allocationNeeded => nodes[j].allocationNeeded
  PROVE  Suited(after, top)
<1> SUFFICES ASSUME NEW j \in ActiveIn(after) \ {top}, after[j].children # << >> PROVE Suits(after, j)
  BY DEF Suited, Suits
<1>1. /\ after[j].children = nodes[j].children /\ after[j].state = nodes[j].state
      /\ after[j].allocationNeeded => nodes[j].allocationNeeded
      /\ j \in ActiveIn(nodes) \ {top} /\ j \in Insts
  BY DEF ActiveIn
<1>2. Suits(nodes, j) /\ nodes[j].children \in Seq(Insts)
  BY <1>1 DEF Suited, Nodes, Node
<1>3. ASSUME NEW k \in DOMAIN nodes[j].children
      PROVE  after[nodes[j].children[k]].type = nodes[nodes[j].children[k]].type
  <2>1. nodes[j].children[k] \in Kids(nodes, j)
    BY <1>2 DEF Kids, ToSet
  <2>2. nodes[j].children[k] \in ActiveIn(nodes)
    BY <1>1, <2>1 DEF Consistent, OneParent
  <2>3. QED
    BY <2>2
<1>4. TypesOf(after, j) = TypesOf(nodes, j)
  BY <1>1, <1>3 DEF TypesOf
<1>5. PlansOf(after, j) = PlansOf(nodes, j)
  BY <1>1 DEF PlansOf
<1>6. QED
  BY <1>1, <1>2, <1>4, <1>5 DEF Suits

\* A tree that is consistent, whose plans can be allocated when they wait for it
\* and have the children of their states, and that the stack s is a path of.
Fits(t, top, s) ==
  /\ Good(t, top)
  /\ Allocatable(t.nodes, top)
  /\ Suited(t.nodes, top)
  /\ Path(t.nodes, s)

\* Plan i becomes x, in the same place.
Edited(t, i, x) == [t EXCEPT !.nodes = [@ EXCEPT ![i] = x]]

SamePlace(n, x) ==
  /\ x \in Node
  /\ x.type = n.type /\ x.active = n.active /\ x.children = n.children /\ x.parent = n.parent

\* A rule may change a plan's data at will as long as the plan, if active, keeps a
\* state for the children it has and for an allocation it waits for.
LEMMA EditFits ==
  ASSUME NEW t, NEW top, NEW s \in Seq(Frame), Fits(t, top, s), NEW i \in Insts, NEW x,
         SamePlace(t.nodes[i], x),
         x.active = "Active" /\ (x.allocationNeeded \/ x.children # << >>) => x.state # NoState,
         i = top => x.entry \in States,
         x.active = "Active" /\ i # top /\ x.children # << >> =>
           x.state = t.nodes[i].state /\ (x.allocationNeeded => t.nodes[i].allocationNeeded)
  PROVE  /\ Fits(Edited(t, i, x), top, s)
         /\ ActiveIn(Edited(t, i, x).nodes) = ActiveIn(t.nodes)
         /\ Edited(t, i, x).nodes[i] = x /\ Edited(t, i, x).pool = t.pool
         /\ \A j \in Insts \ {i} : Edited(t, i, x).nodes[j] = t.nodes[j]
<1> DEFINE u == Edited(t, i, x)
<1>1. t \in TreeType /\ t.nodes \in Nodes /\ t.pool \in Pools
  BY DEF Fits, Good, TreeType
<1>2. u = [nodes |-> [t.nodes EXCEPT ![i] = x], pool |-> t.pool]
  BY <1>1 DEF Edited, TreeType
<1>3. u.nodes = [t.nodes EXCEPT ![i] = x] /\ u.pool = t.pool /\ u.nodes \in Nodes
  BY <1>1, <1>2 DEF Nodes, SamePlace
<1>4. u \in TreeType
  BY <1>1, <1>2, <1>3 DEF TreeType
<1> HIDE DEF u
<1>5. u.nodes[i] = x /\ \A j \in Insts \ {i} : u.nodes[j] = t.nodes[j]
  BY <1>1, <1>3 DEF Nodes
<1>6. Relabels(t, u)
  BY <1>3, <1>4, <1>5 DEF Relabels, SamePlace
<1>7. Good(u, top) /\ ActiveIn(u.nodes) = ActiveIn(t.nodes)
  BY <1>6, RelabelKeeps DEF Fits
<1>8. Allocatable(u.nodes, top)
  <2>1. \A j \in ActiveIn(u.nodes) : u.nodes[j].allocationNeeded => u.nodes[j].state # NoState
    BY <1>5, <1>7 DEF Fits, Allocatable, ActiveIn, SamePlace
  <2>2. Settled(u.nodes)
    BY <1>5, <1>7 DEF Fits, Allocatable, Settled, ActiveIn, SamePlace
  <2>3. top # None => u.nodes[top].entry \in States
    <3>1. top # None => top \in Insts /\ t.nodes[top].entry \in States
      BY DEF Fits, Allocatable, Good, Consistent, RootActive, ActiveIn
    <3>2. QED
      BY <1>5, <3>1
  <2>4. QED
    BY <2>1, <2>3, <2>2 DEF Allocatable
<1>9. Path(u.nodes, s)
  BY <1>6, <1>7 DEF Fits, Path, Relabels, ActiveIn
<1>10. Suited(u.nodes, top)
  <2>1. \A j \in ActiveIn(t.nodes) : u.nodes[j].type = t.nodes[j].type
    BY <1>6 DEF Relabels, ActiveIn
  <2>2. \A j \in ActiveIn(u.nodes) \ {top} :
          \/ u.nodes[j].children = << >>
          \/ /\ u.nodes[j].children = t.nodes[j].children /\ u.nodes[j].state = t.nodes[j].state
             /\ u.nodes[j].allocationNeeded => t.nodes[j].allocationNeeded
    BY <1>5 DEF ActiveIn, SamePlace
  <2>3. QED
    BY <1>1, <1>7, <2>1, <2>2, SuitedKept DEF Fits, Good
<1>11. QED
  BY <1>3, <1>5, <1>7, <1>8, <1>9, <1>10 DEF Fits, u

\* Where a rule may drop children: at the plan it is applied to, which is the last
\* one on the stack if plans are being ticked, or at its parent.
DropsAt(nodes, s, i) ==
  s # << >> => /\ s[Len(s)].inst \in ActiveIn(nodes)
               /\ i = s[Len(s)].inst \/ i = nodes[s[Len(s)].inst].parent

\* A rule may drop the children of the plan it visits or of that plan's parent.
LEMMA DropFits ==
  ASSUME PlanTreeAssumption, NEW t, NEW top, NEW s \in Seq(Frame), Fits(t, top, s),
         NEW i \in ActiveIn(t.nodes), DropsAt(t.nodes, s, i)
  PROVE  LET d == DropChildren(t, i)
         IN  /\ Fits(d, top, s)
             /\ i \in ActiveIn(d.nodes) /\ ActiveIn(d.nodes) \subseteq ActiveIn(t.nodes)
             /\ d.nodes[i].children = << >> /\ d.nodes[i].parent = t.nodes[i].parent
             /\ \A j \in Insts : SameData(t.nodes, d.nodes, j)
             /\ \A j \in Kids(t.nodes, i) : /\ d.nodes[j].active = "Retired"
                                            /\ d.nodes[j].parent = None
<1> DEFINE G == Deactivated(t, i)
           d == DropChildren(t, i)
<1>1. Good(t, top) /\ t.nodes \in Nodes /\ Consistent(t.nodes, top) /\ i \in Insts
  BY DEF Fits, Good, TreeType, ActiveIn
<1>2. d \in TreeType /\ Dropped(t, i, G, d)
  BY <1>1, DropDoes
<1> HIDE DEF G, d
<1>3. Good(d, top) /\ ActiveIn(d.nodes) = ActiveIn(t.nodes) \ G
      /\ G \cap {i, top} = {} /\ d.nodes[i].children = << >>
  <2>1. Good(d, top)
    BY <1>1, <1>2, DropKeeps
  <2>2. ActiveIn(d.nodes) = ActiveIn(t.nodes) \ G
    BY <1>2 DEF Dropped, Prunes, ActiveIn
  <2>3. G \cap {i, top} = {}
    BY <1>1, <1>2, DropKeeps
  <2>4. d.nodes[i].children = << >>
    BY <1>1, <1>2 DEF Dropped, Prunes
  <2>5. QED
    BY <2>1, <2>2, <2>3, <2>4
<1>4. \A j \in Insts : SameData(t.nodes, d.nodes, j)
  BY <1>2 DEF Dropped
<1>5. Allocatable(d.nodes, top)
  <2>1. \A j \in ActiveIn(d.nodes) : d.nodes[j].allocationNeeded => d.nodes[j].state # NoState
    BY <1>3, <1>4 DEF Fits, Allocatable, SameData, ActiveIn
  <2>2. Settled(d.nodes)
    <3>1. \A j \in Insts : d.nodes[j].children \in {<< >>, t.nodes[j].children}
      BY <1>2 DEF Dropped, Prunes
    <3>2. QED
      BY <1>3, <1>4, <3>1 DEF Fits, Allocatable, Settled, SameData, ActiveIn
  <2>3. top # None => d.nodes[top].entry \in States
    <3>1. top # None => top \in Insts /\ t.nodes[top].entry \in States
      BY DEF Fits, Allocatable, Good, Consistent, RootActive, ActiveIn
    <3>2. QED
      BY <1>4, <3>1 DEF SameData
  <2>4. QED
    BY <2>1, <2>3, <2>2 DEF Allocatable
<1>6. Path(d.nodes, s)
  BY <1>1, <1>2, PathSurvives DEF Fits, Dropped, DropsAt
<1>7. \A j \in Kids(t.nodes, i) : d.nodes[j].active = "Retired" /\ d.nodes[j].parent = None
  BY <1>2 DEF Dropped, Prunes, Least
<1>8. i \in ActiveIn(d.nodes)
  BY <1>3
<1>9. d.nodes[i].parent = t.nodes[i].parent
  <2>1. i \notin Kids(t.nodes, i)
    BY <1>2, <1>3 DEF Dropped, Least
  <2>2. QED
    BY <1>1, <1>2, <2>1 DEF Dropped, Prunes
<1>10. Suited(d.nodes, top)
  <2>1. \A j \in Insts : d.nodes[j].children \in {<< >>, t.nodes[j].children}
    BY <1>2 DEF Dropped, Prunes
  <2>2. \A j \in ActiveIn(t.nodes) : d.nodes[j].type = t.nodes[j].type
    BY <1>4 DEF SameData, ActiveIn
  <2>3. \A j \in ActiveIn(d.nodes) \ {top} :
          \/ d.nodes[j].children = << >>
          \/ /\ d.nodes[j].children = t.nodes[j].children /\ d.nodes[j].state = t.nodes[j].state
             /\ d.nodes[j].allocationNeeded => t.nodes[j].allocationNeeded
    BY <1>4, <2>1 DEF SameData, ActiveIn
  <2>4. QED
    BY <1>1, <1>3, <2>2, <2>3, SuitedKept DEF Fits
<1>11. QED
  BY <1>3, <1>4, <1>5, <1>6, <1>7, <1>8, <1>9, <1>10 DEF Fits, d

\* An allocation leaves the plans on the stack where they are, and gives every plan
\* it reaches the children of its state.
LEMMA AllocateFits ==
  ASSUME PlanTreeAssumption, NEW t, NEW top, NEW s \in Seq(Frame), Fits(t, top, s),
         DropsAt(t.nodes, s, s[Len(s)].inst), NEW i \in ActiveIn(t.nodes),
         t.nodes[i].state \in States, NEW tasks \in Tasks,
         i # top => t.nodes[i].children = << >> /\ ~ t.nodes[i].allocationNeeded,
         Allocate(t, i, tasks).room
  PROVE  LET w == Allocate(t, i, tasks)
         IN  /\ Fits(w.tree, top, s)
             /\ i \in ActiveIn(w.tree.nodes)
<1> DEFINE w == Allocate(t, i, tasks)
<1>1. Good(t, top) /\ t.nodes \in Nodes
  BY DEF Fits, Good, TreeType
<1>2. w \in Working(t, top) /\ Pending(t, top, i, w) /\ w.todo = << >>
  BY <1>1, AllocationCompletes DEF Fits, Allocatable
<1> HIDE DEF w
<1>3. Good(w.tree, top) /\ Extends(t, w.tree) /\ Settled(w.tree.nodes)
  BY <1>2 DEF Working
<1>4. \A j \in ActiveIn(t.nodes) : /\ j \in ActiveIn(w.tree.nodes) /\ j \in Insts
                                   /\ w.tree.nodes[j].parent = t.nodes[j].parent
                                   /\ SameData(t.nodes, w.tree.nodes, j)
  BY <1>3 DEF Extends, ActiveIn
<1>5. Allocatable(w.tree.nodes, top)
  <2>1. ASSUME NEW j \in ActiveIn(w.tree.nodes), w.tree.nodes[j].allocationNeeded
        PROVE  w.tree.nodes[j].state # NoState
    <3>1. j \in Insts /\ t.nodes[j].active # "Free"
      BY <1>3, <2>1 DEF Extends, ActiveIn
    <3>2. j \in ActiveIn(t.nodes)
      BY <1>3, <2>1, <3>1 DEF Extends, ActiveIn
    <3>3. QED
      BY <1>4, <2>1, <3>2 DEF SameData, Fits, Allocatable
  <2>2. top # None => w.tree.nodes[top].entry \in States
    <3>1. top # None => top \in ActiveIn(t.nodes) /\ t.nodes[top].entry \in States
      BY DEF Fits, Allocatable, Good, Consistent, RootActive
    <3>2. QED
      BY <1>4, <3>1 DEF SameData
  <2>3. QED
    BY <1>3, <2>1, <2>2 DEF Allocatable
<1>6. Path(w.tree.nodes, s)
  <2> SUFFICES ASSUME NEW k \in 1..(Len(s) - 1)
               PROVE  /\ s[k].inst \in ActiveIn(w.tree.nodes)
                      /\ s[k + 1].inst \in ActiveIn(w.tree.nodes) =>
                           w.tree.nodes[s[k + 1].inst].parent = s[k].inst
    BY DEF Path
  <2>1. s[k].inst \in ActiveIn(t.nodes)
    BY DEF Fits, Path
  <2>2. s[k + 1].inst \in ActiveIn(t.nodes)
    <3>1. CASE k + 1 \in 1..(Len(s) - 1)
      BY <3>1 DEF Fits, Path
    <3>2. CASE k + 1 = Len(s)
      BY <3>2 DEF DropsAt
    <3>3. QED
      BY <3>1, <3>2
  <2>3. t.nodes[s[k + 1].inst].parent = s[k].inst
    BY <2>2 DEF Fits, Path
  <2>4. QED
    BY <1>4, <2>1, <2>2, <2>3
<1>7. Suited(w.tree.nodes, top)
  <2> DEFINE N == w.tree.nodes
  <2>1. N \in Nodes /\ Consistent(N, top)
    BY <1>3 DEF Good, TreeType
  <2> SUFFICES ASSUME NEW j \in ActiveIn(N) \ {top} PROVE Suits(N, j)
    BY DEF Suited
  <2>2. j \in Insts /\ N[j].children \in Seq(Insts)
    BY <2>1 DEF ActiveIn, Nodes, Node
  <2>3. j \in ActiveIn(t.nodes) \/ t.nodes[j].active = "Free"
    BY <1>3, <2>2 DEF Extends, ActiveIn
  <2>4. CASE j \in ActiveIn(t.nodes) \ {i}
    <3>1. N[j].children = t.nodes[j].children
      BY <1>2, <2>4 DEF Pending
    <3>2. SameData(t.nodes, N, j)
      BY <1>4, <2>4
    <3>3. Suits(t.nodes, j) /\ t.nodes[j].children \in Seq(Insts)
      BY <1>1, <2>2, <2>4 DEF Fits, Suited, Nodes, Node
    <3>4. ASSUME NEW k \in DOMAIN t.nodes[j].children
          PROVE  N[t.nodes[j].children[k]].type = t.nodes[t.nodes[j].children[k]].type
      <4>1. t.nodes[j].children[k] \in Kids(t.nodes, j)
        BY <3>3 DEF Kids, ToSet
      <4>2. t.nodes[j].children[k] \in ActiveIn(t.nodes)
        BY <1>1, <2>4, <4>1 DEF Good, Consistent, OneParent
      <4>3. QED
        BY <1>4, <4>2 DEF SameData
    <3>5. TypesOf(N, j) = TypesOf(t.nodes, j) /\ PlansOf(N, j) = PlansOf(t.nodes, j)
      BY Zenon, <3>1, <3>2, <3>4 DEF TypesOf, PlansOf, SameData
    <3>6. QED
      BY <3>1, <3>2, <3>3, <3>5 DEF Suits, SameData
  <2>5. CASE j \in Growing(t, top, i, w)
    <3> DEFINE got == N[j].children
               all == PlansOf(N, j)
    <3>1. PICK a \in Nat : InTurn(w, j, a)
      BY <1>2, <2>5 DEF Pending
    <3>2. /\ Len(all) - Len(got) \in Nat /\ a + (Len(all) - Len(got)) <= 0
          /\ \A k \in 1..Len(got) : N[got[k]].type = all[k]
      BY <1>2, <3>1 DEF InTurn
    <3>3. all \in Seq(Types) /\ got \in Seq(Insts)
      BY <2>1, <2>2, PlansOfType
    <3>4. TypesOf(N, j) = [k \in 1..Len(got) |-> N[got[k]].type]
      BY <3>3 DEF TypesOf
    <3> HIDE DEF got, all
    <3>5. Len(all) = Len(got) /\ Len(got) \in Nat
      BY <3>2, <3>3
    <3>6. all = [k \in 1..Len(all) |-> all[k]]
      BY <3>3
    <3>7. TypesOf(N, j) = all
      BY <3>2, <3>4, <3>5, <3>6
    <3>8. ~ N[j].allocationNeeded
      <4>1. CASE t.nodes[j].active = "Free"
        BY <1>3, <2>2, <4>1 DEF Extends, ActiveIn
      <4>2. CASE t.nodes[j].active # "Free"
        <5>1. j = i /\ i # top
          BY <2>5, <4>2 DEF Growing
        <5>2. QED
          BY <1>4, <5>1 DEF SameData
      <4>3. QED
        BY <4>1, <4>2
    <3>9. QED
      BY <3>7, <3>8 DEF Suits, all
  <2>6. QED
    BY <2>3, <2>4, <2>5 DEF Growing
<1>8. QED
  BY <1>3, <1>4, <1>5, <1>6, <1>7 DEF Fits, w

-------------------------------------------------------------------------------
(* The visit *)

\* The rules in the order of RuleBook::visit (RuleBook.cpp:86).
LEMMA Positions ==
  /\ Position("sync") = 1       /\ Position("transition") = 2
  /\ Position("lastTransition") = 3 /\ Position("topFail") = 4
  /\ Position("allocation") = 5 /\ Position("authority") = 6
  /\ Position("dynamic") = 7    /\ Position("abort") = 8
  /\ Position("redo") = 9       /\ Position("replace") = 10
  /\ Position("propagation") = 11 /\ Position("roundEnd") = 12
  /\ DOMAIN RuleOrder = 1..12
<1>1. DOMAIN RuleOrder = 1..12
  BY DEF RuleOrder
<1>2. /\ RuleOrder[1] = "sync" /\ RuleOrder[2] = "transition" /\ RuleOrder[3] = "lastTransition"
      /\ RuleOrder[4] = "topFail" /\ RuleOrder[5] = "allocation" /\ RuleOrder[6] = "authority"
      /\ RuleOrder[7] = "dynamic" /\ RuleOrder[8] = "abort" /\ RuleOrder[9] = "redo"
      /\ RuleOrder[10] = "replace" /\ RuleOrder[11] = "propagation" /\ RuleOrder[12] = "roundEnd"
  BY DEF RuleOrder
<1>3. ASSUME NEW n \in 1..12, NEW m \in 1..12, RuleOrder[n] = RuleOrder[m] PROVE n = m
  BY <1>2, <1>3
<1>4. ASSUME NEW n \in 1..12 PROVE Position(RuleOrder[n]) = n
  <2>1. n \in DOMAIN RuleOrder /\ RuleOrder[n] = RuleOrder[n]
    BY <1>1
  <2>2. Position(RuleOrder[n]) \in DOMAIN RuleOrder
        /\ RuleOrder[Position(RuleOrder[n])] = RuleOrder[n]
    BY <2>1 DEF Position
  <2>3. QED
    BY <1>1, <1>3, <2>2
<1>5. Position(RuleOrder[1]) = 1 /\ Position(RuleOrder[2]) = 2 /\ Position(RuleOrder[3]) = 3
  BY <1>4
<1>6. Position(RuleOrder[4]) = 4 /\ Position(RuleOrder[5]) = 5 /\ Position(RuleOrder[6]) = 6
  BY <1>4
<1>7. Position(RuleOrder[7]) = 7 /\ Position(RuleOrder[8]) = 8 /\ Position(RuleOrder[9]) = 9
  BY <1>4
<1>8. Position(RuleOrder[10]) = 10 /\ Position(RuleOrder[11]) = 11 /\ Position(RuleOrder[12]) = 12
  BY <1>4
<1>9. QED
  BY <1>1, <1>2, <1>5, <1>6, <1>7, <1>8

Ticking == pc \in {"visit", "return"} /\ v.caller \in {"tick", "again"}

\* Where the engine thread is, the plan it works on is in the tree, or has left it
\* by the replacement that the visit returns from; plans are ticked from the root.
ThreadFits ==
  /\ v.next <= Position("transition") => v.changes < MaxRuleApplications
  /\ pc = "visit" => v.inst \in ActiveIn(node)
  /\ pc = "return" => \/ v.inst \in ActiveIn(node)
                      \/ node[v.inst].active = "Retired" /\ node[v.inst].parent = None
  /\ Ticking => stack # << >> /\ Top.inst = v.inst
  /\ pc = "loop" => stack # << >> /\ Top.inst \in ActiveIn(node)
  /\ ~ Ticking /\ pc # "loop" => stack = << >>

PlanTreeInv ==
  /\ TypeOK
  /\ Fits(Tree, root, stack)
  /\ ThreadFits

\* updateChange (RuleBook.cpp:506) returns a change.
LEMMA UpdateType ==
  ASSUME NEW a \in Changes, NEW b \in Changes PROVE UpdateChange(a, b) \in Changes
BY DEF UpdateChange, Changes

\* While plan r is visited, its children and those of its parent may be dropped.
LEMMA VisitedPlan ==
  ASSUME PlanTreeInv, pc = "visit"
  PROVE  /\ r \in ActiveIn(node) /\ r \in Insts /\ node[r] \in Node
         /\ Tree.nodes = node /\ Tree.pool = pool /\ stack \in Seq(Frame)
         /\ DropsAt(node, stack, r)
         /\ DropsAt(node, stack, node[r].parent)
         /\ DropsAt(node, stack, stack[Len(stack)].inst)
<1>1. r \in ActiveIn(node) /\ r \in Insts
  BY DEF PlanTreeInv, ThreadFits, r, ActiveIn
<1>2. stack # << >> => stack[Len(stack)].inst = r
  BY DEF PlanTreeInv, ThreadFits, Ticking, Top, r
<1>3. QED
  BY <1>1, <1>2 DEF PlanTreeInv, TypeOK, Tree, DropsAt

\* A step within a visit keeps the invariant when the tree stays what it is to be
\* and the plan stays in it, or the visit returns from a plan that was replaced.
LEMMA VisitStep ==
  ASSUME PlanTreeAssumption, PlanTreeInv, pc = "visit", UNCHANGED engine,
         NEW t, SetTree(t), Fits(t, root, stack),
         pc' \in {"visit", "return"}, v' \in Visit,
         v'.inst = r, v'.caller = v.caller,
         v'.next <= Position("transition") => v'.changes < MaxRuleApplications,
         \/ r \in ActiveIn(t.nodes)
         \/ pc' = "return" /\ t.nodes[r].active = "Retired" /\ t.nodes[r].parent = None
  PROVE  PlanTreeInv'
<1>1. t \in TreeType /\ node' = t.nodes /\ pool' = t.pool
  BY DEF Fits, Good, SetTree
<1>2. Tree' = t
  BY <1>1 DEF Tree, TreeType
<1>3. TypeOK'
  BY <1>1 DEF PlanTreeInv, TypeOK, engine, TreeType, Nodes, Pools
<1>4. Fits(Tree, root, stack)'
  BY <1>2 DEF engine
<1>5. ThreadFits'
  <2>1. Ticking' <=> Ticking
    BY DEF Ticking
  <2>2. Position("transition")' = Position("transition")
    OBVIOUS
  <2>3. QED
    BY <1>1, <2>1, <2>2 DEF PlanTreeInv, ThreadFits, engine, Top, r, ActiveIn
<1>6. QED
  BY <1>3, <1>4, <1>5 DEF PlanTreeInv

\* The visit goes on: with another rule than the transitions, or before any change
\* has been counted.
LEMMA Proceeds ==
  ASSUME PlanTreeAssumption, PlanTreeInv, pc = "visit", NEW rule, NEW c \in Changes,
         Proceed(rule, c), Position(rule) \in 2..12,
         Position(rule) = 2 => v.next <= 2,
         NEW t, SetTree(t), Fits(t, root, stack), r \in ActiveIn(t.nodes)
  PROVE  PlanTreeInv'
<1>1. v \in Visit /\ v' = [v EXCEPT !.record = UpdateChange(@, c), !.next = Position(rule)]
  BY DEF PlanTreeInv, TypeOK, Proceed
<1>2. UpdateChange(v.record, c) \in Changes
  BY <1>1, UpdateType DEF Visit
<1> DEFINE n == Position(rule)
           d == UpdateChange(v.record, c)
<1> HIDE DEF n, d
<1>3. n \in DOMAIN RuleOrder /\ d \in Changes /\ v' = [v EXCEPT !.record = d, !.next = n]
  BY <1>1, <1>2, Positions DEF n, d
<1>4. v' \in Visit /\ v'.inst = v.inst /\ v'.caller = v.caller /\ v'.next = n /\ v'.changes = v.changes
  BY <1>1, <1>3 DEF Visit
<1>5. /\ v' \in Visit /\ v'.inst = r /\ v'.caller = v.caller
      /\ v'.next = Position(rule) /\ v'.changes = v.changes
  BY <1>4 DEF r, n
<1>6. v'.next <= Position("transition") => v'.changes < MaxRuleApplications
  BY <1>5, Positions DEF PlanTreeInv, ThreadFits
<1>7. pc' = "visit" /\ UNCHANGED engine
  BY DEF Proceed
<1>8. QED
  BY <1>5, <1>6, <1>7, VisitStep

\* The visit returns, with its plan in the tree or just replaced.
LEMMA Returns ==
  ASSUME PlanTreeAssumption, PlanTreeInv, pc = "visit", NEW c \in Changes, Return(c),
         NEW t, SetTree(t), Fits(t, root, stack),
         \/ r \in ActiveIn(t.nodes)
         \/ t.nodes[r].active = "Retired" /\ t.nodes[r].parent = None
  PROVE  PlanTreeInv'
<1>1. v \in Visit /\ v' = [v EXCEPT !.ms = c]
  BY DEF PlanTreeInv, TypeOK, Return
<1>2. /\ v' \in Visit /\ v'.inst = r /\ v'.caller = v.caller
      /\ v'.next = v.next /\ v'.changes = v.changes
  BY <1>1 DEF Visit, r
<1>3. v'.next <= Position("transition") => v'.changes < MaxRuleApplications
  BY <1>2 DEF PlanTreeInv, ThreadFits
<1>4. pc' = "return" /\ UNCHANGED engine
  BY DEF Return
<1>5. QED
  BY <1>2, <1>3, <1>4, VisitStep

\* What a rule finds: the plan it is applied to, before and after its children
\* are dropped.
LEMMA VisitedDrop ==
  ASSUME PlanTreeAssumption, PlanTreeInv, pc = "visit"
  PROVE  LET d == DropChildren(Tree, r)
         IN  /\ Fits(d, root, stack) /\ d \in TreeType /\ r \in ActiveIn(d.nodes)
             /\ d.nodes[r] \in Node /\ d.nodes[r].parent = node[r].parent
             /\ d.nodes[r].children = << >>
             /\ \A j \in Insts : SameData(node, d.nodes, j)
<1>1. Fits(Tree, root, stack)
  BY DEF PlanTreeInv
<1>2. r \in ActiveIn(Tree.nodes) /\ DropsAt(Tree.nodes, stack, r) /\ stack \in Seq(Frame) /\ Tree.nodes = node
  BY VisitedPlan
<1> DEFINE d == DropChildren(Tree, r)
<1> HIDE DEF d
<1>3. /\ Fits(d, root, stack) /\ r \in ActiveIn(d.nodes)
      /\ d.nodes[r].parent = Tree.nodes[r].parent /\ d.nodes[r].children = << >>
      /\ \A j \in Insts : SameData(Tree.nodes, d.nodes, j)
  <2>1. Fits(d, root, stack) /\ r \in ActiveIn(d.nodes)
    BY <1>1, <1>2, DropFits DEF d
  <2>2. d.nodes[r].parent = Tree.nodes[r].parent
    <3>1. stack \in Seq(Frame) /\ r \in ActiveIn(Tree.nodes) /\ DropsAt(Tree.nodes, stack, r)
      BY <1>2
    <3>2. DropChildren(Tree, r).nodes[r].parent = Tree.nodes[r].parent
      BY <1>1, <3>1, DropFits
    <3>3. QED
      BY <3>2 DEF d
  <2>3. d.nodes[r].children = << >>
    <3>1. stack \in Seq(Frame) /\ r \in ActiveIn(Tree.nodes) /\ DropsAt(Tree.nodes, stack, r)
      BY <1>2
    <3>2. DropChildren(Tree, r).nodes[r].children = << >>
      BY <1>1, <3>1, DropFits
    <3>3. QED
      BY <3>2 DEF d
  <2>4. \A j \in Insts : SameData(Tree.nodes, d.nodes, j)
    BY <1>1, <1>2, DropFits DEF d
  <2>5. QED
    BY <2>1, <2>2, <2>4, <2>3
<1>4. d \in TreeType /\ d.nodes[r] \in Node
  BY <1>3 DEF Fits, Good, TreeType, Nodes, ActiveIn
<1>5. QED
  BY <1>2, <1>3, <1>4 DEF d

\* Editing a plan twice is editing it once.
LEMMA EditedTwice ==
  ASSUME NEW t \in TreeType, NEW i \in Insts, NEW x, NEW y
  PROVE  /\ Edited(t, i, x).nodes[i] = x
         /\ Edited(Edited(t, i, x), i, y) = Edited(t, i, y)
         /\ Edited(t, i, x) = [nodes |-> [t.nodes EXCEPT ![i] = x], pool |-> t.pool]
<1>1. t = [nodes |-> t.nodes, pool |-> t.pool] /\ t.nodes \in Nodes
  BY DEF TreeType
<1>2. \A z : Edited(t, i, z) = [nodes |-> [t.nodes EXCEPT ![i] = z], pool |-> t.pool]
  BY <1>1 DEF Edited
<1>3. [t.nodes EXCEPT ![i] = x][i] = x
      /\ [[t.nodes EXCEPT ![i] = x] EXCEPT ![i] = y] = [t.nodes EXCEPT ![i] = y]
  BY <1>1 DEF Nodes
<1>4. QED
  BY <1>2, <1>3 DEF Edited

\* moveState to a state (RuleBook.cpp:434) drops the children and leaves the plan
\* waiting for an allocation in that state.
LEMMA EnteredIs ==
  ASSUME PlanTreeAssumption, PlanTreeInv, pc = "visit", NEW s \in States
  PROVE  LET d == DropChildren(Tree, r)
         IN  \E x : /\ SamePlace(d.nodes[r], x) /\ x.state = s /\ x.entry = d.nodes[r].entry
                    /\ Entered(s) = Edited(d, r, x)
<1> DEFINE d == DropChildren(Tree, r)
           n == d.nodes[r]
           x == [n EXCEPT !.state = s, !.failedSubPlans = NoFailures, !.allocationNeeded = TRUE]
<1>1. d \in TreeType /\ r \in ActiveIn(d.nodes) /\ d.nodes[r] \in Node
  BY VisitedDrop
<1>2. Entered(s) = Edited(d, r, x)
  <2>1. Entered(s) = [d EXCEPT !.nodes[r].state = s, !.nodes[r].failedSubPlans = NoFailures,
                               !.nodes[r].allocationNeeded = TRUE]
    BY DEF Entered, MoveState
  <2> DEFINE x1 == [n EXCEPT !.state = s]
             x2 == [x1 EXCEPT !.failedSubPlans = NoFailures]
             t1 == Edited(d, r, x1)
             t2 == Edited(d, r, x2)
  <2>2. Entered(s) = [[t1 EXCEPT !.nodes[r].failedSubPlans = NoFailures]
                        EXCEPT !.nodes[r].allocationNeeded = TRUE]
    BY <2>1 DEF Edited
  <2>3. x = [x2 EXCEPT !.allocationNeeded = TRUE] /\ r \in Insts
    BY <1>1 DEF ActiveIn
  <2> HIDE DEF x, d, n, x1
  <2>4. t1.nodes[r] = x1 /\ Edited(t1, r, x2) = t2
    BY <1>1, <2>3, EditedTwice
  <2>5. Entered(s) = [t2 EXCEPT !.nodes[r].allocationNeeded = TRUE]
    BY <2>2, <2>4 DEF Edited
  <2> HIDE DEF x2
  <2>6. t2.nodes[r] = x2 /\ Edited(t2, r, x) = Edited(d, r, x)
    BY <1>1, <2>3, EditedTwice
  <2>7. QED
    BY <2>3, <2>5, <2>6 DEF Edited
<1> HIDE DEF d
<1>3. n \in Node /\ NoFailures \in [Types -> 0..FailLimit] /\ s \in States \cup {NoState}
  BY <1>1 DEF NoFailures, FailLimit
<1> HIDE DEF n
<1>4. SamePlace(n, x) /\ x.state = s /\ x.entry = n.entry
  BY <1>3 DEF SamePlace, Node
<1> HIDE DEF x
<1>5. QED
  BY <1>2, <1>4 DEF d, n

\* The tree after a move to another state is one that rules can work on.
LEMMA EnteredFits ==
  ASSUME PlanTreeAssumption, PlanTreeInv, pc = "visit", NEW s \in States
  PROVE  Fits(Entered(s), root, stack) /\ r \in ActiveIn(Entered(s).nodes)
<1> DEFINE d == DropChildren(Tree, r)
           n == d.nodes[r]
<1>1. /\ Fits(d, root, stack) /\ d \in TreeType /\ r \in ActiveIn(d.nodes)
      /\ n.children = << >>
  BY VisitedDrop
<1>2. PICK x : /\ SamePlace(n, x) /\ x.state = s /\ x.entry = n.entry
               /\ Entered(s) = Edited(d, r, x)
  BY EnteredIs
<1> HIDE DEF d
<1>3. s # NoState
  BY DEF PlanTreeAssumption
<1>4. x.children = << >>
  BY <1>1, <1>2 DEF SamePlace
<1>5. r = root => x.entry \in States
  <2>1. root # None /\ root = r => n.entry \in States
    BY <1>1 DEF Fits, Allocatable
  <2>2. r # None
    BY <1>1 DEF ActiveIn, Insts, None
  <2>3. QED
    BY <1>2, <2>1, <2>2
<1>6. r \in Insts /\ stack \in Seq(Frame)
  BY VisitedPlan
<1> HIDE DEF n
<1>7. /\ Fits(Edited(d, r, x), root, stack)
      /\ ActiveIn(Edited(d, r, x).nodes) = ActiveIn(d.nodes)
  BY <1>1, <1>2, <1>3, <1>4, <1>5, <1>6, EditFits DEF n
<1>8. QED
  BY <1>1, <1>2, <1>7

\* A transition is reported as a change (RuleBook.cpp:440).
LEMMA ChangeType == \A s : ChangeOf(s) \in Changes
BY DEF ChangeOf, Changes

\* synchTransitionRule (RuleBook.cpp:455) keeps the invariant.
LEMMA SynchKeeps ==
  ASSUME PlanTreeAssumption, PlanTreeInv, SynchTransitionRule PROVE PlanTreeInv'
<1>1. pc = "visit" /\ v.next <= 1
  BY Positions DEF SynchTransitionRule, At
<1>2. PICK s \in States : SetTree(Entered(s)) /\ Proceed("transition", ChangeOf(s))
  BY DEF SynchTransitionRule
<1>3. Fits(Entered(s), root, stack) /\ r \in ActiveIn(Entered(s).nodes)
  BY <1>1, EnteredFits
<1>4. v.next <= 2 /\ ChangeOf(s) \in Changes
  BY <1>1, ChangeType DEF PlanTreeInv, TypeOK, Visit, RuleOrder
<1> DEFINE c == ChangeOf(s)
           t == Entered(s)
<1>5. c \in Changes /\ Proceed("transition", c) /\ SetTree(t) /\ Fits(t, root, stack)
      /\ r \in ActiveIn(t.nodes)
  BY <1>2, <1>3, <1>4
<1>6. Position("transition") \in 2..12
  BY Positions
<1> HIDE DEF c, t
<1>7. QED
  BY <1>1, <1>4, <1>5, <1>6, Proceeds

\* transitionRule (RuleBook.cpp:413) keeps the invariant.
LEMMA TransitionKeeps ==
  ASSUME PlanTreeAssumption, PlanTreeInv, TransitionRule PROVE PlanTreeInv'
<1>1. pc = "visit" /\ v.next <= 2 /\ pc' = pc /\ UNCHANGED engine
  BY Positions DEF TransitionRule, At
<1>2. PICK s \in States :
        /\ SetTree(Entered(s))
        /\ v' = IF WithinLimit(Counted(v.changes))
                THEN [v EXCEPT !.changes = Counted(@),
                               !.record = UpdateChange(@, ChangeOf(s)),
                               !.next = Position("transition")]
                ELSE [v EXCEPT !.changes = Counted(@),
                               !.next = Position("lastTransition")]
  BY Zenon DEF TransitionRule
<1>3. Fits(Entered(s), root, stack) /\ r \in ActiveIn(Entered(s).nodes)
  BY <1>1, EnteredFits
<1>4. /\ v \in Visit /\ v.changes \in 0..(MaxRuleApplications - 1)
      /\ v.changes + 1 \in 0..MaxRuleApplications /\ MaxRuleApplications \in Nat
  <2>1. MaxRuleApplications \in Nat \ {0}
    BY DEF PlanTreeAssumption
  <2>2. v \in Visit
    BY <1>1 DEF PlanTreeInv, TypeOK
  <2>3. v.changes < MaxRuleApplications
    <3>1. v.next \in Int
      BY <2>2 DEF Visit, RuleOrder
    <3>2. v.next <= Position("transition") => v.changes < MaxRuleApplications
      BY DEF PlanTreeInv, ThreadFits
    <3>3. QED
      BY <1>1, <3>1, <3>2, Positions
  <2>4. v.changes \in Nat
    BY <2>1, <2>2 DEF Visit
  <2>5. QED
    BY <2>1, <2>2, <2>3, <2>4
<1> DEFINE d == UpdateChange(v.record, ChangeOf(s))
<1>5. d \in Changes
  BY <1>4, ChangeType, UpdateType DEF Visit
<1> HIDE DEF d
<1>6. \/ v' = [v EXCEPT !.changes = v.changes + 1, !.record = d, !.next = 2]
         /\ v.changes + 1 < MaxRuleApplications
      \/ v' = [v EXCEPT !.changes = v.changes + 1, !.next = 3]
  BY <1>2, Positions DEF WithinLimit, Counted, d
<1> DEFINE c == v.changes + 1
<1> HIDE DEF c
<1>7. 2 \in DOMAIN RuleOrder /\ 3 \in DOMAIN RuleOrder /\ c \in 0..MaxRuleApplications
  BY <1>4, Positions DEF c
<1>8. /\ v' \in Visit /\ v'.inst = v.inst /\ v'.caller = v.caller
      /\ v'.next <= 2 => v'.changes < MaxRuleApplications
  <2>1. CASE v' = [v EXCEPT !.changes = c, !.record = d, !.next = 2] /\ c < MaxRuleApplications
    BY <1>4, <1>5, <1>7, <2>1 DEF Visit
  <2>2. CASE v' = [v EXCEPT !.changes = c, !.next = 3]
    <3>1. v' \in Visit /\ v'.inst = v.inst /\ v'.caller = v.caller /\ v'.next = 3
      BY <1>4, <1>7, <2>2 DEF Visit
    <3>2. QED
      BY <3>1
  <2>3. QED
    BY <1>6, <2>1, <2>2 DEF c
<1>9. v'.inst = r /\ (v'.next <= Position("transition") => v'.changes < MaxRuleApplications)
  BY <1>8, Positions DEF r
<1>10. QED
  BY <1>1, <1>2, <1>3, <1>8, <1>9, VisitStep

\* The round of transitions that is one too many (RuleBook.cpp:90) keeps it.
LEMMA LastTransitionKeeps ==
  ASSUME PlanTreeAssumption, PlanTreeInv, LastTransitionRule PROVE PlanTreeInv'
<1>1. pc = "visit"
  BY DEF LastTransitionRule, At
<1>2. PICK s \in States : SetTree(Entered(s)) /\ Proceed("topFail", ChangeOf(s))
  BY DEF LastTransitionRule
<1>3. Fits(Entered(s), root, stack) /\ r \in ActiveIn(Entered(s).nodes)
  BY <1>1, EnteredFits
<1> DEFINE c == ChangeOf(s)
           t == Entered(s)
<1>4. c \in Changes /\ Proceed("topFail", c) /\ SetTree(t) /\ Fits(t, root, stack)
      /\ r \in ActiveIn(t.nodes)
  BY <1>2, <1>3, ChangeType
<1>5. Position("topFail") \in 2..12 /\ Position("topFail") # 2
  BY Positions
<1> HIDE DEF c, t
<1>6. QED
  BY <1>1, <1>4, <1>5, Proceeds

\* The tree as a visit finds it.
LEMMA TreeFits ==
  ASSUME PlanTreeInv, pc = "visit"
  PROVE  /\ Fits(Tree, root, stack) /\ Tree \in TreeType
         /\ r \in ActiveIn(Tree.nodes) /\ r \in Insts /\ node[r] \in Node
         /\ Tree.nodes = node /\ stack \in Seq(Frame) /\ Consistent(node, root)
         /\ UNCHANGED <<node, pool>> => SetTree(Tree)
BY VisitedPlan DEF PlanTreeInv, Fits, Good, SetTree, Tree

\* The visited plan is the root or has a parent in the tree.
LEMMA VisitedParent ==
  ASSUME PlanTreeInv, pc = "visit"
  PROVE  /\ node[r].parent = None => r = root /\ node[r].entry \in States
         /\ node[r].parent # None => /\ r # root /\ node[r].parent \in ActiveIn(node)
                                     /\ node[r].parent \in Insts
                                     /\ r \in Kids(node, node[r].parent)
<1>1. Consistent(node, root) /\ r \in ActiveIn(node) /\ node \in Nodes /\ r # None /\ Tree.nodes = node
  BY TreeFits DEF PlanTreeInv, TypeOK, Nodes, None, Insts
<1>2. CASE r = root
  <2>1. node[r].parent = None
    BY <1>1, <1>2 DEF Consistent, RootActive
  <2>2. node[r].entry \in States
    BY <1>1, <1>2 DEF PlanTreeInv, Fits, Allocatable
  <2>3. QED
    BY <1>2, <2>1, <2>2
<1>3. CASE r # root
  <2>1. node[r].parent \in ActiveIn(node) /\ r \in Kids(node, node[r].parent)
    BY <1>1, <1>3, ActiveHasParent
  <2>2. node[r].parent \in Insts /\ node[r].parent # None
    BY <2>1 DEF ActiveIn, Insts, None
  <2>3. QED
    BY <1>3, <2>1, <2>2
<1>4. QED
  BY <1>2, <1>3

\* addFailure (RunningPlan.cpp:327) changes data of one plan only.
LEMMA FailureFits ==
  ASSUME NEW t, NEW top, NEW s \in Seq(Frame), Fits(t, top, s), NEW i \in ActiveIn(t.nodes)
  PROVE  LET u == AddFailure(t, i)
         IN  /\ Fits(u, top, s) /\ u.pool = t.pool
             /\ ActiveIn(u.nodes) = ActiveIn(t.nodes)
             /\ \A j \in Insts : SamePlace(t.nodes[j], u.nodes[j])
             /\ \A j \in Insts : u.nodes[j].allocationNeeded = t.nodes[j].allocationNeeded
                                 /\ u.nodes[j].state = t.nodes[j].state
                                 /\ u.nodes[j].entry = t.nodes[j].entry
<1> DEFINE n == t.nodes[i]
           x1 == [n EXCEPT !.failCount = Count(n.failCount + 1)]
           x == [x1 EXCEPT !.failHandlingNeeded = TRUE]
           t1 == Edited(t, i, x1)
           u == Edited(t, i, x)
<1>1. t \in TreeType /\ i \in Insts /\ \A j \in Insts : t.nodes[j] \in Node
  BY DEF Fits, Good, TreeType, ActiveIn, Nodes
<1>2. AddFailure(t, i) = [t1 EXCEPT !.nodes[i].failHandlingNeeded = TRUE]
  BY DEF AddFailure, Edited
<1>3. n \in Node
  BY <1>1
<1>4. Count(n.failCount + 1) \in 0..FailLimit
  BY <1>3 DEF Node, Count, FailLimit
<1>5. /\ n.active = "Active" /\ (n.allocationNeeded \/ n.children # << >> => n.state # NoState)
      /\ i = top => n.entry \in States
  <2>1. top = i => top # None
    BY <1>1 DEF Insts, None
  <2>2. QED
    BY <1>1, <2>1 DEF Fits, Allocatable, Settled, ActiveIn
<1> HIDE DEF n
<1>6. /\ SamePlace(n, x) /\ x.allocationNeeded = n.allocationNeeded /\ x.state = n.state
      /\ x.entry = n.entry /\ x.children = n.children
  BY <1>3, <1>4 DEF SamePlace, Node
<1> HIDE DEF x1
<1>7. t1.nodes[i] = x1 /\ Edited(t1, i, x) = u
  BY <1>1, EditedTwice
<1>8. AddFailure(t, i) = u
  BY <1>2, <1>7 DEF Edited
<1> HIDE DEF x, t1
<1>9. /\ Fits(u, top, s) /\ ActiveIn(u.nodes) = ActiveIn(t.nodes) /\ u.nodes[i] = x
      /\ u.pool = t.pool /\ \A j \in Insts \ {i} : u.nodes[j] = t.nodes[j]
  BY <1>1, <1>5, <1>6, EditFits DEF n
<1> HIDE DEF u
<1>10. \A j \in Insts : SamePlace(t.nodes[j], t.nodes[j])
  BY <1>1 DEF SamePlace
<1>11. QED
  BY <1>6, <1>8, <1>9, <1>10 DEF n

\* planAbortRule (RuleBook.cpp:215) changes flags only.
LEMMA AbortKeeps ==
  ASSUME PlanTreeAssumption, PlanTreeInv, PlanAbortRule PROVE PlanTreeInv'
<1>1. pc = "visit" /\ SetTree(AddFailure(Tree, r)) /\ Return("FailChange")
  BY DEF PlanAbortRule, At
<1>2. Fits(AddFailure(Tree, r), root, stack) /\ r \in ActiveIn(AddFailure(Tree, r).nodes)
  BY <1>1, TreeFits, FailureFits
<1>3. QED
  BY <1>1, <1>2, Returns DEF Changes

\* A visit that returns a failure (RuleBook.cpp:103) leaves the tree alone.
LEMMA FailChangeKeeps ==
  ASSUME PlanTreeAssumption, PlanTreeInv, FailChangeReturns PROVE PlanTreeInv'
<1>1. pc = "visit" /\ Return("FailChange") /\ UNCHANGED <<node, pool>>
  BY DEF FailChangeReturns, At
<1>2. QED
  BY <1>1, TreeFits, Returns DEF Changes

\* The end of a round (RuleBook.cpp:107) leaves the tree alone; another begins
\* below the limit only.
LEMMA RoundKeeps ==
  ASSUME PlanTreeAssumption, PlanTreeInv, RoundEnds PROVE PlanTreeInv'
<1>1. pc = "visit" /\ UNCHANGED <<node, pool>> /\ v \in Visit
  BY DEF RoundEnds, At, PlanTreeInv, TypeOK
<1>2. CASE v.record # "NoChange" /\ WithinLimit(Counted(v.changes))
  <2> DEFINE d == UpdateChange(v.ms, v.record)
  <2>1. /\ v' = [v EXCEPT !.changes = v.changes + 1, !.next = 1, !.doDynAlloc = FALSE,
                          !.ms = d, !.record = "NoChange"]
        /\ pc' = pc /\ UNCHANGED engine
    BY <1>2 DEF RoundEnds, Counted
  <2>2. d \in Changes /\ "NoChange" \in Changes
    BY <1>1, UpdateType DEF Visit, Changes
  <2> HIDE DEF d
  <2>3. v.changes + 1 \in 0..MaxRuleApplications /\ v.changes + 1 < MaxRuleApplications
    BY <1>1, <1>2 DEF Visit, WithinLimit, Counted, PlanTreeAssumption
  <2> DEFINE c == v.changes + 1
  <2>4. v' = [v EXCEPT !.changes = c, !.next = 1, !.doDynAlloc = FALSE,
                       !.ms = d, !.record = "NoChange"]
    BY <2>1
  <2>5. 1 \in DOMAIN RuleOrder /\ c \in 0..MaxRuleApplications /\ c < MaxRuleApplications
    BY <2>3, Positions
  <2> HIDE DEF c
  <2>6. /\ v' \in Visit /\ v'.inst = v.inst /\ v'.caller = v.caller
        /\ v'.changes < MaxRuleApplications
    BY <1>1, <2>2, <2>4, <2>5 DEF Visit
  <2>7. v'.inst = r
    BY <2>6 DEF r
  <2>8. QED
    BY <1>1, <2>1, <2>6, <2>7, TreeFits, VisitStep
<1>3. CASE ~ (v.record # "NoChange" /\ WithinLimit(Counted(v.changes)))
  <2>1. Return(v.ms) /\ v.ms \in Changes
    BY <1>1, <1>3 DEF RoundEnds, Visit
  <2>2. QED
    BY <1>1, <2>1, TreeFits, Returns
<1>4. QED
  BY <1>2, <1>3

\* A rule that goes on with one that is applied later than the transitions.
LEMMA GoesOn ==
  ASSUME PlanTreeAssumption, PlanTreeInv, pc = "visit",
         NEW rule \in {"topFail", "allocation", "authority", "dynamic", "abort", "replace"},
         NEW c \in {"NoChange", "InternalChange", "FailChange"}, Proceed(rule, c),
         NEW t, SetTree(t), Fits(t, root, stack), r \in ActiveIn(t.nodes)
  PROVE  PlanTreeInv'
<1>1. Position(rule) \in 2..12 /\ Position(rule) # 2
  BY Positions
<1>2. c \in Changes
  BY DEF Changes
<1>3. QED
  BY <1>1, <1>2, Proceeds

\* A changed plan in the tree, and the behaviours as they were.
LEMMA EditedIs ==
  ASSUME NEW t \in TreeType, NEW i, NEW x
  PROVE  Edited(t, i, x).nodes = [t.nodes EXCEPT ![i] = x] /\ Edited(t, i, x).pool = t.pool
<1>1. t = [nodes |-> t.nodes, pool |-> t.pool]
  BY DEF TreeType
<1>2. QED
  BY <1>1 DEF Edited

\* topFailRule (RuleBook.cpp:376) puts the root back into its initial state, over
\* the children it has.
LEMMA TopFailDoes ==
  ASSUME PlanTreeAssumption, PlanTreeInv, TopFailRule
  PROVE  \E x : /\ SamePlace(node[r], x) /\ x.state = node[r].entry /\ x.entry = node[r].entry
                /\ SetTree(Edited(Tree, r, x))
<1> DEFINE n == node[r]
           x == [n EXCEPT !.failHandlingNeeded = FALSE, !.failCount = 0, !.allocationNeeded = TRUE,
                          !.state = n.entry, !.failedSubPlans = NoFailures]
           u == Edited(Tree, r, x)
<1>1. pc = "visit" /\ n.parent = None
  BY DEF TopFailRule, At, Due
<1>2. /\ Fits(Tree, root, stack) /\ Tree \in TreeType /\ r \in ActiveIn(Tree.nodes) /\ r \in Insts
      /\ n \in Node /\ Tree.nodes = node /\ stack \in Seq(Frame) /\ node \in Nodes
  BY <1>1, TreeFits DEF TreeType
<1>3. r = root
  BY <1>1, VisitedParent
<1>4. n.entry \in States /\ n.entry # NoState /\ NoFailures \in [Types -> 0..FailLimit]
  BY <1>1, VisitedParent DEF PlanTreeAssumption, NoFailures, FailLimit
<1>5. node' = [node EXCEPT ![r] = x] /\ pool' = pool
  <2>1. node' = [node EXCEPT ![r] = [[[[[node[r] EXCEPT !.failHandlingNeeded = FALSE] EXCEPT !.failCount = 0]
             EXCEPT !.allocationNeeded = TRUE] EXCEPT !.state = node[r].entry] EXCEPT !.failedSubPlans = NoFailures]]
    <3> DEFINE x1 == [n EXCEPT !.failHandlingNeeded = FALSE]
               x2 == [x1 EXCEPT !.failCount = 0]
               x3 == [x2 EXCEPT !.allocationNeeded = TRUE]
               x4 == [x3 EXCEPT !.state = n.entry]
               f1 == [node EXCEPT ![r] = x1]
               f2 == [node EXCEPT ![r] = x2]
               f3 == [node EXCEPT ![r] = x3]
               f4 == [node EXCEPT ![r] = x4]
    <3>1. ASSUME NEW y PROVE [node EXCEPT ![r] = y][r] = y
                             /\ \A z : [[node EXCEPT ![r] = y] EXCEPT ![r] = z] = [node EXCEPT ![r] = z]
      BY <1>2 DEF Nodes
    <3>2. node' = [[[[f1 EXCEPT ![r].failCount = 0] EXCEPT ![r].allocationNeeded = TRUE]
                      EXCEPT ![r].state = n.entry] EXCEPT ![r].failedSubPlans = NoFailures]
      BY DEF TopFailRule
    <3> HIDE DEF x1, n
    <3>3. [f1 EXCEPT ![r].failCount = 0] = f2
      <4>1. f1[r] = x1 /\ \A z : [f1 EXCEPT ![r] = z] = [node EXCEPT ![r] = z]
        BY <3>1
      <4> HIDE DEF f1
      <4>2. [f1 EXCEPT ![r].failCount = 0] = [f1 EXCEPT ![r] = [x1 EXCEPT !.failCount = 0]]
        BY <4>1
      <4>3. QED
        BY <4>1, <4>2
    <3> HIDE DEF x2, f1
    <3>4. [f2 EXCEPT ![r].allocationNeeded = TRUE] = f3
      <4>1. f2[r] = x2 /\ \A z : [f2 EXCEPT ![r] = z] = [node EXCEPT ![r] = z]
        BY <3>1
      <4> HIDE DEF f2
      <4>2. [f2 EXCEPT ![r].allocationNeeded = TRUE] = [f2 EXCEPT ![r] = [x2 EXCEPT !.allocationNeeded = TRUE]]
        BY <4>1
      <4>3. QED
        BY <4>1, <4>2
    <3> HIDE DEF x3, f2
    <3>5. [f3 EXCEPT ![r].state = n.entry] = f4
      <4>1. f3[r] = x3 /\ \A z : [f3 EXCEPT ![r] = z] = [node EXCEPT ![r] = z]
        BY <3>1
      <4> HIDE DEF f3
      <4>2. [f3 EXCEPT ![r].state = n.entry] = [f3 EXCEPT ![r] = [x3 EXCEPT !.state = n.entry]]
        BY <4>1
      <4>3. QED
        BY <4>1, <4>2
    <3> HIDE DEF x4, f3
    <3>6. [f4 EXCEPT ![r].failedSubPlans = NoFailures] = [node EXCEPT ![r] = [x4 EXCEPT !.failedSubPlans = NoFailures]]
      <4>1. f4[r] = x4 /\ \A z : [f4 EXCEPT ![r] = z] = [node EXCEPT ![r] = z]
        BY <3>1
      <4> HIDE DEF f4
      <4>2. [f4 EXCEPT ![r].failedSubPlans = NoFailures] = [f4 EXCEPT ![r] = [x4 EXCEPT !.failedSubPlans = NoFailures]]
        BY <4>1
      <4>3. QED
        BY <4>1, <4>2
    <3>7. node' = [node EXCEPT ![r] = [x4 EXCEPT !.failedSubPlans = NoFailures]]
      BY <3>2, <3>3, <3>4, <3>5, <3>6
    <3>8. QED
      BY <3>7 DEF n, x1, x2, x3, x4
  <2>2. QED
    BY <2>1 DEF TopFailRule
<1>6. SetTree(u)
  <2> HIDE DEF x, n
  <2>1. u.nodes = [Tree.nodes EXCEPT ![r] = x] /\ u.pool = Tree.pool
    BY <1>2, EditedIs
  <2>2. u.nodes = [node EXCEPT ![r] = x] /\ u.pool = pool
    BY <2>1 DEF Tree
  <2>3. QED
    BY <1>5, <2>2 DEF SetTree
<1> HIDE DEF n
<1>7. SamePlace(n, x) /\ x.state = n.entry /\ x.entry = n.entry
  <2> DEFINE e == n.entry
             x1 == [n EXCEPT !.failHandlingNeeded = FALSE, !.failCount = 0]
             x2 == [x1 EXCEPT !.allocationNeeded = TRUE, !.state = e, !.failedSubPlans = NoFailures]
  <2>1. e \in States \cup {NoState} /\ 0 \in 0..FailLimit /\ x = x2
    BY <1>4 DEF FailLimit
  <2> HIDE DEF e
  <2>2. SamePlace(n, x1) /\ x1.entry = n.entry
    BY <1>2, <2>1 DEF SamePlace, Node
  <2> HIDE DEF x1
  <2>3. SamePlace(x1, x2) /\ x2.state = e /\ x2.entry = x1.entry
    BY <1>4, <2>1, <2>2 DEF SamePlace, Node
  <2> HIDE DEF x, x2
  <2>4. QED
    BY <2>1, <2>2, <2>3 DEF SamePlace, e
<1> HIDE DEF x
<1>8. QED
  BY <1>6, <1>7 DEF n, u

\* ... which keeps the invariant: nothing is asked of the children of the root.
LEMMA TopFailKeeps ==
  ASSUME PlanTreeAssumption, PlanTreeInv, TopFailRule PROVE PlanTreeInv'
<1>1. pc = "visit" /\ node[r].parent = None /\ Proceed("allocation", "InternalChange")
  BY DEF TopFailRule, At, Due
<1>2. /\ Fits(Tree, root, stack) /\ r \in ActiveIn(Tree.nodes) /\ r \in Insts
      /\ Tree.nodes = node /\ stack \in Seq(Frame)
  BY <1>1, TreeFits
<1>3. r = root /\ node[r].entry \in States /\ node[r].entry # NoState
  BY <1>1, VisitedParent DEF PlanTreeAssumption
<1>4. PICK x : /\ SamePlace(node[r], x) /\ x.state = node[r].entry /\ x.entry = node[r].entry
               /\ SetTree(Edited(Tree, r, x))
  BY TopFailDoes
<1> DEFINE u == Edited(Tree, r, x)
<1>5. Fits(u, root, stack) /\ ActiveIn(u.nodes) = ActiveIn(Tree.nodes)
  <2>1. SamePlace(Tree.nodes[r], x)
    BY <1>2, <1>4
  <2>2. /\ x.active = "Active" /\ (x.allocationNeeded \/ x.children # << >>) => x.state # NoState
        /\ r = root => x.entry \in States
        /\ ~(x.active = "Active" /\ r # root /\ x.children # << >>)
    BY <1>3, <1>4
  <2>3. QED
    BY <1>2, <2>1, <2>2, EditFits
<1>6. SetTree(u)
  BY <1>4
<1> HIDE DEF u
<1>7. QED
  BY <1>1, <1>2, <1>5, <1>6, GoesOn

\* allocationRule (RuleBook.cpp:336) clears the flag and has either the plan's state
\* allocated or the failure counted.
LEMMA AllocationDoes ==
  ASSUME PlanTreeAssumption, PlanTreeInv, AllocationRule
  PROVE  \E x :
           /\ SamePlace(node[r], x) /\ x.state = node[r].state /\ x.entry = node[r].entry
           /\ ~ x.allocationNeeded
           /\ LET begun == Edited(Tree, r, x)
              IN  \/ SetTree(AddFailure(begun, r)) /\ Proceed("authority", "FailChange")
                  \/ \E tasks \in Tasks, c \in {"NoChange", "InternalChange"} :
                       /\ Allocate(begun, r, tasks).room
                       /\ SetTree(Allocate(begun, r, tasks).tree) /\ Proceed("authority", c)
<1> DEFINE n == node[r]
           x == [n EXCEPT !.allocationNeeded = FALSE]
           begun == Edited(Tree, r, x)
<1>1. pc = "visit"
  BY DEF AllocationRule, At
<1>2. n \in Node
  BY <1>1, TreeFits
<1>3. \/ SetTree(AddFailure(begun, r)) /\ Proceed("authority", "FailChange")
      \/ \E tasks \in Tasks, c \in {"NoChange", "InternalChange"} :
           /\ Allocate(begun, r, tasks).room
           /\ SetTree(Allocate(begun, r, tasks).tree) /\ Proceed("authority", c)
  BY DEF AllocationRule, begun, Edited, x, n, Tree, Changes
<1> HIDE DEF n
<1>4. SamePlace(n, x) /\ x.state = n.state /\ x.entry = n.entry /\ ~ x.allocationNeeded
  BY <1>2 DEF SamePlace, Node
<1> HIDE DEF x
<1>5. QED
  BY <1>3, <1>4 DEF n, begun

\* A plan that waits for an allocation has a state, so that it gets that state's
\* children, on which the invariant agrees, or reports a failure.
LEMMA AllocationKeeps ==
  ASSUME PlanTreeAssumption, PlanTreeInv, AllocationRule PROVE PlanTreeInv'
<1> DEFINE n == node[r]
<1>1. pc = "visit" /\ n.allocationNeeded
  BY DEF AllocationRule, At, Due
<1>2. /\ Fits(Tree, root, stack) /\ r \in ActiveIn(Tree.nodes) /\ r \in Insts
      /\ n \in Node /\ Tree.nodes = node /\ stack \in Seq(Frame)
  BY <1>1, TreeFits
<1>3. n.state \in States /\ n.active = "Active" /\ (r = root => n.entry \in States)
  <2>1. n.state # NoState
    BY <1>1, <1>2 DEF Fits, Allocatable
  <2>2. r = root => root # None
    BY <1>2 DEF Insts, None
  <2>3. QED
    BY <1>2, <2>1, <2>2 DEF Fits, Allocatable, Node, ActiveIn
<1> HIDE DEF n
<1>4. r # root => n.children = << >>
  BY <1>1, <1>2 DEF Fits, Suited, Suits, n
<1>5. PICK x :
        /\ SamePlace(n, x) /\ x.state = n.state /\ x.entry = n.entry /\ ~ x.allocationNeeded
        /\ LET begun == Edited(Tree, r, x)
           IN  \/ SetTree(AddFailure(begun, r)) /\ Proceed("authority", "FailChange")
               \/ \E tasks \in Tasks, c \in {"NoChange", "InternalChange"} :
                    /\ Allocate(begun, r, tasks).room
                    /\ SetTree(Allocate(begun, r, tasks).tree) /\ Proceed("authority", c)
  BY AllocationDoes DEF n
<1> DEFINE begun == Edited(Tree, r, x)
<1>6. \/ SetTree(AddFailure(begun, r)) /\ Proceed("authority", "FailChange")
      \/ \E tasks \in Tasks, c \in {"NoChange", "InternalChange"} :
           /\ Allocate(begun, r, tasks).room
           /\ SetTree(Allocate(begun, r, tasks).tree) /\ Proceed("authority", c)
  BY <1>5
<1>7. n.state # NoState
  BY <1>3 DEF PlanTreeAssumption
<1>8. /\ Fits(begun, root, stack) /\ ActiveIn(begun.nodes) = ActiveIn(Tree.nodes)
      /\ begun.nodes[r] = x /\ \A j \in Insts \ {r} : begun.nodes[j] = Tree.nodes[j]
  BY <1>2, <1>3, <1>5, <1>7, EditFits DEF n
<1> HIDE DEF begun
<1>9. CASE SetTree(AddFailure(begun, r)) /\ Proceed("authority", "FailChange")
  <2>1. Fits(AddFailure(begun, r), root, stack) /\ r \in ActiveIn(AddFailure(begun, r).nodes)
    BY <1>2, <1>8, FailureFits
  <2>2. QED
    BY <1>1, <1>9, <2>1, GoesOn
<1>10. CASE \E tasks \in Tasks, c \in {"NoChange", "InternalChange"} :
              /\ Allocate(begun, r, tasks).room
              /\ SetTree(Allocate(begun, r, tasks).tree) /\ Proceed("authority", c)
  <2>1. PICK tasks \in Tasks, c \in {"NoChange", "InternalChange"} :
          /\ Allocate(begun, r, tasks).room
          /\ SetTree(Allocate(begun, r, tasks).tree) /\ Proceed("authority", c)
    BY <1>10
  <2>2. DropsAt(begun.nodes, stack, stack[Len(stack)].inst)
    <3>1. DropsAt(node, stack, stack[Len(stack)].inst)
      BY <1>1, VisitedPlan
    <3>2. QED
      BY <1>2, <1>8, <3>1 DEF DropsAt
  <2>3. r \in ActiveIn(begun.nodes) /\ begun.nodes[r].state \in States
    BY <1>2, <1>3, <1>5, <1>8
  <2>4. r # root => begun.nodes[r].children = << >> /\ ~ begun.nodes[r].allocationNeeded
    BY <1>5, <1>8, <1>4 DEF SamePlace
  <2>5. /\ Fits(Allocate(begun, r, tasks).tree, root, stack)
        /\ r \in ActiveIn(Allocate(begun, r, tasks).tree.nodes)
    BY <1>2, <1>8, <2>1, <2>2, <2>3, <2>4, AllocateFits
  <2>6. QED
    BY <1>1, <2>1, <2>5, GoesOn
<1>11. QED
  BY <1>6, <1>9, <1>10

\* The states an allocation may put the robot in.
LEMMA TasksAreStates ==
  ASSUME PlanTreeAssumption, PlanTreeInv, pc = "visit", ~ IsBehaviour(r)
  PROVE  TasksIn(r) \subseteq States \cup {NoState}
<1>1. node[r].type \in Plans
  BY TreeFits DEF Node, Types, IsBehaviour
<1>2. QED
  BY <1>1 DEF TasksIn, TasksOf, PlanTreeAssumption

\* applyAssignment (CycleManager.cpp:213): the children are dropped, the state is
\* the one of the task that was assigned.
LEMMA AuthorityDoes ==
  ASSUME PlanTreeAssumption, PlanTreeInv, AuthorityOverrideRule, ~ UNCHANGED <<node, pool>>
  PROVE  LET d == DropChildren(Tree, r)
         IN  \E s \in TasksIn(r) \ {NoState}, x \in Node :
               /\ SamePlace(d.nodes[r], x) /\ x.state = s /\ x.entry = s
               /\ SetTree(Edited(d, r, x))
<1> DEFINE d == DropChildren(Tree, r)
           n == d.nodes[r]
<1>1. pc = "visit" /\ ~ IsBehaviour(r)
  BY Zenon DEF AuthorityOverrideRule, At
<1>2. PICK s \in TasksIn(r) \ {NoState, node[r].entry} :
        SetTree([d EXCEPT !.nodes[r].entry = s, !.nodes[r].state = s,
                          !.nodes[r].failedSubPlans = NoFailures,
                          !.nodes[r].allocationNeeded = TRUE])
  BY Zenon DEF AuthorityOverrideRule
<1>3. s \in States
  BY <1>1, TasksAreStates
<1>4. d \in TreeType /\ n \in Node /\ r \in Insts
  BY <1>1, VisitedDrop, TreeFits
<1> DEFINE x1 == [n EXCEPT !.entry = s]
           x2 == [x1 EXCEPT !.state = s]
           x3 == [x2 EXCEPT !.failedSubPlans = NoFailures]
           x == [x3 EXCEPT !.allocationNeeded = TRUE]
           t1 == Edited(d, r, x1)
           t2 == Edited(d, r, x2)
           t3 == Edited(d, r, x3)
           u == Edited(d, r, x)
<1>5. SetTree([[[t1 EXCEPT !.nodes[r].state = s] EXCEPT !.nodes[r].failedSubPlans = NoFailures]
                 EXCEPT !.nodes[r].allocationNeeded = TRUE])
  BY <1>2 DEF Edited
<1> HIDE DEF d, n
<1>6. NoFailures \in [Types -> 0..FailLimit] /\ s \in States \cup {NoState}
  BY <1>3 DEF NoFailures, FailLimit
<1>7. SamePlace(n, x) /\ x.state = s /\ x.entry = s
  BY <1>4, <1>6 DEF SamePlace, Node
<1> HIDE DEF x1
<1>8. t1.nodes[r] = x1 /\ Edited(t1, r, x2) = t2
  BY <1>4, EditedTwice
<1>9. [t1 EXCEPT !.nodes[r].state = s] = t2
  BY <1>8 DEF Edited
<1> HIDE DEF x2, t1
<1>10. t2.nodes[r] = x2 /\ Edited(t2, r, x3) = t3
  BY <1>4, EditedTwice
<1>11. [t2 EXCEPT !.nodes[r].failedSubPlans = NoFailures] = t3
  BY <1>10 DEF Edited
<1> HIDE DEF x3, t2
<1>12. t3.nodes[r] = x3 /\ Edited(t3, r, x) = u
  BY <1>4, EditedTwice
<1>13. [t3 EXCEPT !.nodes[r].allocationNeeded = TRUE] = u
  BY <1>12 DEF Edited
<1> HIDE DEF x, t3
<1>14. SetTree(u)
  BY <1>5, <1>9, <1>11, <1>13
<1>15. s \in TasksIn(r) \ {NoState} /\ x \in Node
  BY <1>2, <1>7 DEF SamePlace
<1>16. QED
  BY <1>7, <1>14, <1>15 DEF d, n, u

\* An allocation follows, which finds a state.
LEMMA AuthorityKeeps ==
  ASSUME PlanTreeAssumption, PlanTreeInv, AuthorityOverrideRule PROVE PlanTreeInv'
<1>1. pc = "visit" /\ ~ IsBehaviour(r) /\ Proceed("dynamic", "InternalChange")
  BY Zenon DEF AuthorityOverrideRule, At
<1>2. CASE UNCHANGED <<node, pool>>
  BY <1>1, <1>2, TreeFits, GoesOn
<1>3. CASE ~ UNCHANGED <<node, pool>>
  <2> DEFINE d == DropChildren(Tree, r)
             n == d.nodes[r]
  <2>1. PICK s \in TasksIn(r) \ {NoState}, x \in Node :
          SamePlace(n, x) /\ x.state = s /\ x.entry = s /\ SetTree(Edited(d, r, x))
    BY <1>3, AuthorityDoes
  <2>2. s \in States /\ s # NoState
    BY <1>1, TasksAreStates
  <2>3. Fits(d, root, stack) /\ d \in TreeType /\ r \in ActiveIn(d.nodes) /\ n.children = << >>
    BY <1>1, VisitedDrop
  <2> DEFINE u == Edited(d, r, x)
  <2> HIDE DEF d, n
  <2>4. x.children = << >>
    BY <2>1, <2>3 DEF SamePlace
  <2>5. r \in Insts /\ stack \in Seq(Frame)
    BY <1>1, TreeFits
  <2>6. Fits(u, root, stack) /\ ActiveIn(u.nodes) = ActiveIn(d.nodes)
    BY <2>1, <2>2, <2>3, <2>4, <2>5, EditFits DEF n
  <2>7. SetTree(u)
    BY <2>1
  <2> HIDE DEF u
  <2>8. QED
    BY <1>1, <2>3, <2>6, <2>7, GoesOn
<1>4. QED
  BY <1>2, <1>3

\* dynamicAllocationRule (RuleBook.cpp:133) with another task for the robot: in
\* adaptAssignment the children stay in the same state, and are dropped before
\* another.
LEMMA DynamicDoes ==
  ASSUME PlanTreeAssumption, PlanTreeInv, DynamicAllocationRule, ~ UNCHANGED <<node, pool>>
  PROVE  \E s \in TasksIn(r), x \in Node :
           /\ x.state = s /\ x.entry = s
           /\ \/ /\ s = node[r].state /\ SamePlace(node[r], x) /\ ~ x.allocationNeeded
                 /\ SetTree(Edited(Tree, r, x))
              \/ LET d == DropChildren(Tree, r)
                 IN  /\ SamePlace(d.nodes[r], x) /\ (x.allocationNeeded => s # NoState)
                     /\ SetTree(Edited(d, r, x))
<1>1. pc = "visit" /\ ~ IsBehaviour(r)
  BY DEF DynamicAllocationRule, At
<1>2. PICK s \in TasksIn(r) \ {node[r].entry} :
        SetTree([AdaptAssignment(Tree, r, s) EXCEPT
                   !.nodes[r].allocationNeeded = s \notin {NoState, node[r].state}])
  BY DEF DynamicAllocationRule
<1>3. s \in States \cup {NoState} /\ s \in TasksIn(r)
  BY <1>1, TasksAreStates
<1>4. Tree \in TreeType /\ r \in Insts /\ node[r] \in Node /\ Tree.nodes = node
  BY <1>1, TreeFits
<1> DEFINE b == s \notin {NoState, node[r].state}
<1>5. CASE s = node[r].state
  <2> DEFINE n == Tree.nodes[r]
             x1 == [n EXCEPT !.entry = s]
             x == [x1 EXCEPT !.allocationNeeded = b]
             t1 == Edited(Tree, r, x1)
             u == Edited(Tree, r, x)
  <2>1. SetTree([t1 EXCEPT !.nodes[r].allocationNeeded = b])
    BY <1>2, <1>4, <1>5 DEF AdaptAssignment, Edited
  <2>2. b = FALSE /\ n \in Node /\ n.state = s
    BY <1>4, <1>5
  <2> HIDE DEF n, b
  <2>3. SamePlace(n, x) /\ ~ x.allocationNeeded /\ x.state = s /\ x.entry = s
    BY <1>3, <2>2 DEF SamePlace, Node
  <2> HIDE DEF x1
  <2>4. t1.nodes[r] = x1 /\ Edited(t1, r, x) = u
    BY <1>4, EditedTwice
  <2>5. SetTree(u)
    BY <2>1, <2>4 DEF Edited
  <2> HIDE DEF x, t1
  <2>6. x \in Node /\ SamePlace(node[r], x)
    BY <1>4, <2>3 DEF SamePlace, n
  <2>7. QED
    BY <1>3, <1>5, <2>3, <2>5, <2>6 DEF u
<1>6. CASE s # node[r].state
  <2> DEFINE d == DropChildren(Tree, r)
             n == d.nodes[r]
             x1 == [n EXCEPT !.entry = s]
             x2 == [x1 EXCEPT !.state = s]
             x == [x2 EXCEPT !.allocationNeeded = b]
             t1 == Edited(d, r, x1)
             t2 == Edited(d, r, x2)
             u == Edited(d, r, x)
  <2>1. SetTree([[t1 EXCEPT !.nodes[r].state = s] EXCEPT !.nodes[r].allocationNeeded = b])
    BY <1>2, <1>4, <1>6 DEF AdaptAssignment, Edited
  <2>2. d \in TreeType /\ n \in Node
    BY <1>1, VisitedDrop
  <2>3. b \in BOOLEAN /\ (b => s # NoState)
    OBVIOUS
  <2> HIDE DEF n, b, d
  <2>4. SamePlace(n, x) /\ x.allocationNeeded = b /\ x.state = s /\ x.entry = s
    BY <1>3, <2>2, <2>3 DEF SamePlace, Node
  <2> HIDE DEF x1
  <2>5. t1.nodes[r] = x1 /\ Edited(t1, r, x2) = t2
    BY <1>4, <2>2, EditedTwice
  <2>6. [t1 EXCEPT !.nodes[r].state = s] = t2
    BY <2>5 DEF Edited
  <2> HIDE DEF x2, t1
  <2>7. t2.nodes[r] = x2 /\ Edited(t2, r, x) = u
    BY <1>4, <2>2, EditedTwice
  <2>8. [t2 EXCEPT !.nodes[r].allocationNeeded = b] = u
    BY <2>7 DEF Edited
  <2>9. SetTree(u)
    BY <2>1, <2>6, <2>8
  <2> HIDE DEF x, t2
  <2>10. x \in Node
    BY <2>4 DEF SamePlace
  <2>11. QED
    BY <1>3, <2>3, <2>4, <2>9, <2>10 DEF d, n, u
<1>7. QED
  BY <1>5, <1>6

\* The plan keeps a state for the children it keeps.
LEMMA DynamicKeeps ==
  ASSUME PlanTreeAssumption, PlanTreeInv, DynamicAllocationRule PROVE PlanTreeInv'
<1>1. pc = "visit" /\ ~ IsBehaviour(r) /\ node[r].parent # None /\ Proceed("abort", "InternalChange")
  BY DEF DynamicAllocationRule, At
<1>2. CASE UNCHANGED <<node, pool>>
  BY <1>1, <1>2, TreeFits, GoesOn
<1>3. CASE ~ UNCHANGED <<node, pool>>
  <2>1. /\ Fits(Tree, root, stack) /\ Tree \in TreeType /\ r \in ActiveIn(Tree.nodes) /\ r \in Insts
        /\ node[r] \in Node /\ Tree.nodes = node /\ stack \in Seq(Frame) /\ r # root
    BY <1>1, TreeFits, VisitedParent
  <2> DEFINE d == DropChildren(Tree, r)
             n == d.nodes[r]
  <2>2. PICK s \in TasksIn(r), x \in Node :
          /\ x.state = s /\ x.entry = s
          /\ \/ /\ s = node[r].state /\ SamePlace(node[r], x) /\ ~ x.allocationNeeded
                /\ SetTree(Edited(Tree, r, x))
             \/ /\ SamePlace(n, x) /\ (x.allocationNeeded => s # NoState)
                /\ SetTree(Edited(d, r, x))
    BY <1>3, DynamicDoes
  <2>3. CASE /\ s = node[r].state /\ SamePlace(node[r], x) /\ ~ x.allocationNeeded
             /\ SetTree(Edited(Tree, r, x))
    <3> DEFINE u == Edited(Tree, r, x)
    <3>1. x.children = node[r].children /\ (node[r].children # << >> => node[r].state # NoState)
      BY <2>1, <2>3 DEF SamePlace, Fits, Allocatable, Settled
    <3>2. SamePlace(Tree.nodes[r], x) /\ SetTree(u)
      BY <2>1, <2>3
    <3>3. Fits(u, root, stack) /\ ActiveIn(u.nodes) = ActiveIn(Tree.nodes)
      BY <2>1, <2>2, <2>3, <3>1, <3>2, EditFits
    <3> HIDE DEF u
    <3>4. QED
      BY <1>1, <2>1, <3>2, <3>3, GoesOn
  <2>4. CASE /\ SamePlace(n, x) /\ (x.allocationNeeded => s # NoState)
             /\ SetTree(Edited(d, r, x))
    <3> DEFINE u == Edited(d, r, x)
    <3>1. Fits(d, root, stack) /\ d \in TreeType /\ r \in ActiveIn(d.nodes) /\ n.children = << >>
      BY <1>1, VisitedDrop
    <3> HIDE DEF n, d
    <3>2. x.children = << >>
      BY <2>4, <3>1 DEF SamePlace
    <3>3. Fits(u, root, stack) /\ ActiveIn(u.nodes) = ActiveIn(d.nodes)
      BY <2>1, <2>2, <2>4, <3>1, <3>2, EditFits DEF n
    <3>4. SetTree(u)
      BY <2>4
    <3> HIDE DEF u
    <3>5. QED
      BY <1>1, <3>1, <3>3, <3>4, GoesOn
  <2>5. QED
    BY <2>2, <2>3, <2>4
<1>4. QED
  BY <1>2, <1>3

\* planRedoRule (RuleBook.cpp:244) of a plan that has left its initial state drops
\* the children and puts the plan back there.
LEMMA RedoDoes ==
  ASSUME PlanTreeAssumption, PlanTreeInv, PlanRedoRule, node[r].state # node[r].entry
  PROVE  LET d == DropChildren(Tree, r)
         IN  \E x : /\ SamePlace(d.nodes[r], x) /\ x.state = node[r].entry
                    /\ x.entry = node[r].entry /\ SetTree(Edited(d, r, x))
<1> DEFINE d == DropChildren(Tree, r)
           n == d.nodes[r]
           s == node[r].entry
           x1 == [n EXCEPT !.failHandlingNeeded = FALSE]
           x2 == [x1 EXCEPT !.state = s]
           x == [x2 EXCEPT !.allocationNeeded = TRUE]
           t1 == Edited(d, r, x1)
           t2 == Edited(d, r, x2)
           u == Edited(d, r, x)
<1>1. pc = "visit"
  BY DEF PlanRedoRule, At
<1>2. SetTree([[t1 EXCEPT !.nodes[r].state = s] EXCEPT !.nodes[r].allocationNeeded = TRUE])
  BY DEF PlanRedoRule, Edited
<1>3. d \in TreeType /\ n \in Node /\ n.entry = s
  BY <1>1, VisitedDrop, TreeFits DEF SameData
<1>4. s \in States \cup {NoState} /\ r \in Insts
  BY <1>1, TreeFits DEF Node
<1> HIDE DEF n, d, s
<1>5. SamePlace(n, x) /\ x.state = s /\ x.entry = s
  BY <1>3, <1>4 DEF SamePlace, Node
<1> HIDE DEF x1
<1>6. t1.nodes[r] = x1 /\ Edited(t1, r, x2) = t2
  BY <1>3, <1>4, EditedTwice
<1>7. [t1 EXCEPT !.nodes[r].state = s] = t2
  BY <1>6 DEF Edited
<1> HIDE DEF x2, t1
<1>8. t2.nodes[r] = x2 /\ Edited(t2, r, x) = u
  BY <1>3, <1>4, EditedTwice
<1>9. [t2 EXCEPT !.nodes[r].allocationNeeded = TRUE] = u
  BY <1>8 DEF Edited
<1>10. SetTree(u)
  BY <1>2, <1>7, <1>9
<1> HIDE DEF x
<1>11. QED
  BY <1>5, <1>10 DEF d, n, s, u

\* Redoing keeps the invariant: the rule applies to a plan that has a task.
LEMMA RedoKeeps ==
  ASSUME PlanTreeAssumption, PlanTreeInv, PlanRedoRule PROVE PlanTreeInv'
<1>1. pc = "visit" /\ node[r].entry # NoState
  BY DEF PlanRedoRule, At, Due
<1>2. CASE node[r].state = node[r].entry
  <2>1. SetTree(AddFailure(Tree, r)) /\ Proceed("replace", "FailChange")
    BY <1>2 DEF PlanRedoRule
  <2>2. Fits(AddFailure(Tree, r), root, stack) /\ r \in ActiveIn(AddFailure(Tree, r).nodes)
    BY <1>1, TreeFits, FailureFits
  <2>3. QED
    BY <1>1, <2>1, <2>2, GoesOn
<1>3. CASE node[r].state # node[r].entry
  <2> DEFINE d == DropChildren(Tree, r)
             n == d.nodes[r]
             s == node[r].entry
  <2>1. PICK x : /\ SamePlace(n, x) /\ x.state = s /\ x.entry = s
                 /\ SetTree(Edited(d, r, x))
    BY <1>3, RedoDoes
  <2>2. Proceed("replace", "InternalChange")
    BY <1>3 DEF PlanRedoRule
  <2>3. Fits(d, root, stack) /\ d \in TreeType /\ r \in ActiveIn(d.nodes) /\ n.children = << >>
    BY <1>1, VisitedDrop
  <2>4. s \in States /\ s # NoState /\ r \in Insts /\ stack \in Seq(Frame)
    BY <1>1, TreeFits DEF Node
  <2> DEFINE u == Edited(d, r, x)
  <2> HIDE DEF n, d, s
  <2>5. x.children = << >>
    BY <2>1, <2>3 DEF SamePlace
  <2>6. Fits(u, root, stack) /\ ActiveIn(u.nodes) = ActiveIn(d.nodes)
    BY <2>1, <2>3, <2>4, <2>5, EditFits DEF n
  <2>7. SetTree(u)
    BY <2>1
  <2> HIDE DEF u
  <2>8. QED
    BY <1>1, <2>2, <2>3, <2>6, <2>7, GoesOn
<1>4. QED
  BY <1>2, <1>3

\* planReplaceRule (RuleBook.cpp:282): the visited plan leaves the tree with the
\* other children of its parent, which counts the failure and is allocated again.
LEMMA ReplaceDoes ==
  ASSUME PlanTreeAssumption, PlanTreeInv, PlanReplaceRule
  PROVE  LET p == node[r].parent
             d == DropChildren(Tree, p)
         IN  \E x \in Node, y \in Node :
               /\ SamePlace(d.nodes[p], x)
               /\ x.state = d.nodes[p].state /\ x.entry = d.nodes[p].entry
               /\ SamePlace(d.nodes[r], y)
               /\ SetTree(Edited(Edited(d, p, x), r, y))
<1> DEFINE p == node[r].parent
           d == DropChildren(Tree, p)
           n == d.nodes[p]
           ty == node[r].type
           x1 == [n EXCEPT !.failedSubPlans[ty] = Count(n.failedSubPlans[ty] + 1)]
           x == [x1 EXCEPT !.allocationNeeded = TRUE]
           t1 == Edited(d, p, x1)
           u1 == Edited(d, p, x)
           y == [u1.nodes[r] EXCEPT !.failHandlingNeeded = FALSE]
           u == Edited(u1, r, y)
<1>1. pc = "visit" /\ p # None
  BY Zenon DEF PlanReplaceRule, At, Due, Fails
<1>2. SetTree([[t1 EXCEPT !.nodes[p].allocationNeeded = TRUE] EXCEPT !.nodes[r].failHandlingNeeded = FALSE])
  BY Zenon DEF PlanReplaceRule, Edited
<1>3. /\ Fits(Tree, root, stack) /\ r \in Insts /\ node[r] \in Node
      /\ Tree.nodes = node /\ stack \in Seq(Frame)
      /\ p \in ActiveIn(node) /\ p \in Insts /\ r \in Kids(node, p)
  BY <1>1, TreeFits, VisitedParent
<1>4. DropsAt(node, stack, p)
  BY <1>1, VisitedPlan
<1> HIDE DEF d
<1>5. Fits(d, root, stack) /\ p \in ActiveIn(d.nodes) /\ d.nodes[r].active = "Retired"
  <2>1. p \in ActiveIn(Tree.nodes) /\ DropsAt(Tree.nodes, stack, p) /\ r \in Kids(Tree.nodes, p)
    BY <1>3, <1>4
  <2>2. Fits(d, root, stack) /\ p \in ActiveIn(d.nodes)
    BY <1>3, <2>1, DropFits DEF d
  <2>3. d.nodes[r].active = "Retired"
    BY <1>3, <2>1, DropFits DEF d
  <2>4. QED
    BY <2>2, <2>3
<1>6. d \in TreeType /\ d.nodes \in Nodes /\ d.nodes[r] \in Node /\ n \in Node /\ p # r
  BY <1>3, <1>5 DEF Fits, Good, TreeType, Nodes, ActiveIn
<1>7. ty \in Types
  BY <1>3 DEF Node
<1> HIDE DEF n, ty, p
<1>8. SamePlace(n, x) /\ x.state = n.state /\ x.entry = n.entry
  <2> DEFINE e == Count(n.failedSubPlans[ty] + 1)
             f == [n.failedSubPlans EXCEPT ![ty] = e]
  <2>1. e \in 0..FailLimit
    <3>1. n.failedSubPlans \in [Types -> 0..FailLimit]
      BY <1>6 DEF Node
    <3>2. n.failedSubPlans[ty] \in 0..FailLimit
      BY <1>7, <3>1
    <3>3. QED
      BY <3>2 DEF Count, FailLimit
  <2>2. x1 = [n EXCEPT !.failedSubPlans = f]
    OBVIOUS
  <2> HIDE DEF e
  <2>3. f \in [Types -> 0..FailLimit]
    BY <1>6, <1>7, <2>1 DEF Node
  <2> HIDE DEF f, x1
  <2>4. QED
    BY <1>6, <2>2, <2>3 DEF SamePlace, Node
<1> HIDE DEF x1
<1>9. t1.nodes[p] = x1 /\ Edited(t1, p, x) = u1
  BY <1>3, <1>6, EditedTwice
<1>10. [t1 EXCEPT !.nodes[p].allocationNeeded = TRUE] = u1
  BY <1>9 DEF Edited
<1> HIDE DEF x, t1
<1>11. u1.nodes[r] = d.nodes[r]
  <2>1. u1.nodes = [d.nodes EXCEPT ![p] = x]
    BY <1>6, EditedIs
  <2>2. QED
    BY <1>3, <1>6, <2>1 DEF Nodes
<1>12. SetTree(u)
  BY <1>2, <1>10 DEF Edited
<1> HIDE DEF u1
<1>13. SamePlace(d.nodes[r], y) /\ y \in Node
  BY <1>6, <1>11 DEF SamePlace, Node
<1>14. x \in Node
  BY <1>8 DEF SamePlace
<1> HIDE DEF y
<1>15. QED
  BY <1>8, <1>12, <1>13, <1>14 DEF d, n, p, u, u1

\* The visit returns from a plan that is not in the tree any more.
LEMMA ReplaceKeeps ==
  ASSUME PlanTreeAssumption, PlanTreeInv, PlanReplaceRule PROVE PlanTreeInv'
<1> DEFINE p == node[r].parent
           d == DropChildren(Tree, p)
           n == d.nodes[p]
<1>1. pc = "visit" /\ p # None /\ Return("FailChange")
  BY Zenon DEF PlanReplaceRule, At, Due, Fails
<1>2. PICK x \in Node, y \in Node :
        /\ SamePlace(n, x) /\ x.state = n.state /\ x.entry = n.entry
        /\ SamePlace(d.nodes[r], y) /\ SetTree(Edited(Edited(d, p, x), r, y))
  BY ReplaceDoes
<1> DEFINE u1 == Edited(d, p, x)
           u == Edited(u1, r, y)
<1>3. /\ Fits(Tree, root, stack) /\ Tree \in TreeType /\ r \in Insts /\ node[r] \in Node
      /\ Tree.nodes = node /\ stack \in Seq(Frame)
      /\ r # root /\ p \in ActiveIn(node) /\ p \in Insts /\ r \in Kids(node, p)
  BY <1>1, TreeFits, VisitedParent
<1>4. DropsAt(node, stack, p)
  BY <1>1, VisitedPlan
<1> HIDE DEF d
<1>5. /\ Fits(d, root, stack) /\ p \in ActiveIn(d.nodes)
      /\ \A j \in Insts : SameData(node, d.nodes, j)
      /\ d.nodes[r].active = "Retired" /\ d.nodes[r].parent = None /\ n.children = << >>
  <2>1. p \in ActiveIn(Tree.nodes) /\ DropsAt(Tree.nodes, stack, p) /\ r \in Kids(Tree.nodes, p)
    BY <1>3, <1>4
  <2>2. Fits(d, root, stack) /\ p \in ActiveIn(d.nodes)
    BY <1>3, <2>1, DropFits DEF d
  <2>3. \A j \in Insts : SameData(node, d.nodes, j)
    BY <1>3, <2>1, DropFits DEF d
  <2>4. d.nodes[r].active = "Retired" /\ d.nodes[r].parent = None
    BY <1>3, <2>1, DropFits DEF d
  <2>5. n.children = << >>
    <3>1. DropChildren(Tree, p).nodes[p].children = << >>
      BY <1>3, <2>1, DropFits
    <3>2. QED
      BY <3>1 DEF d, n
  <2>6. QED
    BY <2>2, <2>3, <2>4, <2>5
<1>6. p # r /\ n.active = "Active"
  BY <1>5 DEF ActiveIn
<1>7. n.state # NoState /\ (p = root => n.entry \in States)
  <2>1. node[p].children # << >>
    <3>1. node[p].children \in Seq(Insts)
      BY <1>3 DEF TreeType, Nodes, Node
    <3>2. QED
      BY <1>3, <3>1 DEF Kids, ToSet
  <2>2. node[p].state # NoState
    BY <1>3, <2>1 DEF Fits, Allocatable, Settled
  <2>3. p = root => root # None /\ n.entry \in States
    BY <1>1, <1>5 DEF Fits, Allocatable
  <2>4. QED
    BY <1>3, <1>5, <2>2, <2>3 DEF SameData
<1> HIDE DEF n, p
<1>8. x.children = << >>
  BY <1>2, <1>5 DEF SamePlace
<1>9. /\ Fits(u1, root, stack) /\ ActiveIn(u1.nodes) = ActiveIn(d.nodes)
      /\ \A j \in Insts \ {p} : u1.nodes[j] = d.nodes[j]
  BY <1>2, <1>3, <1>5, <1>7, <1>8, EditFits DEF n
<1>10. SetTree(u)
  BY <1>2 DEF n
<1> HIDE DEF u1
<1>11. u1.nodes[r] = d.nodes[r]
  BY <1>3, <1>6, <1>9
<1>12. SamePlace(u1.nodes[r], y) /\ y.active = "Retired" /\ y.parent = None
  BY <1>2, <1>5, <1>11 DEF SamePlace
<1>13. Fits(u, root, stack) /\ u.nodes[r] = y
  <2>1. Fits(u1, root, stack) /\ stack \in Seq(Frame) /\ r \in Insts /\ r # root
    BY <1>3, <1>9
  <2>2. SamePlace(u1.nodes[r], y) /\ y.active # "Active"
    BY <1>12
  <2>3. QED
    BY <2>1, <2>2, EditFits
<1> HIDE DEF u
<1>14. QED
  BY <1>1, <1>10, <1>12, <1>13, Returns DEF Changes

\* planPropagationRule (RuleBook.cpp:312) counts a failure of the parent and changes
\* a flag of the plan.
LEMMA PropagationDoes ==
  ASSUME PlanTreeAssumption, PlanTreeInv, PlanPropagationRule
  PROVE  LET t == AddFailure(Tree, node[r].parent)
         IN  \E y : /\ SamePlace(t.nodes[r], y) /\ y.allocationNeeded = t.nodes[r].allocationNeeded
                    /\ y.state = t.nodes[r].state /\ y.entry = t.nodes[r].entry
                    /\ SetTree(Edited(t, r, y))
<1> DEFINE p == node[r].parent
           t == AddFailure(Tree, p)
           n == t.nodes[r]
           y == [n EXCEPT !.failHandlingNeeded = FALSE]
<1>1. pc = "visit" /\ p # None
  BY DEF PlanPropagationRule, At, Due, Fails
<1>2. SetTree(Edited(t, r, y))
  BY DEF PlanPropagationRule, Edited
<1>3. /\ Fits(Tree, root, stack) /\ r \in Insts /\ stack \in Seq(Frame)
      /\ Tree.nodes = node /\ p \in ActiveIn(node)
  BY <1>1, TreeFits, VisitedParent
<1>4. n \in Node
  BY <1>3, FailureFits DEF SamePlace
<1> HIDE DEF n
<1>5. /\ SamePlace(n, y) /\ y.allocationNeeded = n.allocationNeeded
      /\ y.state = n.state /\ y.entry = n.entry
  BY <1>4 DEF SamePlace, Node
<1> HIDE DEF y
<1>6. QED
  BY <1>2, <1>5 DEF n

\* A propagated failure keeps the invariant.
LEMMA PropagationKeeps ==
  ASSUME PlanTreeAssumption, PlanTreeInv, PlanPropagationRule PROVE PlanTreeInv'
<1> DEFINE p == node[r].parent
           t == AddFailure(Tree, p)
<1>1. pc = "visit" /\ p # None /\ Return(v.ms) /\ v.ms \in Changes
  BY DEF PlanPropagationRule, At, Due, Fails, PlanTreeInv, TypeOK, Visit
<1>2. PICK y : /\ SamePlace(t.nodes[r], y) /\ y.allocationNeeded = t.nodes[r].allocationNeeded
               /\ y.state = t.nodes[r].state /\ y.entry = t.nodes[r].entry
               /\ SetTree(Edited(t, r, y))
  BY PropagationDoes
<1> DEFINE u == Edited(t, r, y)
<1>3. /\ Fits(Tree, root, stack) /\ r \in ActiveIn(Tree.nodes) /\ r \in Insts /\ node[r] \in Node
      /\ Tree.nodes = node /\ stack \in Seq(Frame)
      /\ r # root /\ p \in ActiveIn(node)
  BY <1>1, TreeFits, VisitedParent
<1> HIDE DEF t
<1>4. Fits(t, root, stack) /\ ActiveIn(t.nodes) = ActiveIn(node)
  BY <1>3, FailureFits DEF t
<1>5. t.nodes[r].allocationNeeded \/ t.nodes[r].children # << >> => t.nodes[r].state # NoState
  BY <1>3, <1>4 DEF Fits, Allocatable, Settled
<1>6. y.children = t.nodes[r].children
  BY <1>2 DEF SamePlace
<1>7. Fits(u, root, stack) /\ ActiveIn(u.nodes) = ActiveIn(t.nodes)
  BY <1>2, <1>3, <1>4, <1>5, <1>6, EditFits
<1>8. SetTree(u)
  BY <1>2
<1> HIDE DEF u
<1>9. QED
  BY <1>1, <1>3, <1>4, <1>7, <1>8, Returns

\* Every rule keeps the invariant.
LEMMA VisitKeeps ==
  ASSUME PlanTreeAssumption, PlanTreeInv, VisitNext PROVE PlanTreeInv'
BY RoundKeeps, FailChangeKeeps, PropagationKeeps, ReplaceKeeps, RedoKeeps, AbortKeeps,
   TopFailKeeps, AllocationKeeps, AuthorityKeeps, DynamicKeeps, SynchKeeps,
   TransitionKeeps, LastTransitionKeeps
DEF VisitNext

-------------------------------------------------------------------------------
(* The engine thread outside the visits *)

\* A step that leaves the tree alone and the stack within it.
LEMMA SameTree ==
  ASSUME PlanTreeInv, UNCHANGED <<node, root, pool>>,
         stack' \in Seq(Frame), Path(node, stack'), fpEvents' \subseteq Insts,
         pc' \in {"idle", "visit", "return", "loop", "sweep", "clear", "wait", "fast"},
         v' \in Visit, ThreadFits'
  PROVE  PlanTreeInv'
<1>1. TypeOK'
  BY DEF PlanTreeInv, TypeOK
<1>2. Tree' = Tree
  BY DEF Tree
<1>3. Tree.nodes = node
  BY DEF Tree
<1>4. Good(Tree, root) /\ Allocatable(Tree.nodes, root) /\ Suited(Tree.nodes, root)
  BY DEF PlanTreeInv, Fits
<1>5. Fits(Tree, root, stack)'
  BY <1>2, <1>3, <1>4 DEF Fits
<1>6. QED
  BY <1>1, <1>5 DEF PlanTreeInv

\* The parts of the invariant.
LEMMA InvFacts ==
  ASSUME PlanTreeInv
  PROVE  /\ stack \in Seq(Frame) /\ Path(node, stack) /\ fpEvents \subseteq Insts /\ v \in Visit
         /\ node \in Nodes /\ Consistent(node, root) /\ Tree.nodes = node /\ Tree.pool = pool
         /\ pool \in Pools /\ PoolFits(node, pool)
         /\ root \in Insts \cup {None} /\ Allocatable(node, root) /\ Suited(node, root)
BY DEF PlanTreeInv, TypeOK, Fits, Good, Tree, Nodes, Pools

\* A visit begins with no change counted (RuleBook.cpp:78).
LEMMA NewVisit ==
  ASSUME PlanTreeAssumption, NEW i \in Insts, NEW who \in {"tick", "again", "fastFirst", "fast"},
         StartVisit(i, who)
  PROVE  /\ v' \in Visit /\ v'.inst = i /\ v'.caller = who /\ pc' = "visit"
         /\ v'.changes < MaxRuleApplications
<1>1. 1 \in DOMAIN RuleOrder /\ 0 \in 0..MaxRuleApplications /\ 0 < MaxRuleApplications
  BY Positions DEF PlanTreeAssumption
<1>2. QED
  BY <1>1 DEF StartVisit, Visit, Changes

\* The fields of a visit that is over.
LEMMA NoVisitType ==
  PlanTreeAssumption => /\ NoVisit \in Visit /\ NoVisit.changes < MaxRuleApplications
                        /\ NoVisit.caller = "tick"
<1> SUFFICES ASSUME PlanTreeAssumption
             PROVE  /\ NoVisit \in Visit /\ NoVisit.changes < MaxRuleApplications
                    /\ NoVisit.caller = "tick"
  OBVIOUS
<1>1. /\ 1 \in DOMAIN RuleOrder /\ 0 \in 0..MaxRuleApplications /\ 0 < MaxRuleApplications
      /\ 1 \in Insts
  BY Positions DEF PlanTreeAssumption, Insts
<1>2. QED
  BY <1>1 DEF NoVisit, Visit, Changes

\* A call of tick begins with its first child.
LEMMA EnterType ==
  ASSUME NEW i \in Insts PROVE Enter(i) \in Frame /\ Enter(i).inst = i
BY DEF Enter, Frame, Changes

\* What is below a plan on the stack is the same plans.
LEMMA PathBelow ==
  ASSUME NEW nodes, NEW s \in Seq(Frame), Path(nodes, s), NEW u \in Seq(Frame), Len(u) <= Len(s),
         \A k \in 1..Len(u) : u[k].inst = s[k].inst
  PROVE  Path(nodes, u)
<1> SUFFICES ASSUME NEW k \in 1..(Len(u) - 1)
             PROVE  /\ u[k].inst \in ActiveIn(nodes)
                    /\ u[k + 1].inst \in ActiveIn(nodes) => nodes[u[k + 1].inst].parent = u[k].inst
  BY DEF Path
<1>1. k \in 1..Len(u) /\ k + 1 \in 1..Len(u) /\ k \in 1..(Len(s) - 1)
  OBVIOUS
<1>2. u[k].inst = s[k].inst /\ u[k + 1].inst = s[k + 1].inst
  BY <1>1
<1>3. QED
  BY <1>1, <1>2 DEF Path

\* The innermost call of tick.
LEMMA TopType ==
  ASSUME PlanTreeInv, stack # << >>
  PROVE  Top \in Frame /\ Len(stack) \in Nat \ {0}
<1>1. stack \in Seq(Frame) /\ Len(stack) \in 1..Len(stack)
  BY InvFacts
<1>2. QED
  BY <1>1 DEF Top

\* A call of tick that returns: its plan's parent, which is active, goes on.
LEMMA LeaveKeeps ==
  ASSUME PlanTreeAssumption, PlanTreeInv, stack # << >>, NEW c \in Changes, Leave(c),
         UNCHANGED <<node, root, pool, fpEvents>>,
         v' \in Visit, v'.next <= Position("transition") => v'.changes < MaxRuleApplications
  PROVE  PlanTreeInv'
<1> DEFINE below == Front(stack)
           m == Len(stack) - 1
<1>1. stack \in Seq(Frame) /\ m \in Nat /\ Len(stack) = m + 1 /\ Path(node, stack) /\ fpEvents \subseteq Insts
  BY InvFacts
<1>2. below \in Seq(Frame) /\ Len(below) = m /\ \A k \in 1..m : below[k] = stack[k]
  BY <1>1 DEF Front
<1> HIDE DEF below, m
<1>3. CASE below = << >>
  <2>1. stack' = << >> /\ pc' = "sweep"
    BY <1>3 DEF Leave, below
  <2>2. ThreadFits'
    BY <2>1 DEF ThreadFits, Ticking
  <2>3. Path(node, stack') /\ stack' \in Seq(Frame)
    BY <2>1 DEF Path
  <2>4. QED
    BY <1>1, <2>1, <2>2, <2>3, SameTree
<1>4. CASE below # << >>
  <2> DEFINE f == below[m]
             d == UpdateChange(f.child, c)
             g == [f EXCEPT !.child = d, !.i = f.i + 1]
             s == [below EXCEPT ![m] = g]
  <2>1. m \in 1..m /\ m \in 1..Len(stack) /\ f \in Frame /\ f = stack[m]
    BY <1>1, <1>2, <1>4
  <2>2. stack' = s /\ pc' = "loop"
    <3>1. stack' = [below EXCEPT ![m].child = UpdateChange(@, c), ![m].i = @ + 1] /\ pc' = "loop"
      BY <1>2, <1>4 DEF Leave, below
    <3>2. QED
      BY <1>2, <2>1, <3>1
  <2>3. d \in Changes
    BY <2>1, UpdateType DEF Frame
  <2> HIDE DEF f, d
  <2>4. g \in Frame /\ g.inst = f.inst
    <3> DEFINE e == f.i + 1
    <3>1. e \in Nat \ {0}
      BY <2>1 DEF Frame
    <3> HIDE DEF e
    <3>2. [f EXCEPT !.child = d, !.i = e] \in Frame /\ [f EXCEPT !.child = d, !.i = e].inst = f.inst
      BY <2>1, <2>3, <3>1 DEF Frame
    <3>3. QED
      BY <3>2 DEF e
  <2> HIDE DEF g
  <2>5. s \in Seq(Frame) /\ Len(s) = m /\ s[m] = g /\ \A k \in 1..m : k # m => s[k] = below[k]
    BY <1>2, <2>1, <2>4
  <2> HIDE DEF s
  <2>6. \A k \in 1..Len(s) : s[k].inst = stack[k].inst
    BY <1>2, <2>1, <2>4, <2>5
  <2>7. Path(node, s)
    BY <1>1, <2>5, <2>6, PathBelow
  <2>8. s[Len(s)].inst \in ActiveIn(node)
    BY <1>1, <2>1, <2>5, <2>6 DEF Path
  <2>9. ThreadFits'
    BY <2>1, <2>2, <2>5, <2>8 DEF ThreadFits, Ticking, Top, ActiveIn
  <2>10. QED
    BY <1>1, <2>2, <2>5, <2>7, <2>9, SameTree
<1>5. QED
  BY <1>3, <1>4

\* The first visit of tick (RunningPlan.cpp:126) returns.
LEMMA FirstReturnKeeps ==
  ASSUME PlanTreeAssumption, PlanTreeInv, FirstVisitReturns PROVE PlanTreeInv'
<1>1. /\ pc = "return" /\ v.caller = "tick" /\ v' = NoVisit
      /\ UNCHANGED <<node, root, pool, fpEvents>>
  BY DEF FirstVisitReturns
<1>2. /\ stack # << >> /\ Top.inst = v.inst /\ v.inst \in Insts
      /\ v.ms \in Changes /\ stack \in Seq(Frame) /\ Path(node, stack) /\ fpEvents \subseteq Insts
  BY <1>1, InvFacts DEF PlanTreeInv, ThreadFits, Ticking, Visit
<1>3. v' \in Visit /\ v'.changes < MaxRuleApplications
  BY <1>1, NoVisitType
<1>4. CASE IsRetired(r)
  <2>1. Leave(v.ms)
    BY <1>4 DEF FirstVisitReturns
  <2>2. QED
    BY <1>1, <1>2, <1>3, <2>1, LeaveKeeps
<1>5. CASE ~ IsRetired(r)
  <2> DEFINE m == Len(stack)
             f == stack[m]
             g == [f EXCEPT !.my = v.ms]
             s == [stack EXCEPT ![m] = g]
  <2>1. stack' = s /\ pc' = "loop"
    BY <1>5 DEF FirstVisitReturns
  <2>2. m \in 1..m /\ f \in Frame /\ f.inst = v.inst
    BY <1>2 DEF Top
  <2> HIDE DEF f
  <2>3. g \in Frame /\ g.inst = v.inst
    BY <1>2, <2>2 DEF Frame
  <2> HIDE DEF g
  <2>4. s \in Seq(Frame) /\ Len(s) = m /\ s[m] = g /\ \A k \in 1..m : k # m => s[k] = stack[k]
    BY <1>2, <2>2, <2>3
  <2> HIDE DEF s
  <2>5. Path(node, s)
    <3>1. \A k \in 1..Len(s) : s[k].inst = stack[k].inst
      BY <2>2, <2>3, <2>4 DEF f
    <3>2. Len(s) <= Len(stack)
      BY <1>2, <2>4
    <3>3. QED
      BY <1>2, <2>4, <3>1, <3>2, PathBelow
  <2>6. v.inst \in ActiveIn(node)
    BY <1>1, <1>5 DEF PlanTreeInv, ThreadFits, IsRetired, r
  <2>7. ThreadFits'
    BY <1>1, <1>3, <2>1, <2>2, <2>3, <2>4, <2>6 DEF ThreadFits, Ticking, Top, ActiveIn
  <2>8. QED
    BY <1>1, <1>2, <1>3, <2>1, <2>4, <2>5, <2>7, SameTree
<1>6. QED
  BY <1>4, <1>5

\* The visit after the children (RunningPlan.cpp:142) returns.
LEMMA SecondReturnKeeps ==
  ASSUME PlanTreeAssumption, PlanTreeInv, SecondVisitReturns PROVE PlanTreeInv'
<1>1. /\ pc = "return" /\ v.caller = "again" /\ v' = NoVisit
      /\ UNCHANGED <<node, root, pool, fpEvents>> /\ Leave(UpdateChange(Top.my, v.ms))
  BY DEF SecondVisitReturns
<1>2. stack # << >> /\ v.ms \in Changes /\ stack \in Seq(Frame)
  BY <1>1, InvFacts DEF PlanTreeInv, ThreadFits, Ticking, Visit
<1>3. UpdateChange(Top.my, v.ms) \in Changes
  <2>1. Top \in Frame
    BY <1>2 DEF Top
  <2>2. QED
    BY <1>2, <2>1, UpdateType DEF Frame
<1>4. v' \in Visit /\ v'.changes < MaxRuleApplications
  BY <1>1, NoVisitType
<1>5. QED
  BY <1>1, <1>2, <1>3, <1>4, LeaveKeeps

\* The children of an active plan are active: tick (RunningPlan.cpp:136) skips none
\* and enters each.
LEMMA TickChildKeeps ==
  ASSUME PlanTreeAssumption, PlanTreeInv, TickChild PROVE PlanTreeInv'
<1> DEFINE p == Top.inst
           c == node[p].children[Top.i]
           s == Append(stack, Enter(c))
<1>1. pc = "loop" /\ Top.i <= Len(node[p].children) /\ UNCHANGED <<node, root, pool, fpEvents>>
  BY DEF TickChild
<1>2. /\ stack # << >> /\ stack \in Seq(Frame) /\ Path(node, stack) /\ fpEvents \subseteq Insts
      /\ node \in Nodes /\ Consistent(node, root) /\ p \in ActiveIn(node)
  BY <1>1, InvFacts DEF PlanTreeInv, ThreadFits
<1>3. Top \in Frame /\ Top.i \in Nat \ {0}
  BY <1>2, TopType DEF Frame
<1>4. c \in ActiveIn(node) /\ node[c].parent = p
  <2>1. node[p].children \in Seq(Insts)
    BY <1>2 DEF Nodes, Node, ActiveIn
  <2>2. c \in Kids(node, p)
    BY <1>1, <1>3, <2>1 DEF Kids, ToSet
  <2>3. QED
    BY <1>2, <2>2 DEF Consistent, OneParent
<1>5. stack' = s /\ StartVisit(c, "tick")
  BY <1>4 DEF TickChild, IsRetired, ActiveIn
<1> HIDE DEF c
<1>6. c \in Insts /\ Enter(c) \in Frame /\ Enter(c).inst = c
  BY <1>4, EnterType DEF ActiveIn
<1>7. v' \in Visit /\ v'.inst = c /\ v'.caller = "tick" /\ pc' = "visit" /\ v'.changes < MaxRuleApplications
  BY <1>5, <1>6, NewVisit
<1>8. /\ s \in Seq(Frame) /\ Len(s) = Len(stack) + 1 /\ s[Len(s)] = Enter(c)
      /\ \A k \in 1..Len(stack) : s[k] = stack[k]
  BY <1>2, <1>6
<1>9. stack[Len(stack)].inst = p
  BY DEF Top
<1> HIDE DEF s, p
<1>10. Path(node, s)
  <2> SUFFICES ASSUME NEW k \in 1..(Len(s) - 1)
               PROVE  /\ s[k].inst \in ActiveIn(node)
                      /\ s[k + 1].inst \in ActiveIn(node) => node[s[k + 1].inst].parent = s[k].inst
    BY DEF Path
  <2>1. CASE k = Len(stack)
    BY <1>2, <1>4, <1>6, <1>8, <1>9, <2>1
  <2>2. CASE k \in 1..(Len(stack) - 1)
    <3>1. k \in 1..Len(stack) /\ k + 1 \in 1..Len(stack)
      BY <1>2, <2>2
    <3>2. s[k] = stack[k] /\ s[k + 1] = stack[k + 1]
      BY <1>8, <3>1
    <3>3. /\ stack[k].inst \in ActiveIn(node)
          /\ stack[k + 1].inst \in ActiveIn(node) => node[stack[k + 1].inst].parent = stack[k].inst
      BY <1>2, <2>2 DEF Path
    <3>4. QED
      BY <3>2, <3>3
  <2>3. QED
    BY <1>2, <1>8, <2>1, <2>2
<1>11. ThreadFits'
  <2>1. stack' # << >> /\ Top'.inst = c
    BY <1>2, <1>5, <1>6, <1>8 DEF Top
  <2>2. QED
    BY <1>1, <1>4, <1>7, <2>1 DEF ThreadFits, Ticking, ActiveIn
<1>12. QED
  BY <1>1, <1>2, <1>5, <1>7, <1>8, <1>10, <1>11, SameTree

\* After the last child tick (RunningPlan.cpp:142) visits its plan again or returns.
LEMMA ChildrenTickedKeeps ==
  ASSUME PlanTreeAssumption, PlanTreeInv, ChildrenTicked PROVE PlanTreeInv'
<1>1. pc = "loop" /\ UNCHANGED <<node, root, pool, fpEvents>>
  BY DEF ChildrenTicked
<1>2. /\ stack # << >> /\ stack \in Seq(Frame) /\ Path(node, stack) /\ fpEvents \subseteq Insts
      /\ Top.inst \in ActiveIn(node) /\ v \in Visit
  BY <1>1, InvFacts DEF PlanTreeInv, ThreadFits
<1>3. CASE Top.child \in {"SuccessChange", "FailChange"}
  <2>1. StartVisit(Top.inst, "again") /\ stack' = stack
    BY <1>3 DEF ChildrenTicked
  <2>2. Top.inst \in Insts
    BY <1>2 DEF ActiveIn
  <2>3. /\ v' \in Visit /\ v'.inst = Top.inst /\ v'.caller = "again" /\ pc' = "visit"
        /\ v'.changes < MaxRuleApplications
    BY <2>1, <2>2, NewVisit
  <2>4. ThreadFits'
    BY <1>1, <1>2, <2>1, <2>3 DEF ThreadFits, Ticking, Top, ActiveIn
  <2>5. QED
    BY <1>1, <1>2, <2>1, <2>3, <2>4, SameTree
<1>4. CASE Top.child \notin {"SuccessChange", "FailChange"}
  <2>1. Leave(Top.my) /\ v' = v
    BY <1>4 DEF ChildrenTicked
  <2>2. Top.my \in Changes
    BY <1>2, TopType DEF Frame
  <2>3. v.next <= Position("transition") => v.changes < MaxRuleApplications
    BY DEF PlanTreeInv, ThreadFits
  <2>4. QED
    BY <1>1, <1>2, <2>1, <2>2, <2>3, LeaveKeeps
<1>5. QED
  BY <1>3, <1>4

\* initialisationRule (RuleBook.cpp:52): the tree is the master plan alone.
LEMMA InitialisationKeeps ==
  ASSUME PlanTreeAssumption, PlanTreeInv, InitialisationRule PROVE PlanTreeInv'
<1> DEFINE n == Fresh(node)
           e == CHOOSE s \in EntryStates[Master] : TRUE
           x1 == NewNode(Master, None, e)
           x == [x1 EXCEPT !.allocationNeeded = TRUE]
           after == [node EXCEPT ![n] = x]
           t == [nodes |-> after, pool |-> pool]
<1>1. /\ pc = "idle" /\ root = None /\ root' = n /\ node' = after
      /\ stack' = <<Enter(n)>> /\ StartVisit(n, "tick") /\ UNCHANGED <<pool, fpEvents>>
  BY DEF InitialisationRule
<1>2. /\ node \in Nodes /\ pool \in Pools /\ PoolFits(node, pool) /\ fpEvents \subseteq Insts
      /\ \A i \in Insts : node[i].active = "Free"
  BY <1>1, InvFacts DEF Consistent, RootActive
<1>3. n \in Insts /\ n # None
  <2>1. 1 \in Insts
    BY DEF PlanTreeAssumption, Insts
  <2>2. n \in Insts
    BY <1>2, <2>1, FreshIsFree
  <2>3. QED
    BY <2>2 DEF Insts, None
<1>4. e \in States /\ e # NoState /\ Master \in Types
  <2>1. PICK s \in States : EntryStates[Master] = {s}
    BY DEF PlanTreeAssumption
  <2>2. e \in EntryStates[Master]
    BY <2>1
  <2>3. QED
    BY <2>1, <2>2 DEF PlanTreeAssumption, Types
<1> HIDE DEF n, e
<1>5. /\ x \in Node /\ x.active = "Active" /\ x.children = << >> /\ x.parent = None
      /\ x.entry = e /\ x.state = e
  <2>1. /\ x1 \in Node /\ x1.active = "Active" /\ x1.children = << >> /\ x1.parent = None
        /\ x1.entry = e /\ x1.state = e
    BY <1>4 DEF NewNode, Node, NoFailures, FailLimit
  <2> HIDE DEF x1
  <2>2. QED
    BY <2>1 DEF Node
<1> HIDE DEF x
<1>6. after \in Nodes /\ after[n] = x /\ \A i \in Insts \ {n} : after[i] = node[i]
  BY <1>2, <1>3, <1>5 DEF Nodes
<1> HIDE DEF after
<1>7. ActiveIn(after) = {n}
  BY <1>2, <1>3, <1>5, <1>6 DEF ActiveIn
<1>8. Consistent(after, n)
  <2>1. OneParent(after)
    BY <1>5, <1>6, <1>7 DEF OneParent, Kids, ToSet
  <2>2. Hangs(after, n)
    BY <1>3, <1>7 DEF Hangs
  <2>3. RootActive(after, n)
    BY <1>3, <1>5, <1>6, <1>7 DEF RootActive
  <2>4. QED
    BY <2>1, <2>2, <2>3 DEF Consistent
<1>9. PoolFits(after, pool)
  <2> SUFFICES ASSUME NEW b \in Behaviours PROVE ~ pool[b].running /\ pool[b].contextInRun = None
    BY DEF PoolFits
  <2>1. pool[b].contextInRun \in Insts \cup {None}
    BY <1>2 DEF Pools, BasicBehaviour
  <2>2. QED
    BY <1>2, <2>1 DEF PoolFits, ActiveIn
<1>10. t \in TreeType /\ t.nodes = after /\ t.pool = pool /\ Good(t, n)
  BY <1>2, <1>6, <1>8, <1>9 DEF TreeType, Good
<1>11. Allocatable(t.nodes, n)
  BY <1>4, <1>5, <1>6, <1>7, <1>10 DEF Allocatable, Settled
<1>12. Suited(t.nodes, n)
  BY <1>7, <1>10 DEF Suited
<1>13. Path(t.nodes, stack') /\ stack' \in Seq(Frame) /\ stack' # << >> /\ Top'.inst = n
  <2>1. Enter(n) \in Frame /\ Enter(n).inst = n
    BY <1>3, EnterType
  <2>2. QED
    BY <1>1, <2>1 DEF Path, Top
<1>14. /\ v' \in Visit /\ v'.inst = n /\ v'.caller = "tick" /\ pc' = "visit"
       /\ v'.changes < MaxRuleApplications
  BY <1>1, <1>3, NewVisit
<1>15. Tree' = t
  BY <1>1 DEF Tree
<1>16. TypeOK'
  BY <1>1, <1>2, <1>3, <1>6, <1>13, <1>14 DEF TypeOK, Nodes, Pools
<1>17. Fits(Tree, root, stack)'
  BY <1>1, <1>10, <1>11, <1>13, <1>15, <1>12 DEF Fits
<1>18. ThreadFits'
  BY <1>1, <1>7, <1>13, <1>14 DEF ThreadFits, Ticking
<1>19. QED
  BY <1>16, <1>17, <1>18 DEF PlanTreeInv

\* An iteration (PlanBase.cpp:140) begins with the root.
LEMMA IterationKeeps ==
  ASSUME PlanTreeAssumption, PlanTreeInv, BeginIteration PROVE PlanTreeInv'
<1>1. /\ pc = "idle" /\ root # None /\ stack' = <<Enter(root)>> /\ StartVisit(root, "tick")
      /\ UNCHANGED <<node, root, pool, fpEvents>>
  BY DEF BeginIteration
<1>2. fpEvents \subseteq Insts /\ root \in ActiveIn(node) /\ root \in Insts
  BY <1>1, InvFacts DEF Consistent, RootActive
<1>3. Path(node, stack') /\ stack' \in Seq(Frame) /\ stack' # << >> /\ Top'.inst = root
  <2>1. Enter(root) \in Frame /\ Enter(root).inst = root
    BY <1>2, EnterType
  <2>2. QED
    BY <1>1, <2>1 DEF Path, Top
<1>4. /\ v' \in Visit /\ v'.inst = root /\ v'.caller = "tick" /\ pc' = "visit"
      /\ v'.changes < MaxRuleApplications
  BY <1>1, <1>2, NewVisit
<1>5. ThreadFits'
  BY <1>1, <1>2, <1>3, <1>4 DEF ThreadFits, Ticking, ActiveIn
<1>6. QED
  BY <1>1, <1>2, <1>3, <1>4, <1>5, SameTree

\* The sweep of PlanBase::run keeps the invariant, whatever behaviours' threads do
\* at the time.
LEMMA DeletionKeeps ==
  ASSUME PlanTreeAssumption, PlanTreeInv, DeletePlans PROVE PlanTreeInv'
<1>1. pc = "sweep" /\ pc' = "clear" /\ UNCHANGED <<root, pool, fpEvents, stack, v>>
  BY DEF DeletePlans
<1>2. stack = << >> /\ (v.next <= Position("transition") => v.changes < MaxRuleApplications)
  BY <1>1 DEF PlanTreeInv, ThreadFits, Ticking
<1>3. /\ Good(Tree', root') /\ node' \in Nodes /\ ActiveIn(node') = ActiveIn(node)
      /\ \A i \in ActiveIn(node) : node'[i] = node[i]
  BY SweepKeeps DEF PlanTreeInv, Fits
<1>4. Tree'.nodes = node'
  BY DEF Tree
<1>5. Allocatable(node', root')
  <2>1. Allocatable(node, root) /\ (root # None => root \in ActiveIn(node))
    BY InvFacts DEF Consistent, RootActive
  <2>2. QED
    BY <1>1, <1>3, <2>1 DEF Allocatable, Settled
<1>6. Path(node', stack')
  BY <1>1, <1>2 DEF Path
<1>7. Suited(node', root')
  <2>1. node \in Nodes /\ Consistent(node, root) /\ Suited(node, root)
    BY InvFacts
  <2>2. QED
    BY <1>1, <1>3, <2>1, SuitedKept
<1>8. Fits(Tree, root, stack)'
  BY <1>3, <1>4, <1>5, <1>6, <1>7 DEF Fits
<1>9. TypeOK'
  BY <1>1, <1>3 DEF PlanTreeInv, TypeOK, Nodes
<1>10. ThreadFits'
  BY <1>1, <1>2 DEF ThreadFits, Ticking
<1>11. QED
  BY <1>8, <1>9, <1>10 DEF PlanTreeInv

\* An event of the fast path (PlanBase.cpp:251) is handled for active plans only:
\* its plan may have been retired since the event was raised.
LEMMA FastPathEventKeeps ==
  ASSUME PlanTreeAssumption, PlanTreeInv, FastPathEvent PROVE PlanTreeInv'
<1>1. pc = "fast" /\ UNCHANGED <<node, root, pool, stack>>
  BY DEF FastPathEvent
<1>2. PICK i \in fpEvents :
        /\ fpEvents' = fpEvents \ {i}
        /\ IF Visitable(i) THEN StartVisit(i, "fastFirst") ELSE UNCHANGED <<pc, v>>
  BY DEF FastPathEvent
<1>3. /\ stack \in Seq(Frame) /\ Path(node, stack) /\ fpEvents' \subseteq Insts /\ i \in Insts
      /\ v \in Visit
  BY <1>2, InvFacts
<1>4. stack = << >>
  BY <1>1 DEF PlanTreeInv, ThreadFits, Ticking
<1>5. CASE Visitable(i)
  <2>1. /\ v' \in Visit /\ v'.inst = i /\ v'.caller = "fastFirst" /\ pc' = "visit"
        /\ v'.changes < MaxRuleApplications
    BY <1>2, <1>3, <1>5, NewVisit
  <2>2. i \in ActiveIn(node)
    BY <1>3, <1>5 DEF Visitable, IsActive, ActiveIn
  <2>3. ThreadFits'
    BY <1>1, <1>4, <2>1, <2>2 DEF ThreadFits, Ticking, ActiveIn
  <2>4. QED
    BY <1>1, <1>3, <2>1, <2>3, SameTree
<1>6. CASE ~ Visitable(i)
  <2>1. pc' = "fast" /\ v' = v
    BY <1>1, <1>2, <1>6
  <2>2. ThreadFits'
    BY <1>1, <1>4, <2>1 DEF PlanTreeInv, ThreadFits, Ticking
  <2>3. QED
    BY <1>1, <1>3, <2>1, <2>2, SameTree
<1>7. QED
  BY <1>5, <1>6

\* The parent of an active plan is active: the fast path (PlanBase.cpp:256) may
\* climb from one to the next.
LEMMA FastReturnKeeps ==
  ASSUME PlanTreeAssumption, PlanTreeInv, FastVisitReturns PROVE PlanTreeInv'
<1>1. /\ pc = "return" /\ v.caller \in {"fastFirst", "fast"}
      /\ UNCHANGED <<node, root, pool, fpEvents, stack>>
  BY DEF FastVisitReturns
<1>2. /\ stack \in Seq(Frame) /\ Path(node, stack) /\ fpEvents \subseteq Insts
      /\ node \in Nodes /\ Consistent(node, root)
  BY InvFacts
<1>3. stack = << >>
  BY <1>1 DEF PlanTreeInv, ThreadFits, Ticking
<1>4. CASE pc' = "fast" /\ v' = NoVisit
  <2>1. v' \in Visit /\ v'.changes < MaxRuleApplications
    BY <1>4, NoVisitType
  <2>2. ThreadFits'
    BY <1>1, <1>3, <1>4, <2>1 DEF ThreadFits, Ticking
  <2>3. QED
    BY <1>1, <1>2, <1>4, <2>1, <2>2, SameTree
<1>5. CASE node[r].parent # None /\ StartVisit(node[r].parent, "fast")
  <2> DEFINE p == node[r].parent
  <2>1. r \in ActiveIn(node)
    BY <1>1, <1>5 DEF PlanTreeInv, ThreadFits, r
  <2>2. r # root
    BY <1>2, <1>5, <2>1 DEF Consistent, RootActive, ActiveIn
  <2>3. p \in ActiveIn(node) /\ p \in Insts
    BY <1>2, <2>1, <2>2, ActiveHasParent DEF ActiveIn
  <2> HIDE DEF p
  <2>4. StartVisit(p, "fast")
    BY <1>5 DEF p
  <2>5. /\ v' \in Visit /\ v'.inst = p /\ v'.caller = "fast" /\ pc' = "visit"
        /\ v'.changes < MaxRuleApplications
    BY <2>3, <2>4, NewVisit
  <2>6. ThreadFits'
    BY <1>1, <1>3, <2>3, <2>5 DEF ThreadFits, Ticking, ActiveIn
  <2>7. QED
    BY <1>1, <1>2, <2>5, <2>6, SameTree
<1>6. QED
  BY <1>4, <1>5 DEF FastVisitReturns

\* Clearing events, waiting and the end of an iteration leave the tree alone.
LEMMA PauseKeeps ==
  ASSUME PlanTreeAssumption, PlanTreeInv, ClearEvents \/ FastPath \/ EndIteration PROVE PlanTreeInv'
<1>1. /\ pc \in {"clear", "wait", "fast"} /\ pc' \in {"wait", "fast", "idle"}
      /\ UNCHANGED <<node, root, pool, stack, v>> /\ fpEvents' \subseteq fpEvents
  BY DEF ClearEvents, FastPath, EndIteration
<1>2. stack \in Seq(Frame) /\ Path(node, stack) /\ fpEvents' \subseteq Insts /\ v \in Visit
  BY <1>1, InvFacts
<1>3. ThreadFits'
  BY <1>1 DEF PlanTreeInv, ThreadFits, Ticking
<1>4. QED
  BY <1>1, <1>2, <1>3, SameTree

\* Every step of the engine thread keeps the invariant.
LEMMA EngineKeeps ==
  ASSUME PlanTreeAssumption, PlanTreeInv, EngineNext PROVE PlanTreeInv'
BY InitialisationKeeps, IterationKeeps, VisitKeeps, FirstReturnKeeps, TickChildKeeps,
   ChildrenTickedKeeps, SecondReturnKeeps, DeletionKeeps, FastPathEventKeeps,
   FastReturnKeeps, PauseKeeps
DEF EngineNext

-------------------------------------------------------------------------------
(* The threads of the behaviours *)

\* A behaviour's thread (BasicBehaviour.cpp:171) enters the context of a behaviour
\* that is switched on only, and that plan is there.
LEMMA LoopHeadKeeps ==
  ASSUME PlanTreeAssumption, PlanTreeInv, NEW b \in Behaviours, LoopHead(b) PROVE PlanTreeInv'
<1>1. PICK c \in {None, pool[b].context} :
        (c # None => pool[b].running) /\ pool' = [pool EXCEPT ![b].contextInRun = c]
  BY DEF LoopHead
<1>2. UNCHANGED <<node, root, fpEvents, pc, stack, v>>
  BY DEF LoopHead
<1>3. /\ node \in Nodes /\ pool \in Pools /\ PoolFits(node, pool) /\ Tree.nodes = node
  BY InvFacts
<1>4. c \in Insts \cup {None} /\ pool[b] \in BasicBehaviour
  BY <1>1, <1>3 DEF Pools, BasicBehaviour
<1> DEFINE x == [pool[b] EXCEPT !.contextInRun = c]
<1>5. /\ x \in BasicBehaviour /\ x.context = pool[b].context /\ x.running = pool[b].running
      /\ x.contextInRun = c
  BY <1>4 DEF BasicBehaviour
<1>6. pool' = [pool EXCEPT ![b] = x]
  BY <1>1
<1> HIDE DEF x
<1>7. pool' \in Pools /\ pool'[b] = x /\ \A d \in Behaviours \ {b} : pool'[d] = pool[d]
  BY <1>3, <1>5, <1>6 DEF Pools
<1>8. PoolFits(node, pool')
  <2> SUFFICES ASSUME NEW d \in Behaviours
               PROVE  /\ pool'[d].running => /\ pool'[d].context \in ActiveIn(node)
                                             /\ node[pool'[d].context].type = d
                      /\ pool'[d].contextInRun # None =>
                           /\ pool'[d].context # None
                           /\ node[pool'[d].contextInRun].active # "Free"
                           /\ node[pool'[d].contextInRun].type = d
    BY DEF PoolFits
  <2>1. CASE d # b
    BY <1>3, <1>7, <2>1 DEF PoolFits
  <2>2. CASE d = b
    <3>1. pool[b].running => pool[b].context \in ActiveIn(node) /\ node[pool[b].context].type = b
      BY <1>3 DEF PoolFits
    <3>2. c # None => pool[b].running /\ c = pool[b].context
      BY <1>1
    <3>3. QED
      BY <1>5, <1>7, <2>2, <3>1, <3>2 DEF ActiveIn
  <2>3. QED
    BY <2>1, <2>2
<1>9. Tree' = [nodes |-> node, pool |-> pool']
  BY <1>2 DEF Tree
<1>10. Good(Tree', root)
  <2>1. Consistent(node, root)
    BY InvFacts
  <2>2. QED
    BY <1>3, <1>7, <1>8, <1>9, <2>1 DEF Good, TreeType
<1>11. Fits(Tree, root, stack)'
  <2>1. Allocatable(node, root) /\ Suited(node, root) /\ Path(node, stack) /\ Tree'.nodes = node
    BY <1>9, InvFacts
  <2>2. QED
    BY <1>2, <1>10, <2>1 DEF Fits
<1>12. TypeOK'
  BY <1>2, <1>7 DEF PlanTreeInv, TypeOK, Pools
<1>13. ThreadFits'
  BY <1>2 DEF PlanTreeInv, ThreadFits, Ticking, Top
<1>14. QED
  BY <1>11, <1>12, <1>13 DEF PlanTreeInv

\* A behaviour that raises an event (PlanBase.cpp:308) names the plan it runs in.
LEMMA RaiseEventKeeps ==
  ASSUME PlanTreeAssumption, PlanTreeInv, NEW b \in Behaviours, RaiseEvent(b) PROVE PlanTreeInv'
<1>1. /\ pool[b].contextInRun # None /\ fpEvents' = fpEvents \cup {pool[b].context}
      /\ UNCHANGED <<node, root, pool, pc, stack, v>>
  BY DEF RaiseEvent
<1>2. pool[b].context \in Insts
  BY <1>1, InvFacts DEF PoolFits, Pools, BasicBehaviour
<1>3. fpEvents' \subseteq Insts /\ stack \in Seq(Frame) /\ Path(node, stack) /\ v \in Visit
      /\ pc \in {"idle", "visit", "return", "loop", "sweep", "clear", "wait", "fast"}
  BY <1>1, <1>2, InvFacts DEF PlanTreeInv, TypeOK
<1>4. ThreadFits'
  BY <1>1 DEF PlanTreeInv, ThreadFits, Ticking, Top
<1>5. QED
  BY <1>1, <1>3, <1>4, SameTree

-------------------------------------------------------------------------------
(* The invariant *)

\* The engine starts without a plan.
LEMMA InitialTree == PlanTreeAssumption /\ Init => PlanTreeInv
<1> SUFFICES ASSUME PlanTreeAssumption, Init PROVE PlanTreeInv
  OBVIOUS
<1>1. /\ node \in Nodes /\ \A i \in Insts : node[i].active = "Free"
  BY FreeNodeType DEF Init, Nodes
<1>2. /\ pool \in Pools /\ \A b \in Behaviours : ~ pool[b].running /\ pool[b].contextInRun = None
  BY DEF Init, Pools, BasicBehaviour
<1>3. v \in Visit /\ v.changes < MaxRuleApplications
  BY NoVisitType DEF Init
<1>4. root = None /\ fpEvents = {} /\ pc = "idle" /\ stack = << >>
  BY DEF Init
<1>5. ActiveIn(node) = {}
  BY <1>1 DEF ActiveIn
<1>6. Consistent(node, root)
  BY <1>1, <1>4, <1>5 DEF Consistent, OneParent, Hangs, RootActive
<1>7. PoolFits(node, pool)
  BY <1>2 DEF PoolFits
<1>8. Fits(Tree, root, stack)
  <2>1. Tree \in TreeType /\ Tree.nodes = node /\ Tree.pool = pool
    BY <1>1, <1>2 DEF Tree, TreeType
  <2>2. QED
    BY <1>4, <1>5, <1>6, <1>7, <2>1 DEF Fits, Good, Allocatable, Settled, Suited, Path
<1>9. TypeOK
  BY <1>1, <1>2, <1>3, <1>4 DEF TypeOK, Nodes, Pools
<1>10. ThreadFits
  BY <1>3, <1>4 DEF ThreadFits, Ticking
<1>11. QED
  BY <1>8, <1>9, <1>10 DEF PlanTreeInv

\* Every step of the engine thread and of the behaviours' threads keeps the invariant.
LEMMA PlanTreeStep == PlanTreeAssumption /\ PlanTreeInv /\ [Next]_vars => PlanTreeInv'
<1> SUFFICES ASSUME PlanTreeAssumption, PlanTreeInv, [Next]_vars PROVE PlanTreeInv'
  OBVIOUS
<1>1. CASE EngineNext
  BY <1>1, EngineKeeps
<1>2. CASE \E b \in Behaviours : LoopHead(b) \/ RaiseEvent(b)
  BY <1>2, LoopHeadKeeps, RaiseEventKeeps
<1>3. CASE UNCHANGED vars
  <2>1. UNCHANGED <<node, root, pool, fpEvents, pc, stack, v>>
    BY <1>3 DEF vars
  <2>2. ThreadFits'
    BY <2>1 DEF PlanTreeInv, ThreadFits, Ticking, Top
  <2>3. stack' \in Seq(Frame) /\ Path(node, stack') /\ fpEvents' \subseteq Insts /\ v' \in Visit
        /\ pc' \in {"idle", "visit", "return", "loop", "sweep", "clear", "wait", "fast"}
    BY <2>1, InvFacts DEF PlanTreeInv, TypeOK
  <2>4. QED
    BY <2>1, <2>2, <2>3, SameTree
<1>4. QED
  BY <1>1, <1>2, <1>3 DEF Next

\* The children of a plan fit its state.
LEMMA InvSuited == PlanTreeAssumption /\ PlanTreeInv => SubPlansFitState
<1> SUFFICES ASSUME PlanTreeAssumption, PlanTreeInv, NEW i \in Active \ {root} PROVE ChildrenFitState(i)
  BY DEF SubPlansFitState
<1>1. Suited(node, root) /\ i \in ActiveIn(node)
  BY InvFacts DEF Active, IsActive, ActiveIn
<1>2. Suits(node, i)
  BY <1>1 DEF Suited
<1>3. TypesOf(node, i) = ChildTypes(i) /\ PlansOf(node, i) = InState(i)
  BY DEF TypesOf, ChildTypes, PlansOf, InState
<1>4. QED
  BY <1>2, <1>3 DEF Suits, ChildrenFitState

\* The tree of active plans is just what is below the root, rules work on it alone,
\* and a behaviour's run has its context.
LEMMA InvConsistent == PlanTreeAssumption /\ PlanTreeInv => TreeInv /\ RunHasContext
<1> SUFFICES ASSUME PlanTreeAssumption, PlanTreeInv PROVE TreeInv /\ RunHasContext
  OBVIOUS
<1> DEFINE S == {root} \ {None}
           B == Below(Tree, S)
<1>1. /\ node \in Nodes /\ Consistent(node, root) /\ Tree.nodes = node /\ Allocatable(node, root)
      /\ pool \in Pools /\ PoolFits(node, pool) /\ root \in Insts \cup {None}
  BY InvFacts
<1>2. Active = ActiveIn(node)
  BY DEF Active, IsActive, ActiveIn
<1>3. Active = B
  <2>1. S \in SUBSET Insts
    BY <1>1
  <2>2. Least(node, S, B)
    BY <1>1, <2>1, BelowIsLeast
  <2> HIDE DEF S, B
  <2>3. ActiveIn(node) \subseteq B
    <3>1. S \subseteq B /\ Closed(node, B) /\ B \in SUBSET Insts
      BY <2>2 DEF Least
    <3>2. QED
      BY <1>1, <3>1 DEF Consistent, Hangs, S
  <2>4. B \subseteq ActiveIn(node)
    <3>1. Closed(node, ActiveIn(node)) /\ ActiveIn(node) \in SUBSET Insts
      BY <1>1, ActiveClosed
    <3>2. S \subseteq ActiveIn(node)
      BY <1>1 DEF S, Consistent, RootActive
    <3>3. QED
      BY <2>2, <3>1, <3>2 DEF Least
  <2>5. QED
    BY <1>2, <2>3, <2>4
<1>4. ASSUME NEW i \in Active, NEW k \in DOMAIN node[i].children
      PROVE  LET c == node[i].children[k]
             IN  /\ node[c].parent = i
                 /\ \A l \in DOMAIN node[i].children : node[i].children[l] = c => l = k
  <2>1. node[i].children \in Seq(Insts)
    BY <1>1, <1>2 DEF Nodes, Node, ActiveIn
  <2>2. node[i].children[k] \in Kids(node, i)
    BY <2>1 DEF Kids, ToSet
  <2>3. QED
    BY <1>1, <1>2, <1>4, <2>2 DEF Consistent, OneParent
<1>5. root # None => node[root].parent = None
  BY <1>1 DEF Consistent, RootActive
<1>6. TreeConsistent
  BY <1>3, <1>4, <1>5 DEF TreeConsistent
<1>7. RulesSeeLivePlans
  BY <1>1, <1>2
  DEF RulesSeeLivePlans, PlanTreeInv, ThreadFits, Allocatable, ActiveIn, IsActive
<1>8. ASSUME NEW b \in Behaviours, pool[b].contextInRun # None
      PROVE  pool[b].contextInRun \in Alive /\ node[pool[b].contextInRun].type = b
  <2> DEFINE c == pool[b].contextInRun
  <2>1. c \in Insts /\ node[c].active # "Free" /\ node[c].type = b
    BY <1>1, <1>8 DEF PoolFits, Pools, BasicBehaviour
  <2>2. node[c].active \in {"Free", "Active", "Retired"}
    BY <1>1, <2>1 DEF Nodes, Node
  <2>3. QED
    BY <2>1, <2>2 DEF Alive, Active, Retired, IsActive, IsRetired
<1>9. RunHasContext
  BY <1>8 DEF RunHasContext
<1>10. QED
  BY <1>6, <1>7, <1>9 DEF TreeInv, PlanTreeInv

\* A behaviour that is switched on runs for a plan of the tree.
LEMMA InvFollows == PlanTreeAssumption /\ PlanTreeInv => NoneGoesOnAlone
<1> SUFFICES ASSUME PlanTreeAssumption, PlanTreeInv, NEW b \in Behaviours, pool[b].running
             PROVE  IsActive(pool[b].context) /\ node[pool[b].context].type = b
  BY DEF NoneGoesOnAlone
<1>1. PoolFits(node, pool)
  BY InvFacts
<1>2. QED
  BY <1>1 DEF PoolFits, ActiveIn, IsActive

-------------------------------------------------------------------------------
(* Each behaviour in one place of the tree *)

\* A plan is in a state of its own, or in none.
NamedIn(n, PlanOf) == \A s \in {n.state, n.entry} \ {NoState} : PlanOf[s] = n.type

Named(nodes, PlanOf) == \A i \in ActiveIn(nodes) : NamedIn(nodes[i], PlanOf)

\* The children of a plan other than the root are the first plans of its state.
Fed(nodes, top) ==
  \A i \in ActiveIn(nodes) \ {top} : \A k \in DOMAIN nodes[i].children :
    /\ k \in DOMAIN PlansOf(nodes, i)
    /\ nodes[nodes[i].children[k]].type = PlansOf(nodes, i)[k]

\* Plan p runs in a state of the master plan.
InMaster(p, PlanOf) ==
  \E s \in States : \E k \in DOMAIN StatePlans[s] : PlanOf[s] = Master /\ p = StatePlans[s][k]

MasterFed(nodes, top, PlanOf) ==
  top # None => /\ nodes[top].type = Master
                /\ \A c \in Kids(nodes, top) : InMaster(nodes[c].type, PlanOf)

\* The master plan runs a plan twice: it was reset over its children.
Twice(nodes, top) ==
  \E k, l \in DOMAIN nodes[top].children :
    k # l /\ nodes[nodes[top].children[k]].type = nodes[nodes[top].children[l]].type

\* Each plan of a behaviour in the tree is the one the behaviour runs for.
Runs(t, top) ==
  ~ Twice(t.nodes, top) =>
    \A i \in ActiveIn(t.nodes) :
      t.nodes[i].type \in Behaviours =>
        t.pool[t.nodes[i].type].running /\ t.pool[t.nodes[i].type].context = i

Ordered(t, top, PlanOf) ==
  Named(t.nodes, PlanOf) /\ MasterFed(t.nodes, top, PlanOf) /\ Runs(t, top)

\* The behaviours below the children of plan i are behaviours below i, and no
\* behaviour is below two of them.
Parted(nodes, Reach, i) ==
  \A k \in DOMAIN nodes[i].children :
    /\ Reach[nodes[nodes[i].children[k]].type] \subseteq Reach[nodes[i].type]
    /\ \A l \in DOMAIN nodes[i].children :
         k # l => Reach[nodes[nodes[i].children[k]].type]
                    \cap Reach[nodes[nodes[i].children[l]].type] = {}

Tidy(nodes, top, PlanOf) ==
  /\ nodes \in Nodes /\ Consistent(nodes, top)
  /\ Named(nodes, PlanOf) /\ Fed(nodes, top) /\ MasterFed(nodes, top, PlanOf)
  /\ ~ Twice(nodes, top)

\* The plans of a library that keeps behaviours apart do so in the tree.
LEMMA TreeParted ==
  ASSUME PlanTreeAssumption, NEW PlanOf, NEW Reach, BehavioursApart(PlanOf, Reach),
         NEW nodes, NEW top, Tidy(nodes, top, PlanOf), NEW i \in ActiveIn(nodes)
  PROVE  Parted(nodes, Reach, i)
<1> DEFINE ch == nodes[i].children
           ty(k) == nodes[ch[k]].type
<1>1. i \in Insts /\ nodes[i] \in Node /\ ch \in Seq(Insts) /\ nodes \in Nodes
  BY DEF Tidy, Nodes, Node, ActiveIn
<1>2. CASE i # top
  <2> SUFFICES ASSUME NEW k \in DOMAIN ch
               PROVE  /\ Reach[ty(k)] \subseteq Reach[nodes[i].type]
                      /\ \A l \in DOMAIN ch : k # l => Reach[ty(k)] \cap Reach[ty(l)] = {}
    BY DEF Parted
  <2> DEFINE s == nodes[i].state
  <2>1. \A l \in DOMAIN ch : l \in DOMAIN PlansOf(nodes, i) /\ ty(l) = PlansOf(nodes, i)[l]
    BY <1>2 DEF Tidy, Fed
  <2>2. s # NoState
    BY <2>1 DEF PlansOf
  <2>3. s \in States /\ PlanOf[s] = nodes[i].type /\ PlansOf(nodes, i) = StatePlans[s]
    BY <1>1, <2>2 DEF Tidy, Named, NamedIn, PlansOf, Node
  <2>4. \A l \in DOMAIN ch : l \in DOMAIN StatePlans[s] /\ ty(l) = StatePlans[s][l]
    BY <2>1, <2>3
  <2> HIDE DEF s, ch, ty
  <2>5. QED
    BY <2>3, <2>4 DEF BehavioursApart
<1>3. CASE i = top
  <2>1. nodes[i].type = Master /\ \A c \in Kids(nodes, i) : InMaster(nodes[c].type, PlanOf)
    BY <1>1, <1>3 DEF Tidy, MasterFed, Insts, None
  <2>2. \A k \in DOMAIN ch : InMaster(ty(k), PlanOf)
    BY <1>1, <2>1 DEF Kids, ToSet
  <2>3. \A k, l \in DOMAIN ch : k # l => ty(k) # ty(l)
    BY <1>3 DEF Tidy, Twice
  <2>4. ASSUME NEW k \in DOMAIN ch PROVE Reach[ty(k)] \subseteq Reach[nodes[i].type]
    BY <2>1, <2>2 DEF InMaster, BehavioursApart
  <2>5. ASSUME NEW k \in DOMAIN ch, NEW l \in DOMAIN ch, k # l
        PROVE  Reach[ty(k)] \cap Reach[ty(l)] = {}
    <3>1. InMaster(ty(k), PlanOf) /\ InMaster(ty(l), PlanOf) /\ ty(k) # ty(l)
      BY <2>2, <2>3, <2>5
    <3>2. PICK s \in States : \E m \in DOMAIN StatePlans[s] :
                                PlanOf[s] = Master /\ ty(k) = StatePlans[s][m]
      BY <3>1 DEF InMaster
    <3>3. PICK q \in States : \E m \in DOMAIN StatePlans[q] :
                                PlanOf[q] = Master /\ ty(l) = StatePlans[q][m]
      BY <3>1 DEF InMaster
    <3> HIDE DEF ty, ch
    <3>4. QED
      BY <3>1, <3>2, <3>3 DEF BehavioursApart
  <2>6. QED
    BY <2>4, <2>5 DEF Parted
<1>4. QED
  BY <1>2, <1>3

\* A behaviour runs no plans.
LEMMA BehaviourAlone ==
  ASSUME PlanTreeAssumption, NEW PlanOf, NEW Reach, BehavioursApart(PlanOf, Reach),
         NEW nodes, NEW top, Tidy(nodes, top, PlanOf), NEW i \in ActiveIn(nodes),
         nodes[i].type \in Behaviours
  PROVE  Kids(nodes, i) = {}
<1>1. i \in Insts /\ nodes[i] \in Node /\ nodes[i].children \in Seq(Insts)
  BY DEF Tidy, Nodes, Node, ActiveIn
<1>2. i # top
  BY <1>1 DEF Tidy, MasterFed, Insts, None, PlanTreeAssumption
<1>3. nodes[i].state = NoState
  <2> SUFFICES ASSUME nodes[i].state # NoState PROVE FALSE
    OBVIOUS
  <2>1. nodes[i].state \in States /\ PlanOf[nodes[i].state] = nodes[i].type
    BY <1>1 DEF Tidy, Named, NamedIn, Node
  <2>2. PlanOf[nodes[i].state] \in Plans
    BY <2>1 DEF BehavioursApart
  <2>3. QED
    BY <2>1, <2>2 DEF PlanTreeAssumption
<1>4. DOMAIN nodes[i].children = {}
  BY <1>2, <1>3 DEF Tidy, Fed, PlansOf
<1>5. QED
  BY <1>1, <1>4 DEF Kids, ToSet

\* Two plans of a behaviour in the tree are one: of the children of a plan only one
\* has the behaviour below it, so that the plans with the behaviour below them are a
\* path from the root, which ends where the behaviour is.
LEMMA OnePlace ==
  ASSUME PlanTreeAssumption, NEW PlanOf, NEW Reach, BehavioursApart(PlanOf, Reach),
         NEW nodes, NEW top, Tidy(nodes, top, PlanOf),
         NEW i \in ActiveIn(nodes), NEW j \in ActiveIn(nodes),
         nodes[i].type \in Behaviours, nodes[j].type = nodes[i].type
  PROVE  i = j
<1> DEFINE b == nodes[i].type
           Off == {x \in Insts : \E T \in SUBSET Insts : x \in T /\ Closed(nodes, T) /\ i \notin T}
           Over == {q \in ActiveIn(nodes) : b \in Reach[nodes[q].type] => q \notin Off}
<1>1. /\ nodes \in Nodes /\ OneParent(nodes) /\ Hangs(nodes, top) /\ RootActive(nodes, top)
      /\ ActiveIn(nodes) \subseteq Insts
  BY DEF Tidy, Consistent, ActiveIn
<1>2. Kids(nodes, i) = {} /\ Kids(nodes, j) = {}
  BY BehaviourAlone
<1>3. b \in Reach[b]
  BY DEF BehavioursApart
<1> HIDE DEF b
<1>4. Off \in SUBSET Insts /\ i \notin Off /\ Closed(nodes, Off)
  BY DEF Closed
<1>5. \A T \in SUBSET Insts : Closed(nodes, T) /\ i \notin T => T \subseteq Off
  OBVIOUS
<1> HIDE DEF Off
<1>6. top \in Over
  <2>1. top \in ActiveIn(nodes)
    BY <1>1 DEF RootActive, ActiveIn
  <2>2. ASSUME top \in Off PROVE FALSE
    BY <1>1, <1>4, <2>2 DEF Hangs
  <2>3. QED
    BY <2>1, <2>2
<1>7. ASSUME NEW q \in Over, NEW d \in Kids(nodes, q) PROVE d \in Over
  <2>1. d \in ActiveIn(nodes) /\ q \in ActiveIn(nodes) /\ q \in Insts /\ q # i
    BY <1>1, <1>2 DEF OneParent
  <2> SUFFICES ASSUME b \in Reach[nodes[d].type] PROVE d \notin Off
    BY <2>1
  <2> DEFINE ch == nodes[q].children
  <2>2. Parted(nodes, Reach, q) /\ ch \in Seq(Insts)
    BY <1>1, <2>1, TreeParted DEF Nodes, Node
  <2>3. PICK k \in DOMAIN ch : d = ch[k]
    BY <2>2 DEF Kids, ToSet
  <2>4. b \in Reach[nodes[q].type]
    BY <2>2, <2>3 DEF Parted
  <2>5. q \notin Off
    BY <2>4
  <2>6. PICK e \in Kids(nodes, q) : e \notin Off
    <3> SUFFICES ASSUME Kids(nodes, q) \subseteq Off PROVE FALSE
      OBVIOUS
    <3>1. Closed(nodes, Off \cup {q})
      BY <1>4 DEF Closed, Kids
    <3>2. Off \cup {q} \in SUBSET Insts /\ i \notin Off \cup {q}
      BY <1>4, <2>1
    <3>3. QED
      BY <1>5, <2>5, <3>1, <3>2
  <2>7. PICK l \in DOMAIN ch : e = ch[l]
    BY <2>2 DEF Kids, ToSet
  <2>8. b \in Reach[nodes[e].type]
    <3> DEFINE W == {x \in ActiveIn(nodes) : Reach[nodes[x].type] \subseteq Reach[nodes[e].type]}
    <3>1. e \in W
      BY <1>1, <2>1 DEF OneParent
    <3>2. ASSUME NEW x \in W, NEW y \in Kids(nodes, x) PROVE y \in W
      <4>1. x \in ActiveIn(nodes) /\ y \in ActiveIn(nodes) /\ nodes[x].children \in Seq(Insts)
        BY <1>1 DEF OneParent, Nodes, Node
      <4>2. Parted(nodes, Reach, x)
        BY <4>1, TreeParted
      <4>3. PICK m \in DOMAIN nodes[x].children : y = nodes[x].children[m]
        BY <4>1 DEF Kids, ToSet
      <4>4. Reach[nodes[y].type] \subseteq Reach[nodes[x].type]
        BY <4>2, <4>3 DEF Parted
      <4>5. QED
        BY <4>1, <4>4
    <3>3. W \in SUBSET Insts /\ Closed(nodes, W)
      BY <1>1, <3>2 DEF Closed, Kids
    <3>4. i \in W
      <4> HIDE DEF W
      <4>1. QED
        BY <1>5, <2>6, <3>1, <3>3
    <3>5. QED
      BY <1>3, <3>4 DEF b
  <2>9. k = l
    BY <2>2, <2>3, <2>7, <2>8 DEF Parted
  <2>10. QED
    BY <2>3, <2>6, <2>7, <2>9
<1>8. j \in Over
  <2>1. Over \in SUBSET Insts /\ Closed(nodes, Over)
    BY <1>1, <1>7 DEF Closed, Kids
  <2> HIDE DEF Over
  <2>2. QED
    BY <1>1, <1>6, <2>1 DEF Hangs
<1>9. j \notin Off
  BY <1>3, <1>8 DEF b
<1>10. Closed(nodes, {j}) /\ {j} \in SUBSET Insts
  BY <1>1, <1>2 DEF Closed, Kids
<1>11. QED
  BY <1>5, <1>9, <1>10

\* Children that suit a plan's state are the plans of the state.
LEMMA SuitedFed ==
  ASSUME NEW nodes \in Nodes, NEW top, Suited(nodes, top) PROVE Fed(nodes, top)
<1> SUFFICES ASSUME NEW i \in ActiveIn(nodes) \ {top}, NEW k \in DOMAIN nodes[i].children
             PROVE  /\ k \in DOMAIN PlansOf(nodes, i)
                    /\ nodes[nodes[i].children[k]].type = PlansOf(nodes, i)[k]
  BY DEF Fed
<1>1. nodes[i].children \in Seq(Insts)
  BY DEF Nodes, Node, ActiveIn
<1>2. nodes[i].children # << >>
  BY <1>1
<1>3. TypesOf(nodes, i) = PlansOf(nodes, i)
  BY <1>2 DEF Suited, Suits
<1>4. k \in DOMAIN TypesOf(nodes, i)
      /\ TypesOf(nodes, i)[k] = nodes[nodes[i].children[k]].type
  BY DEF TypesOf
<1>5. QED
  BY <1>3, <1>4

\* A tree with another plan in the place of one is a tree.
LEMMA EditedType ==
  ASSUME NEW t \in TreeType, NEW i \in Insts, NEW x, SamePlace(t.nodes[i], x)
  PROVE  Edited(t, i, x) \in TreeType
<1>1. Edited(t, i, x) = [nodes |-> [t.nodes EXCEPT ![i] = x], pool |-> t.pool]
  BY EditedTwice
<1>2. QED
  BY <1>1 DEF TreeType, Nodes, SamePlace

\* The order is kept where plans change data and stay in states of their own.
LEMMA RelabelOrders ==
  ASSUME NEW PlanOf, NEW top, NEW t, Good(t, top), Ordered(t, top, PlanOf),
         NEW u, Relabels(t, u), Named(u.nodes, PlanOf)
  PROVE  Ordered(u, top, PlanOf)
<1>1. /\ ActiveIn(u.nodes) = ActiveIn(t.nodes) /\ t \in TreeType
      /\ top # None => top \in Insts
      /\ top = None => ActiveIn(t.nodes) = {}
  BY DEF Relabels, ActiveIn, Good, Consistent, RootActive
<1>2. \A j \in Insts : /\ u.nodes[j].type = t.nodes[j].type
                       /\ u.nodes[j].children = t.nodes[j].children
  BY DEF Relabels
<1>3. top # None => /\ t.nodes[top].children \in Seq(Insts) /\ Kids(t.nodes, top) \subseteq Insts
                    /\ Kids(u.nodes, top) = Kids(t.nodes, top)
  BY <1>1, <1>2, ChildrenAreInsts DEF TreeType, Nodes, Node, Kids
<1>4. MasterFed(u.nodes, top, PlanOf)
  <2> SUFFICES ASSUME top # None
               PROVE  /\ u.nodes[top].type = Master
                      /\ \A c \in Kids(u.nodes, top) : InMaster(u.nodes[c].type, PlanOf)
    BY DEF MasterFed
  <2>1. /\ t.nodes[top].type = Master
        /\ \A c \in Kids(t.nodes, top) : InMaster(t.nodes[c].type, PlanOf)
    BY DEF Ordered, MasterFed
  <2>2. \A c \in Kids(u.nodes, top) : c \in Kids(t.nodes, top) /\ u.nodes[c].type = t.nodes[c].type
    BY <1>2, <1>3
  <2>3. QED
    BY <1>1, <1>2, <2>1, <2>2
<1>5. top # None => (Twice(u.nodes, top) <=> Twice(t.nodes, top))
  <2> SUFFICES ASSUME top # None PROVE Twice(u.nodes, top) <=> Twice(t.nodes, top)
    OBVIOUS
  <2>1. u.nodes[top].children = t.nodes[top].children
    BY <1>1, <1>2
  <2>2. \A k \in DOMAIN t.nodes[top].children :
          u.nodes[t.nodes[top].children[k]].type = t.nodes[t.nodes[top].children[k]].type
    BY <1>2, <1>3 DEF Kids, ToSet
  <2>3. QED
    BY <2>1, <2>2 DEF Twice
<1>6. Runs(u, top)
  <2>1. Runs(t, top) /\ u.pool = t.pool /\ ActiveIn(t.nodes) \subseteq Insts
    BY DEF Ordered, Relabels, ActiveIn
  <2>2. QED
    BY <1>1, <1>2, <1>5, <2>1 DEF Runs
<1>7. QED
  BY <1>4, <1>6 DEF Ordered

\* A rule changes the data of one plan.
LEMMA EditOrders ==
  ASSUME NEW PlanOf, NEW top, NEW t, Good(t, top), Ordered(t, top, PlanOf),
         NEW i \in Insts, NEW x, SamePlace(t.nodes[i], x),
         x.active = "Active" =>
           \/ NamedIn(x, PlanOf)
           \/ x.state = t.nodes[i].state /\ x.entry = t.nodes[i].entry
  PROVE  Ordered(Edited(t, i, x), top, PlanOf)
<1> DEFINE u == Edited(t, i, x)
<1>1. t \in TreeType /\ t.nodes \in Nodes /\ x \in Node
  BY DEF Good, TreeType, SamePlace
<1>2. u.nodes = [t.nodes EXCEPT ![i] = x] /\ u.pool = t.pool
      /\ u = [nodes |-> u.nodes, pool |-> u.pool]
  <2>1. u = [nodes |-> [t.nodes EXCEPT ![i] = x], pool |-> t.pool]
    BY <1>1, EditedTwice
  <2>2. QED
    BY <2>1
<1> HIDE DEF u
<1>3. Relabels(t, u)
  BY <1>1, <1>2 DEF Relabels, SamePlace, TreeType, Nodes
<1>4. Named(u.nodes, PlanOf)
  BY <1>1, <1>2 DEF Ordered, Named, NamedIn, ActiveIn, Nodes, SamePlace
<1>5. QED
  BY <1>1, <1>3, <1>4, RelabelOrders DEF u

\* addFailure counts and flags.
LEMMA FailureOrders ==
  ASSUME NEW PlanOf, NEW top, NEW s \in Seq(Frame), NEW t, Fits(t, top, s),
         Ordered(t, top, PlanOf), NEW i \in ActiveIn(t.nodes)
  PROVE  Ordered(AddFailure(t, i), top, PlanOf)
<1> DEFINE u == AddFailure(t, i)
<1>1. /\ Fits(u, top, s) /\ u.pool = t.pool
      /\ ActiveIn(u.nodes) = ActiveIn(t.nodes)
      /\ \A j \in Insts : /\ SamePlace(t.nodes[j], u.nodes[j])
                          /\ u.nodes[j].state = t.nodes[j].state
                          /\ u.nodes[j].entry = t.nodes[j].entry
  BY FailureFits
<1> HIDE DEF u
<1>2. Good(t, top) /\ u \in TreeType
  BY <1>1 DEF Fits, Good
<1>3. Relabels(t, u)
  BY <1>1, <1>2 DEF Relabels, SamePlace
<1>4. Named(u.nodes, PlanOf)
  BY <1>1 DEF Ordered, Named, NamedIn, SamePlace, ActiveIn
<1>5. Ordered(u, top, PlanOf)
  BY <1>2, <1>3, <1>4, RelabelOrders
<1>6. QED
  BY <1>5 DEF u

\* The plans that stay when the children of a plan are dropped are in order: no
\* behaviour of theirs was stopped, since the behaviour of a plan that is gone was
\* in no other place.
LEMMA DropOrders ==
  ASSUME PlanTreeAssumption, NEW PlanOf, NEW Reach, BehavioursApart(PlanOf, Reach),
         NEW top, NEW t, Good(t, top), Suited(t.nodes, top), Ordered(t, top, PlanOf),
         NEW i \in ActiveIn(t.nodes)
  PROVE  Ordered(DropChildren(t, i), top, PlanOf)
<1> DEFINE G == Deactivated(t, i)
           u == DropChildren(t, i)
<1>1. u \in TreeType /\ Dropped(t, i, G, u)
  BY DropDoes
<1> HIDE DEF G, u
<1>2. /\ Good(u, top) /\ ActiveIn(u.nodes) = ActiveIn(t.nodes) \ G
      /\ G \cap {i, top} = {} /\ u.nodes[i].children = << >>
  <2>1. i \in Insts
    BY DEF ActiveIn
  <2>2. Good(u, top)
    BY <1>1, DropKeeps
  <2>3. ActiveIn(u.nodes) = ActiveIn(t.nodes) \ G
    BY <1>1 DEF Dropped, Prunes, ActiveIn
  <2>4. G \cap {i, top} = {}
    BY <1>1, DropKeeps
  <2>5. u.nodes[i].children = << >>
    BY <1>1, <2>1 DEF Dropped, Prunes
  <2>6. QED
    BY <2>2, <2>3, <2>4, <2>5
<1>3. /\ t.nodes \in Nodes /\ Consistent(t.nodes, top) /\ G \subseteq ActiveIn(t.nodes)
      /\ i \in Insts /\ ActiveIn(t.nodes) \subseteq Insts
      /\ top \in Insts /\ top \in ActiveIn(t.nodes)
  <2>1. t.nodes \in Nodes /\ Consistent(t.nodes, top) /\ ActiveIn(t.nodes) \subseteq Insts
    BY DEF Good, TreeType, ActiveIn
  <2>2. top \in ActiveIn(t.nodes)
    BY <2>1 DEF Consistent, RootActive, ActiveIn
  <2>3. G \subseteq ActiveIn(t.nodes)
    BY <1>1, <2>1, SubtreeBelow DEF Dropped
  <2>4. QED
    BY <2>1, <2>2, <2>3
<1>4. \A j \in Insts : /\ u.nodes[j].type = t.nodes[j].type
                       /\ u.nodes[j].state = t.nodes[j].state
                       /\ u.nodes[j].entry = t.nodes[j].entry
  BY <1>1 DEF Dropped, SameData
<1>5. Named(u.nodes, PlanOf)
  BY <1>2, <1>3, <1>4 DEF Ordered, Named, NamedIn
<1>6. \/ Kids(u.nodes, top) = {} /\ top = i
      \/ u.nodes[top].children = t.nodes[top].children
  <2>1. CASE i = top
    BY <1>2, <2>1 DEF Kids, ToSet
  <2>2. CASE i # top
    BY <1>1, <1>3, <2>2 DEF Dropped, Prunes
  <2>3. QED
    BY <2>1, <2>2
<1>7. Kids(t.nodes, top) \subseteq Insts /\ Kids(u.nodes, top) \subseteq Kids(t.nodes, top)
  BY <1>3, <1>6, ChildrenAreInsts DEF Kids
<1>8. MasterFed(u.nodes, top, PlanOf)
  <2>1. top # None
    BY <1>3 DEF Insts, None
  <2>2. /\ t.nodes[top].type = Master
        /\ \A c \in Kids(t.nodes, top) : InMaster(t.nodes[c].type, PlanOf)
    BY <2>1 DEF Ordered, MasterFed
  <2>3. \A c \in Kids(u.nodes, top) : InMaster(u.nodes[c].type, PlanOf)
    BY <1>4, <1>7, <2>2
  <2>4. QED
    BY <1>3, <1>4, <2>2, <2>3 DEF MasterFed
<1>9. Runs(u, top)
  <2>1. CASE Kids(u.nodes, top) = {} /\ top = i
    <3>1. Closed(u.nodes, {top}) /\ {top} \in SUBSET Insts
      BY <1>3, <2>1 DEF Closed, Kids
    <3>2. ActiveIn(u.nodes) \subseteq {top}
      BY <1>2, <3>1 DEF Good, Consistent, Hangs
    <3>3. u.nodes[top].type \notin Behaviours
      BY <1>3, <1>8 DEF MasterFed, Insts, None, PlanTreeAssumption
    <3>4. QED
      BY <3>2, <3>3 DEF Runs
  <2>2. CASE u.nodes[top].children = t.nodes[top].children
    <3> SUFFICES ASSUME ~ Twice(u.nodes, top), NEW j \in ActiveIn(u.nodes), NEW b \in Behaviours,
                        u.nodes[j].type = b
                 PROVE  u.pool[b].running /\ u.pool[b].context = j
      BY DEF Runs
    <3>1. ~ Twice(t.nodes, top)
      <4>1. \A k \in DOMAIN t.nodes[top].children :
              u.nodes[t.nodes[top].children[k]].type = t.nodes[t.nodes[top].children[k]].type
        <5>1. t.nodes[top].children \in Seq(Insts)
          BY <1>3 DEF Nodes, Node
        <5>2. QED
          BY <1>4, <5>1
      <4>2. QED
        BY ZenonT(40), <2>2, <4>1 DEF Twice
    <3>2. j \in ActiveIn(t.nodes) \ G /\ t.nodes[j].type = b
      BY <1>2, <1>3, <1>4
    <3>3. t.pool[b].running /\ t.pool[b].context = j
      BY <3>1, <3>2 DEF Ordered, Runs
    <3>4. Tidy(t.nodes, top, PlanOf)
      BY <1>3, <3>1, SuitedFed DEF Tidy, Ordered
    <3>5. \A q \in G : t.nodes[q].type # b
      BY <1>3, <3>2, <3>4, OnePlace
    <3>6. QED
      BY <1>1, <3>3, <3>5 DEF Dropped, Stops
  <2>3. QED
    BY <1>6, <2>1, <2>2
<1>10. QED
  BY <1>5, <1>8, <1>9 DEF Ordered, u

\* The plans an allocation is to make are plans of their parents' states.
Listed(w) ==
  \A k \in 1..Len(w.todo) : w.todo[k][2] \in ToSet(PlansOf(w.tree.nodes, w.todo[k][1]))

Orderly(t, top, i, PlanOf) ==
  {w \in Working(t, top) : /\ Pending(t, top, i, w) /\ Listed(w)
                           /\ Ordered(w.tree, top, PlanOf)}

\* During an allocation each plan has the first plans of its state.
LEMMA WorkFed ==
  ASSUME PlanTreeAssumption, NEW top, NEW t, Good(t, top), Suited(t.nodes, top),
         NEW i \in ActiveIn(t.nodes), NEW w \in Working(t, top), Pending(t, top, i, w)
  PROVE  Fed(w.tree.nodes, top)
<1> DEFINE N == t.nodes
           M == w.tree.nodes
<1>1. N \in Nodes /\ OneParent(N) /\ Fed(N, top) /\ M \in Nodes
  <2>1. N \in Nodes /\ OneParent(N)
    BY DEF Good, TreeType, Consistent
  <2>2. M \in Nodes
    BY DEF Working, Good, TreeType
  <2>3. QED
    BY <2>1, <2>2, SuitedFed
<1>2. \A j \in Insts : N[j].active # "Free" =>
        M[j].active = N[j].active /\ M[j].type = N[j].type /\ M[j].state = N[j].state
  BY DEF Working, Extends, SameData
<1> SUFFICES ASSUME NEW j \in ActiveIn(M) \ {top}, NEW k \in DOMAIN M[j].children
             PROVE  k \in DOMAIN PlansOf(M, j) /\ M[M[j].children[k]].type = PlansOf(M, j)[k]
  BY DEF Fed
<1>3. j \in Insts /\ M[j].children \in Seq(Insts)
  BY <1>1 DEF ActiveIn, Nodes, Node
<1>4. CASE j \in Growing(t, top, i, w)
  <2> DEFINE got == M[j].children
             all == PlansOf(M, j)
  <2>1. PICK a \in Nat : InTurn(w, j, a)
    BY <1>4 DEF Pending
  <2>2. all \in Seq(Types) /\ Len(all) \in Nat
    BY <1>1, <1>3, PlansOfType
  <2>3. Len(all) - Len(got) \in Nat /\ \A m \in 1..Len(got) : M[got[m]].type = all[m]
    BY <2>1 DEF InTurn
  <2>4. k \in 1..Len(got) /\ Len(got) \in Nat
    <3>1. got \in Seq(Insts) /\ k \in DOMAIN got
      BY <1>3
    <3> HIDE DEF got
    <3>2. QED
      BY <3>1
  <2> HIDE DEF got, all
  <2>5. k \in 1..Len(all) /\ M[got[k]].type = all[k]
    BY <2>2, <2>3, <2>4
  <2>6. QED
    BY <2>2, <2>5 DEF got, all
<1>5. CASE j \notin Growing(t, top, i, w)
  <2>1. j \in ActiveIn(N) \ {i} /\ j # top
    <3>1. N[j].active # "Free" /\ j # i
      BY <1>5 DEF Growing
    <3>2. N[j].active = "Active"
      BY <1>2, <1>3, <3>1 DEF ActiveIn
    <3>3. QED
      BY <1>3, <3>1, <3>2 DEF ActiveIn
  <2>2. M[j].children = N[j].children
    BY <2>1 DEF Pending
  <2>3. k \in DOMAIN PlansOf(N, j) /\ N[N[j].children[k]].type = PlansOf(N, j)[k]
    BY <1>1, <2>1, <2>2 DEF Fed
  <2>4. M[j].state = N[j].state
    BY <1>2, <2>1 DEF ActiveIn
  <2>5. PlansOf(M, j) = PlansOf(N, j)
    BY <2>4 DEF PlansOf
  <2>6. N[j].children[k] \in ActiveIn(N)
    BY <1>1, <1>3, <2>1, <2>2 DEF OneParent, Kids, ToSet
  <2>7. M[N[j].children[k]].type = N[N[j].children[k]].type
    BY <1>2, <2>6 DEF ActiveIn
  <2>8. QED
    BY <2>2, <2>3, <2>5, <2>7
<1>6. QED
  BY <1>4, <1>5

\* What is listed after a step is what is left and the plans of the new plan's state.
LEMMA ListedStep ==
  ASSUME PlanTreeAssumption, NEW t, NEW top, NEW w \in Working(t, top), Listed(w),
         NEW n \in Insts, NEW u, NEW p \in Types, NEW parent \in ActiveIn(w.tree.nodes),
         NEW s \in States \cup {NoState}, Adds(w, u, n, p, parent, s)
  PROVE  Listed(u)
<1> DEFINE kids == KidsOf(n, s)
           N == w.tree.nodes
           M == u.tree.nodes
<1>1. /\ w.todo \in Seq(Insts \X Types) /\ Len(w.todo) >= 1 /\ u.todo = kids \o Tail(w.todo)
      /\ M[n].state = s
  BY DEF Adds
<1>2. /\ PlansOf(M, n) \in Seq(Types) /\ Len(kids) = Len(PlansOf(M, n))
      /\ kids \in Seq(Insts \X Types)
      /\ \A l \in 1..Len(kids) : kids[l] = <<n, PlansOf(M, n)[l]>>
  BY <1>1, KidsAre
<1>3. \A j \in ActiveIn(N) : PlansOf(M, j) = PlansOf(N, j)
  <2> SUFFICES ASSUME NEW j \in ActiveIn(N) PROVE M[j].state = N[j].state
    BY DEF PlansOf
  <2>1. j \in Insts /\ j # n
    BY DEF Adds, ActiveIn
  <2>2. QED
    BY <2>1 DEF Adds, SameData
<1>4. \A k \in 1..Len(w.todo) : w.todo[k][1] \in ActiveIn(N)
  BY <1>1 DEF Working
<1> HIDE DEF kids, N, M
<1> SUFFICES ASSUME NEW k \in 1..Len(u.todo)
             PROVE  u.todo[k][2] \in ToSet(PlansOf(M, u.todo[k][1]))
  BY DEF Listed, M
<1>5. /\ \A l \in 1..Len(kids) : u.todo[l] = kids[l]
      /\ \A l \in (Len(kids) + 1)..Len(u.todo) :
           /\ l - Len(kids) + 1 \in 2..Len(w.todo)
           /\ u.todo[l] = w.todo[l - Len(kids) + 1]
  <2> DEFINE entries == Insts \X Types
             todo == w.todo
             after == u.todo
  <2>1. /\ kids \in Seq(entries) /\ todo \in Seq(entries) /\ Len(todo) >= 1
        /\ after = kids \o Tail(todo)
    BY <1>1, <1>2
  <2> HIDE DEF entries, todo, after
  <2>2. /\ \A l \in 1..Len(kids) : after[l] = kids[l]
        /\ \A l \in (Len(kids) + 1)..Len(after) :
             l - Len(kids) + 1 \in 2..Len(todo) /\ after[l] = todo[l - Len(kids) + 1]
    BY <2>1, ListAfter
  <2>3. QED
    BY <2>2 DEF todo, after
<1>6. CASE k \in 1..Len(kids)
  <2>1. u.todo[k] = <<n, PlansOf(M, n)[k]>>
    BY <1>2, <1>5, <1>6
  <2>2. PlansOf(M, n)[k] \in ToSet(PlansOf(M, n))
    BY <1>2, <1>6 DEF ToSet
  <2>3. QED
    BY <2>1, <2>2
<1>7. CASE k \notin 1..Len(kids)
  <2> DEFINE l == k - Len(kids) + 1
  <2>1. k \in (Len(kids) + 1)..Len(u.todo)
    <3>1. Len(kids) \in Nat
      BY <1>2
    <3>2. QED
      BY <1>7, <3>1
  <2>2. l \in 2..Len(w.todo) /\ u.todo[k] = w.todo[l]
    BY <1>5, <2>1
  <2> HIDE DEF l
  <2>3. l \in 1..Len(w.todo)
    BY <1>1, <2>2
  <2>4. w.todo[l][2] \in ToSet(PlansOf(N, w.todo[l][1]))
    BY <2>3 DEF Listed, N
  <2>5. QED
    BY <1>3, <1>4, <2>2, <2>3, <2>4
<1>8. QED
  BY <1>6, <1>7

\* A plan is started in a state of its own, or in none.
LEMMA MadeNamed ==
  ASSUME PlanTreeAssumption, NEW PlanOf, NEW Reach, BehavioursApart(PlanOf, Reach),
         NEW w, NEW u, NEW tasks \in Tasks, NEW n, NEW p \in Types, NEW parent,
         NEW s, Adds(w, u, n, p, parent, s), Makes(w, tasks, n, u)
  PROVE  NamedIn(u.tree.nodes[n], PlanOf)
<1>1. w.todo[1] = <<parent, p>>
  BY DEF Adds
<1>2. u.tree.nodes[n].type = p /\ u.tree.nodes[n].state = StartOf(p, tasks)
      /\ u.tree.nodes[n].entry = StartOf(p, tasks)
  BY <1>1 DEF Makes
<1>3. ASSUME StartOf(p, tasks) # NoState PROVE PlanOf[StartOf(p, tasks)] = p
  <2>1. p \in Plans /\ StartOf(p, tasks) = tasks[p]
    BY <1>3 DEF StartOf
  <2>2. tasks[p] \in EntryStates[p]
    BY <1>3, <2>1 DEF Tasks, TasksOf
  <2>3. QED
    BY <2>1, <2>2 DEF BehavioursApart
<1>4. QED
  BY <1>2, <1>3 DEF NamedIn

\* A plan that is made joins a tree in order: it is one of its parent's state, and
\* its behaviour, started for it, is in no other place.
LEMMA MakesOrders ==
  ASSUME PlanTreeAssumption, NEW PlanOf, NEW Reach, BehavioursApart(PlanOf, Reach),
         NEW top, NEW t, Good(t, top), Suited(t.nodes, top), NEW i \in ActiveIn(t.nodes),
         NEW w \in Orderly(t, top, i, PlanOf), NEW tasks \in Tasks, NEW n \in Insts,
         w.tree.nodes[n].active = "Free", NEW u \in Working(t, top), Pending(t, top, i, u),
         Makes(w, tasks, n, u)
  PROVE  u \in Orderly(t, top, i, PlanOf)
<1> DEFINE N == w.tree.nodes
           M == u.tree.nodes
<1>1. w \in Working(t, top) /\ Listed(w) /\ Ordered(w.tree, top, PlanOf)
  BY DEF Orderly
<1>2. PICK p \in Types, parent \in ActiveIn(N), s \in States \cup {NoState} :
        Adds(w, u, n, p, parent, s)
  <2>1. t \in TreeType /\ u \in Works
    BY DEF Good, Working
  <2>2. QED
    BY <1>1, <2>1, MakesAdds
<1>3. /\ N \in Nodes /\ Consistent(N, top) /\ w.tree.pool \in Pools
      /\ M \in Nodes /\ Consistent(M, top)
  BY <1>1 DEF Working, Good, TreeType
<1>4. /\ ActiveIn(M) = ActiveIn(N) \cup {n} /\ n \notin ActiveIn(N) /\ n # parent
      /\ ActiveIn(N) \subseteq Insts /\ parent \in Insts
      /\ M[n].type = p /\ M[n].children = << >>
      /\ M[parent].children = Append(N[parent].children, n)
      /\ \A j \in Insts \ {parent, n} : M[j] = N[j]
  BY <1>2 DEF Adds, ActiveIn
<1>5. /\ w.todo[1] = <<parent, p>> /\ 1 \in 1..Len(w.todo)
      /\ SameData(N, M, parent)
  <2>1. /\ w.todo \in Seq(Insts \X Types) /\ Len(w.todo) >= 1 /\ w.todo[1] = <<parent, p>>
        /\ SameData(N, M, parent)
    BY <1>2 DEF Adds
  <2> DEFINE todo == w.todo
             Pairs == Insts \X Types
  <2>2. todo \in Seq(Pairs) /\ Len(todo) >= 1
    BY <2>1
  <2> HIDE DEF todo, Pairs
  <2>3. 1 \in 1..Len(todo)
    BY <2>2
  <2>4. QED
    BY <2>1, <2>3 DEF todo
<1>6. \A j \in ActiveIn(N) : /\ M[j].type = N[j].type /\ M[j].state = N[j].state
                             /\ M[j].entry = N[j].entry
  BY <1>4, <1>5 DEF SameData
<1>7. Listed(u)
  BY <1>1, <1>2, ListedStep
<1>8. Named(M, PlanOf)
  <2>1. NamedIn(M[n], PlanOf)
    BY <1>2, MadeNamed
  <2>2. \A j \in ActiveIn(N) : NamedIn(M[j], PlanOf)
    BY <1>1, <1>6 DEF Ordered, Named, NamedIn
  <2>3. QED
    BY <1>4, <2>1, <2>2 DEF Named
<1>9. top \in ActiveIn(N) /\ top \in Insts /\ top # None /\ top # n
  <2>1. top \in ActiveIn(N)
    BY <1>3, <1>4 DEF Consistent, RootActive, ActiveIn
  <2>2. QED
    BY <1>4, <2>1 DEF Insts, None
<1> HIDE DEF N, M
<1>10. /\ N[top].type = Master /\ \A c \in Kids(N, top) : InMaster(N[c].type, PlanOf)
       /\ Kids(N, top) \subseteq ActiveIn(N) /\ N[top].children \in Seq(Insts)
  <2>1. Kids(N, top) \subseteq ActiveIn(N)
    BY <1>3, <1>9 DEF Consistent, OneParent
  <2>2. N[top].children \in Seq(Insts)
    BY <1>3, <1>9 DEF Nodes, Node
  <2>3. QED
    BY <1>1, <1>9, <2>1, <2>2 DEF Ordered, MasterFed, N
<1>11. /\ \A k \in DOMAIN N[top].children : /\ k \in DOMAIN M[top].children
                                            /\ M[top].children[k] = N[top].children[k]
       /\ Kids(M, top) \subseteq Kids(N, top) \cup {n}
       /\ n \in Kids(M, top) => top = parent
  <2>1. CASE top # parent
    <3>1. M[top].children = N[top].children
      BY <1>4, <1>9, <2>1
    <3>2. n \notin Kids(N, top)
      BY <1>4, <1>10
    <3>3. QED
      BY <3>1, <3>2 DEF Kids
  <2>2. CASE top = parent
    <3> DEFINE ch == N[top].children
    <3>1. M[top].children = Append(ch, n) /\ ch \in Seq(Insts)
      BY <1>4, <1>10, <2>2
    <3> HIDE DEF ch
    <3>2. /\ \A k \in DOMAIN ch : k \in DOMAIN Append(ch, n) /\ Append(ch, n)[k] = ch[k]
          /\ \A k \in DOMAIN Append(ch, n) : k \in DOMAIN ch \/ Append(ch, n)[k] = n
      BY <3>1
    <3>3. Kids(M, top) \subseteq Kids(N, top) \cup {n}
      BY <3>1, <3>2 DEF Kids, ToSet, ch
    <3>4. QED
      BY <2>2, <3>1, <3>2, <3>3 DEF ch
  <2>3. QED
    BY <2>1, <2>2
<1>12. MasterFed(M, top, PlanOf)
  <2>1. ASSUME top = parent PROVE InMaster(p, PlanOf)
    <3>1. p \in ToSet(PlansOf(N, top))
      BY <1>1, <1>5, <2>1 DEF Listed, N
    <3>2. N[top].state # NoState
      BY <3>1 DEF PlansOf, ToSet
    <3>3. N[top].state \in States /\ PlanOf[N[top].state] = Master
      BY <1>1, <1>3, <1>9, <1>10, <3>2 DEF Ordered, Named, NamedIn, Nodes, Node, N
    <3>4. QED
      BY <3>1, <3>2, <3>3 DEF InMaster, PlansOf, ToSet
  <2>2. \A c \in Kids(M, top) : InMaster(M[c].type, PlanOf)
    BY <1>4, <1>6, <1>10, <1>11, <2>1
  <2>3. QED
    BY <1>6, <1>9, <1>10, <2>2 DEF MasterFed
<1>13. Twice(N, top) => Twice(M, top)
  <2>1. \A k \in DOMAIN N[top].children : M[M[top].children[k]].type = N[N[top].children[k]].type
    BY <1>6, <1>10, <1>11 DEF Kids, ToSet
  <2>2. QED
    BY ZenonT(40), <1>11, <2>1 DEF Twice
<1>14. /\ p \in Behaviours => Started(w.tree.pool, p, n, u.tree.pool)
       /\ p \notin Behaviours => u.tree.pool = w.tree.pool
  <2>1. w.todo[1][2] = p
    BY <1>5
  <2>2. u.tree.pool = IF p \in Behaviours
                      THEN [w.tree.pool EXCEPT ![p].context = n, ![p].running = TRUE]
                      ELSE w.tree.pool
    BY <2>1 DEF Makes
  <2>3. CASE p \in Behaviours
    <3> DEFINE pl == w.tree.pool
    <3>1. pl \in Pools /\ u.tree.pool = [pl EXCEPT ![p].context = n, ![p].running = TRUE]
      BY <1>3, <2>2, <2>3
    <3> HIDE DEF pl
    <3>2. Started(pl, p, n, [pl EXCEPT ![p].context = n, ![p].running = TRUE])
      BY <2>3, <3>1, StartedPool
    <3>3. QED
      BY <2>3, <3>1, <3>2 DEF pl
  <2>4. CASE p \notin Behaviours
    BY <2>2, <2>4
  <2>5. QED
    BY <2>3, <2>4
<1>15. Runs(u.tree, top)
  <2> SUFFICES ASSUME ~ Twice(M, top), NEW j \in ActiveIn(M), NEW b \in Behaviours, M[j].type = b
               PROVE  u.tree.pool[b].running /\ u.tree.pool[b].context = j
    BY DEF Runs, M
  <2>1. Tidy(M, top, PlanOf)
    <3>1. Fed(M, top)
      BY WorkFed DEF M
    <3>2. QED
      BY <1>3, <1>8, <1>12, <3>1 DEF Tidy
  <2>2. CASE b = p
    <3>1. n \in ActiveIn(M) /\ M[n].type = b
      BY <1>4, <2>2
    <3>2. j = n
      BY <2>1, <3>1, OnePlace
    <3>3. QED
      BY <1>14, <2>2, <3>2 DEF Started
  <2>3. CASE b # p
    <3>1. j \in ActiveIn(N) /\ N[j].type = b
      BY <1>4, <1>6, <2>3
    <3>2. w.tree.pool[b].running /\ w.tree.pool[b].context = j
      BY <1>1, <1>13, <3>1 DEF Ordered, Runs, N
    <3>3. u.tree.pool[b] = w.tree.pool[b]
      BY <1>14, <2>3 DEF Started
    <3>4. QED
      BY <3>2, <3>3
  <2>4. QED
    BY <2>2, <2>3
<1>16. QED
  BY <1>7, <1>8, <1>12, <1>15 DEF Orderly, Ordered, M

\* One step of an allocation.
LEMMA MakeNextOrders ==
  ASSUME PlanTreeAssumption, NEW PlanOf, NEW Reach, BehavioursApart(PlanOf, Reach),
         NEW top, NEW t, Good(t, top), Suited(t.nodes, top), NEW i \in ActiveIn(t.nodes),
         NEW w \in Orderly(t, top, i, PlanOf), NEW k \in Nat, Lasts(w, k), NEW tasks \in Tasks
  PROVE  MakeNext(w, tasks) \in Orderly(t, top, i, PlanOf) /\ Lasts(MakeNext(w, tasks), k + 1)
<1> DEFINE u == MakeNext(w, tasks)
<1>1. w \in Working(t, top) /\ Pending(t, top, i, w) /\ Listed(w) /\ Ordered(w.tree, top, PlanOf)
  BY DEF Orderly
<1>2. t \in TreeType
  BY DEF Good
<1>3. u \in Working(t, top) /\ Pending(t, top, i, u) /\ Lasts(u, k + 1)
  <2>1. u \in Working(t, top)
    BY <1>1, <1>2, MakeNextKeeps
  <2>2. QED
    BY <1>1, <1>2, <2>1, MakeNextPending
<1>4. w \in Works /\ u \in Works
  BY <1>1, <1>3 DEF Working
<1>5. \/ (w.todo = << >> \/ ~ w.room) /\ u = w
      \/ u = [w EXCEPT !.room = FALSE]
      \/ \E n \in Insts : w.tree.nodes[n].active = "Free" /\ Makes(w, tasks, n, u)
  <2>1. w.todo # << >> => w.tree.nodes[w.todo[1][1]].active # "Free"
    BY <1>1, <1>4 DEF Working, Works, ActiveIn
  <2>2. QED
    BY <1>4, <2>1, MakeNextDoes
<1> SUFFICES u \in Orderly(t, top, i, PlanOf)
  BY <1>3
<1> HIDE DEF u
<1>6. CASE u = w
  BY <1>6
<1>7. CASE u = [w EXCEPT !.room = FALSE]
  <2>1. u.tree = w.tree /\ u.todo = w.todo
    BY <1>4, <1>7 DEF Works
  <2>2. Listed(u) /\ Ordered(u.tree, top, PlanOf)
    BY <1>1, <2>1 DEF Listed
  <2>3. QED
    BY <1>3, <2>2 DEF Orderly
<1>8. CASE \E n \in Insts : w.tree.nodes[n].active = "Free" /\ Makes(w, tasks, n, u)
  BY <1>3, <1>8, MakesOrders
<1>9. QED
  BY <1>5, <1>6, <1>7, <1>8

\* An allocation leaves the tree in order.
LEMMA AllocationOrders ==
  ASSUME PlanTreeAssumption, NEW PlanOf, NEW Reach, BehavioursApart(PlanOf, Reach),
         NEW top, NEW t, Good(t, top), Settled(t.nodes), Suited(t.nodes, top),
         NEW i \in ActiveIn(t.nodes), t.nodes[i].state \in States, NEW tasks \in Tasks,
         i # top => t.nodes[i].children = << >>, Ordered(t, top, PlanOf)
  PROVE  Ordered(Allocate(t, i, tasks).tree, top, PlanOf)
<1> DEFINE n == NumInsts + 1
           O == Orderly(t, top, i, PlanOf)
<1>1. n \in Nat /\ t \in TreeType
  BY DEF PlanTreeAssumption, Good
<1>2. PICK f : Allocates(t, top, i, tasks, f)
  BY AllocateDoes
<1>3. /\ f \in [0..n -> Working(t, top)] /\ f[0] = Begun(t, i)
      /\ \A k \in 1..n : f[k] = MakeNext(f[k - 1], tasks)
      /\ Allocate(t, i, tasks) = f[n]
  BY <1>2 DEF Allocates
<1>4. Listed(Begun(t, i)) /\ Begun(t, i).tree = t
  <2> DEFINE all == StatePlans[t.nodes[i].state]
             todo == [j \in 1..Len(all) |-> <<i, all[j]>>]
             w == Begun(t, i)
  <2>1. all \in Seq(Types) /\ PlansOf(t.nodes, i) = all
    BY DEF PlanTreeAssumption, PlansOf
  <2>2. w.tree = t /\ w.todo = todo
    BY <2>1 DEF Begun
  <2> HIDE DEF all, w
  <2>3. \A k \in 1..Len(todo) : todo[k][1] = i /\ todo[k][2] \in ToSet(all)
    BY <2>1 DEF ToSet
  <2> HIDE DEF todo
  <2>4. QED
    BY <2>1, <2>2, <2>3 DEF Listed, w
<1> HIDE DEF n
<1> DEFINE K == {k \in 0..n : f[k] \in O /\ Lasts(f[k], k)}
<1>5. 0 \in K
  <2>1. Pending(t, top, i, Begun(t, i)) /\ Lasts(Begun(t, i), 0)
    BY BegunPending
  <2>2. 0 \in 0..n /\ f[0] \in Working(t, top)
    BY <1>1, <1>3
  <2>3. QED
    BY <1>3, <1>4, <2>1, <2>2 DEF Orderly
<1> HIDE DEF O
<1>6. ASSUME NEW k \in 0..(n - 1), k \in K PROVE k + 1 \in K
  <2>1. k \in Nat /\ k \in 0..n /\ k + 1 \in 0..n /\ k + 1 \in 1..n /\ k + 1 - 1 = k
    BY <1>1
  <2> DEFINE w == f[k]
  <2>2. w \in Orderly(t, top, i, PlanOf) /\ Lasts(w, k)
    BY <1>6 DEF O
  <2>3. f[k + 1] = MakeNext(w, tasks)
    BY <1>3, <2>1
  <2> HIDE DEF w
  <2>4. MakeNext(w, tasks) \in Orderly(t, top, i, PlanOf) /\ Lasts(MakeNext(w, tasks), k + 1)
    BY <2>1, <2>2, MakeNextOrders
  <2>5. QED
    BY <2>1, <2>3, <2>4 DEF O
<1>7. 0..n \subseteq K /\ n \in 0..n
  <2> HIDE DEF K
  <2>1. 0..n \subseteq K
    BY <1>1, <1>5, <1>6, IntervalInduction
  <2>2. QED
    BY <1>1, <2>1
<1> HIDE DEF K
<1>8. f[n] \in O
  BY <1>7 DEF K
<1>9. QED
  BY <1>3, <1>8 DEF O, Orderly

\* The tree after a rule.
LEMMA TreeOrders ==
  ASSUME NEW PlanOf, NEW t \in TreeType, SetTree(t), root' = root, Ordered(t, root, PlanOf)
  PROVE  Ordered(Tree, root, PlanOf)'
<1>1. t = [nodes |-> t.nodes, pool |-> t.pool]
  BY DEF TreeType
<1>2. Tree' = t
  BY <1>1 DEF Tree, SetTree
<1>3. QED
  BY <1>2

\* What a rule finds: the tree and the visited plan in order, before and after the
\* plan's children are dropped.
LEMMA VisitedOrders ==
  ASSUME PlanTreeAssumption, NEW PlanOf, NEW Reach, BehavioursApart(PlanOf, Reach),
         PlanTreeInv, pc = "visit", Ordered(Tree, root, PlanOf)
  PROVE  LET d == DropChildren(Tree, r)
         IN  /\ Good(Tree, root) /\ Good(d, root) /\ Ordered(d, root, PlanOf)
             /\ NamedIn(node[r], PlanOf) /\ NamedIn(d.nodes[r], PlanOf)
             /\ d.nodes[r].type = node[r].type
             /\ d.nodes[r].state = node[r].state /\ d.nodes[r].entry = node[r].entry
<1> DEFINE d == DropChildren(Tree, r)
<1>1. /\ Fits(Tree, root, stack) /\ r \in ActiveIn(node) /\ r \in Insts /\ Tree.nodes = node
      /\ DropsAt(node, stack, r) /\ stack \in Seq(Frame)
  BY VisitedPlan, TreeFits
<1>2. Good(Tree, root) /\ Suited(node, root)
  BY <1>1 DEF Fits
<1>3. Fits(d, root, stack) /\ r \in ActiveIn(d.nodes)
  BY VisitedDrop
<1>4. Ordered(d, root, PlanOf)
  BY <1>1, <1>2, DropOrders
<1>5. \A j \in Insts : SameData(node, d.nodes, j)
  BY <1>1, DropFits
<1> HIDE DEF d
<1>6. NamedIn(node[r], PlanOf) /\ NamedIn(d.nodes[r], PlanOf)
  BY <1>1, <1>3, <1>4 DEF Ordered, Named
<1>7. SameData(node, d.nodes, r)
  BY <1>1, <1>5
<1>8. Good(d, root)
  BY <1>3 DEF Fits
<1>9. QED
  BY <1>2, <1>4, <1>6, <1>7, <1>8 DEF d, SameData

\* A plan in a state of its own is in one after a transition.
LEMMA EnteredOrders ==
  ASSUME PlanTreeAssumption, NEW PlanOf, NEW Reach, BehavioursApart(PlanOf, Reach),
         PlanTreeInv, pc = "visit", Ordered(Tree, root, PlanOf), NEW s \in States,
         <<node[r].state, s>> \in Transitions \cup SyncTransitions,
         SetTree(Entered(s)), root' = root
  PROVE  Ordered(Tree, root, PlanOf)'
<1> DEFINE d == DropChildren(Tree, r)
           n == d.nodes[r]
<1>1. PICK x : /\ SamePlace(n, x) /\ x.state = s /\ x.entry = n.entry
               /\ Entered(s) = Edited(d, r, x)
  BY EnteredIs
<1>2. /\ Good(d, root) /\ Ordered(d, root, PlanOf)
      /\ NamedIn(n, PlanOf) /\ n.type = node[r].type /\ n.state = node[r].state
  BY VisitedOrders
<1>3. r \in Insts
  BY TreeFits
<1>4. Entered(s) \in TreeType
  BY EnteredFits DEF Fits, Good
<1> HIDE DEF d
<1>5. n.state \in States /\ n.state # NoState /\ PlanOf[s] = PlanOf[n.state]
  <2>1. n.state \in States /\ n.state # NoState
    BY <1>2 DEF PlanTreeAssumption
  <2>2. PlanOf[<<node[r].state, s>>[1]] = PlanOf[<<node[r].state, s>>[2]]
    BY DEF BehavioursApart
  <2>3. QED
    BY <1>2, <2>1, <2>2
<1>6. NamedIn(x, PlanOf)
  <2>1. PlanOf[s] = n.type
    BY <1>2, <1>5 DEF NamedIn
  <2>2. QED
    BY <1>1, <1>2, <2>1 DEF NamedIn, SamePlace
<1>7. Ordered(Edited(d, r, x), root, PlanOf)
  BY <1>1, <1>2, <1>3, <1>6, EditOrders
<1>8. QED
  BY <1>1, <1>4, <1>7, TreeOrders DEF d

\* The tasks of the visited plan are states of its own.
LEMMA TasksNamed ==
  ASSUME PlanTreeAssumption, NEW PlanOf, NEW Reach, BehavioursApart(PlanOf, Reach),
         PlanTreeInv, pc = "visit", NEW s \in TasksIn(r), s # NoState
  PROVE  PlanOf[s] = node[r].type
<1>1. node[r] \in Node /\ ~ IsBehaviour(r)
  BY TreeFits DEF TasksIn
<1>2. node[r].type \in Plans
  BY <1>1 DEF Node, Types, IsBehaviour
<1>3. s \in EntryStates[node[r].type]
  BY <1>1 DEF TasksIn, TasksOf
<1>4. QED
  BY <1>2, <1>3 DEF BehavioursApart

\* The rules of transitions keep the tree in order.
LEMMA TransitionsOrder ==
  ASSUME PlanTreeAssumption, NEW PlanOf, NEW Reach, BehavioursApart(PlanOf, Reach),
         PlanTreeInv, Ordered(Tree, root, PlanOf),
         SynchTransitionRule \/ TransitionRule \/ LastTransitionRule
  PROVE  Ordered(Tree, root, PlanOf)'
<1>1. pc = "visit" /\ root' = root
  BY Zenon DEF SynchTransitionRule, TransitionRule, LastTransitionRule, At, Proceed, engine
<1>2. PICK s \in States : /\ <<node[r].state, s>> \in Transitions \cup SyncTransitions
                          /\ SetTree(Entered(s))
  BY Zenon DEF SynchTransitionRule, TransitionRule, LastTransitionRule
<1>3. QED
  BY <1>1, <1>2, EnteredOrders

\* The master plan is put back into a state of its own.
LEMMA TopFailOrders ==
  ASSUME PlanTreeAssumption, NEW PlanOf, NEW Reach, BehavioursApart(PlanOf, Reach),
         PlanTreeInv, Ordered(Tree, root, PlanOf), TopFailRule
  PROVE  Ordered(Tree, root, PlanOf)'
<1>1. pc = "visit" /\ root' = root
  BY DEF TopFailRule, At, Proceed, engine
<1>2. PICK x : /\ SamePlace(node[r], x) /\ x.state = node[r].entry /\ x.entry = node[r].entry
               /\ SetTree(Edited(Tree, r, x))
  BY TopFailDoes
<1>3. Good(Tree, root) /\ NamedIn(node[r], PlanOf)
  BY <1>1, VisitedOrders
<1>4. r \in Insts /\ Tree.nodes = node /\ Tree \in TreeType
  BY <1>1, TreeFits
<1>5. NamedIn(x, PlanOf)
  BY <1>2, <1>3 DEF NamedIn, SamePlace
<1> DEFINE u == Edited(Tree, r, x)
<1>6. Ordered(u, root, PlanOf)
  BY <1>2, <1>3, <1>4, <1>5, EditOrders
<1>7. u \in TreeType /\ SetTree(u)
  BY <1>2, <1>4, EditedType
<1> HIDE DEF u
<1>8. QED
  BY <1>1, <1>6, <1>7, TreeOrders

\* An allocation, or the failure of one, keeps the tree in order.
LEMMA AllocationRuleOrders ==
  ASSUME PlanTreeAssumption, NEW PlanOf, NEW Reach, BehavioursApart(PlanOf, Reach),
         PlanTreeInv, Ordered(Tree, root, PlanOf), AllocationRule
  PROVE  Ordered(Tree, root, PlanOf)'
<1> DEFINE n == node[r]
<1>1. pc = "visit" /\ n.allocationNeeded /\ root' = root
  BY DEF AllocationRule, At, Due, Proceed, engine
<1>2. /\ Fits(Tree, root, stack) /\ r \in ActiveIn(Tree.nodes) /\ r \in Insts
      /\ n \in Node /\ Tree.nodes = node /\ stack \in Seq(Frame)
  BY <1>1, TreeFits
<1>3. n.state \in States /\ n.active = "Active" /\ (r = root => n.entry \in States)
  <2>1. n.state # NoState
    BY <1>1, <1>2 DEF Fits, Allocatable
  <2>2. r = root => root # None
    BY <1>2 DEF Insts, None
  <2>3. QED
    BY <1>2, <2>1, <2>2 DEF Fits, Allocatable, Node, ActiveIn
<1> HIDE DEF n
<1>4. r # root => n.children = << >>
  BY <1>1, <1>2 DEF Fits, Suited, Suits, n
<1>5. PICK x :
        /\ SamePlace(n, x) /\ x.state = n.state /\ x.entry = n.entry /\ ~ x.allocationNeeded
        /\ LET begun == Edited(Tree, r, x)
           IN  \/ SetTree(AddFailure(begun, r))
               \/ \E tasks \in Tasks : /\ Allocate(begun, r, tasks).room
                                       /\ SetTree(Allocate(begun, r, tasks).tree)
  BY AllocationDoes DEF n
<1> DEFINE begun == Edited(Tree, r, x)
<1>6. /\ Fits(begun, root, stack) /\ ActiveIn(begun.nodes) = ActiveIn(Tree.nodes)
      /\ begun.nodes[r] = x
  <2>1. SamePlace(Tree.nodes[r], x)
    BY <1>2, <1>5 DEF n
  <2>2. /\ x.active = "Active" /\ (x.allocationNeeded \/ x.children # << >>) => x.state # NoState
        /\ r = root => x.entry \in States
        /\ x.active = "Active" /\ r # root /\ x.children # << >> =>
             x.state = Tree.nodes[r].state /\ (x.allocationNeeded => Tree.nodes[r].allocationNeeded)
    BY <1>2, <1>3, <1>4, <1>5 DEF SamePlace, PlanTreeAssumption, n
  <2>3. QED
    BY <1>2, <2>1, <2>2, EditFits
<1>7. Good(Tree, root) /\ Ordered(begun, root, PlanOf)
  BY <1>1, <1>2, <1>5, VisitedOrders, EditOrders DEF n
<1> HIDE DEF begun
<1>8. Good(begun, root) /\ Suited(begun.nodes, root) /\ Settled(begun.nodes)
  BY <1>6 DEF Fits, Allocatable
<1>9. CASE SetTree(AddFailure(begun, r))
  <2>1. Ordered(AddFailure(begun, r), root, PlanOf)
    BY <1>2, <1>6, <1>7, FailureOrders
  <2>2. AddFailure(begun, r) \in TreeType
    BY <1>2, <1>6, FailureFits DEF Fits, Good
  <2>3. QED
    BY <1>1, <1>9, <2>1, <2>2, TreeOrders
<1>10. CASE \E tasks \in Tasks : /\ Allocate(begun, r, tasks).room
                                 /\ SetTree(Allocate(begun, r, tasks).tree)
  <2>1. PICK tasks \in Tasks : /\ Allocate(begun, r, tasks).room
                               /\ SetTree(Allocate(begun, r, tasks).tree)
    BY <1>10
  <2> DEFINE w == Allocate(begun, r, tasks)
  <2>2. begun.nodes[r].state \in States /\ (r # root => begun.nodes[r].children = << >>)
    BY <1>3, <1>4, <1>5, <1>6 DEF SamePlace
  <2>3. Ordered(w.tree, root, PlanOf)
    BY <1>2, <1>6, <1>7, <1>8, <2>2, AllocationOrders
  <2>4. w \in Working(begun, root)
    BY <1>2, <1>6, <1>8, <2>1, <2>2, AllocationCompletes
  <2> HIDE DEF w
  <2>5. w.tree \in TreeType
    BY <2>4 DEF Working, Good
  <2>6. QED
    BY <1>1, <2>1, <2>3, <2>5, TreeOrders DEF w
<1>11. QED
  BY <1>5, <1>9, <1>10 DEF begun

\* Another task of the plan is a state of its own.
LEMMA AuthorityOrders ==
  ASSUME PlanTreeAssumption, NEW PlanOf, NEW Reach, BehavioursApart(PlanOf, Reach),
         PlanTreeInv, Ordered(Tree, root, PlanOf), AuthorityOverrideRule,
         ~ UNCHANGED <<node, pool>>
  PROVE  Ordered(Tree, root, PlanOf)'
<1> DEFINE d == DropChildren(Tree, r)
<1>1. pc = "visit" /\ root' = root
  BY Zenon DEF AuthorityOverrideRule, At, Proceed, engine
<1>2. PICK s \in TasksIn(r) \ {NoState}, x \in Node :
        SamePlace(d.nodes[r], x) /\ x.state = s /\ x.entry = s /\ SetTree(Edited(d, r, x))
  BY AuthorityDoes
<1>3. Good(d, root) /\ Ordered(d, root, PlanOf) /\ d.nodes[r].type = node[r].type
  BY <1>1, VisitedOrders
<1>4. r \in Insts /\ PlanOf[s] = node[r].type
  BY <1>1, TreeFits, TasksNamed
<1> HIDE DEF d
<1>5. NamedIn(x, PlanOf)
  BY <1>2, <1>3, <1>4 DEF NamedIn, SamePlace
<1> DEFINE u == Edited(d, r, x)
<1>6. Ordered(u, root, PlanOf) /\ u \in TreeType
  BY <1>2, <1>3, <1>4, <1>5, EditOrders, EditedType DEF Good
<1>7. SetTree(u)
  BY <1>2
<1> HIDE DEF u
<1>8. QED
  BY <1>1, <1>6, <1>7, TreeOrders

\* So is the task that a better allocation gives the robot, if any.
LEMMA DynamicOrders ==
  ASSUME PlanTreeAssumption, NEW PlanOf, NEW Reach, BehavioursApart(PlanOf, Reach),
         PlanTreeInv, Ordered(Tree, root, PlanOf), DynamicAllocationRule,
         ~ UNCHANGED <<node, pool>>
  PROVE  Ordered(Tree, root, PlanOf)'
<1> DEFINE d == DropChildren(Tree, r)
<1>1. pc = "visit" /\ root' = root
  BY DEF DynamicAllocationRule, At, Proceed, engine
<1>2. PICK s \in TasksIn(r), x \in Node :
        /\ x.state = s /\ x.entry = s
        /\ \/ SamePlace(node[r], x) /\ SetTree(Edited(Tree, r, x))
           \/ SamePlace(d.nodes[r], x) /\ SetTree(Edited(d, r, x))
  BY DynamicDoes
<1>3. /\ Good(Tree, root) /\ Good(d, root) /\ Ordered(d, root, PlanOf)
      /\ d.nodes[r].type = node[r].type
  BY <1>1, VisitedOrders
<1>4. r \in Insts /\ Tree.nodes = node
  BY <1>1, TreeFits
<1>5. s # NoState => PlanOf[s] = node[r].type
  BY <1>1, TasksNamed
<1> HIDE DEF d
<1>6. NamedIn(x, PlanOf)
  BY <1>2, <1>3, <1>5 DEF NamedIn, SamePlace
<1>7. CASE SamePlace(node[r], x) /\ SetTree(Edited(Tree, r, x))
  <2> DEFINE u == Edited(Tree, r, x)
  <2>1. Ordered(u, root, PlanOf) /\ u \in TreeType
    BY <1>3, <1>4, <1>6, <1>7, EditOrders, EditedType DEF Good
  <2>2. SetTree(u)
    BY <1>7
  <2> HIDE DEF u
  <2>3. QED
    BY <1>1, <2>1, <2>2, TreeOrders
<1>8. CASE SamePlace(d.nodes[r], x) /\ SetTree(Edited(d, r, x))
  <2> DEFINE u == Edited(d, r, x)
  <2>1. Ordered(u, root, PlanOf) /\ u \in TreeType
    BY <1>3, <1>4, <1>6, <1>8, EditOrders, EditedType DEF Good
  <2>2. SetTree(u)
    BY <1>8
  <2> HIDE DEF u
  <2>3. QED
    BY <1>1, <2>1, <2>2, TreeOrders
<1>9. QED
  BY <1>2, <1>7, <1>8

\* A failure counted at a plan, or at its parent, keeps the tree in order.
LEMMA FailuresOrder ==
  ASSUME PlanTreeAssumption, NEW PlanOf, NEW Reach, BehavioursApart(PlanOf, Reach),
         PlanTreeInv, pc = "visit", Ordered(Tree, root, PlanOf),
         NEW i \in ActiveIn(node), SetTree(AddFailure(Tree, i)), root' = root
  PROVE  Ordered(Tree, root, PlanOf)'
<1>1. Fits(Tree, root, stack) /\ stack \in Seq(Frame) /\ Tree.nodes = node
  BY TreeFits
<1>2. Ordered(AddFailure(Tree, i), root, PlanOf)
  BY <1>1, FailureOrders
<1>3. AddFailure(Tree, i) \in TreeType
  BY <1>1, FailureFits DEF Fits, Good
<1>4. QED
  BY <1>2, <1>3, TreeOrders

\* planAbortRule and planRedoRule: the initial state of the plan is one of its own.
LEMMA RedoOrders ==
  ASSUME PlanTreeAssumption, NEW PlanOf, NEW Reach, BehavioursApart(PlanOf, Reach),
         PlanTreeInv, Ordered(Tree, root, PlanOf), PlanAbortRule \/ PlanRedoRule
  PROVE  Ordered(Tree, root, PlanOf)'
<1>1. pc = "visit" /\ root' = root
  BY DEF PlanAbortRule, PlanRedoRule, At, Proceed, Return, engine
<1>2. r \in ActiveIn(node) /\ r \in Insts
  BY <1>1, TreeFits
<1>3. CASE SetTree(AddFailure(Tree, r))
  BY <1>1, <1>2, <1>3, FailuresOrder
<1>4. CASE PlanRedoRule /\ node[r].state # node[r].entry
  <2> DEFINE d == DropChildren(Tree, r)
  <2>1. PICK x : /\ SamePlace(d.nodes[r], x) /\ x.state = node[r].entry /\ x.entry = node[r].entry
                 /\ SetTree(Edited(d, r, x))
    BY <1>4, RedoDoes
  <2>2. /\ Good(d, root) /\ Ordered(d, root, PlanOf)
        /\ NamedIn(node[r], PlanOf) /\ d.nodes[r].type = node[r].type
    BY <1>1, VisitedOrders
  <2> HIDE DEF d
  <2>3. NamedIn(x, PlanOf)
    BY <2>1, <2>2 DEF NamedIn, SamePlace
  <2> DEFINE u == Edited(d, r, x)
  <2>4. Ordered(u, root, PlanOf) /\ u \in TreeType
    BY <1>2, <2>1, <2>2, <2>3, EditOrders, EditedType DEF Good
  <2>5. SetTree(u)
    BY <2>1
  <2> HIDE DEF u
  <2>6. QED
    BY <1>1, <2>4, <2>5, TreeOrders
<1>5. QED
  BY <1>3, <1>4 DEF PlanAbortRule, PlanRedoRule

\* A replacement drops the children of the parent and changes data.
LEMMA ReplaceOrders ==
  ASSUME PlanTreeAssumption, NEW PlanOf, NEW Reach, BehavioursApart(PlanOf, Reach),
         PlanTreeInv, Ordered(Tree, root, PlanOf), PlanReplaceRule
  PROVE  Ordered(Tree, root, PlanOf)'
<1> DEFINE p == node[r].parent
           d == DropChildren(Tree, p)
<1>1. pc = "visit" /\ p # None /\ root' = root
  BY Zenon DEF PlanReplaceRule, At, Due, Fails, Return, engine
<1>2. PICK x \in Node, y \in Node :
        /\ SamePlace(d.nodes[p], x) /\ x.state = d.nodes[p].state /\ x.entry = d.nodes[p].entry
        /\ SamePlace(d.nodes[r], y) /\ SetTree(Edited(Edited(d, p, x), r, y))
  BY ReplaceDoes
<1>3. /\ Fits(Tree, root, stack) /\ r \in Insts /\ Tree.nodes = node /\ stack \in Seq(Frame)
      /\ p \in ActiveIn(node) /\ p \in Insts /\ r \in Kids(node, p)
  BY <1>1, TreeFits, VisitedParent
<1>4. DropsAt(node, stack, p)
  BY <1>1, VisitedPlan
<1>5. /\ Fits(d, root, stack) /\ p \in ActiveIn(d.nodes) /\ d.nodes[r].active = "Retired"
  <2>1. p \in ActiveIn(Tree.nodes) /\ DropsAt(Tree.nodes, stack, p) /\ r \in Kids(Tree.nodes, p)
    BY <1>3, <1>4
  <2> HIDE DEF p, d
  <2>2. Fits(d, root, stack) /\ p \in ActiveIn(d.nodes)
    BY <1>3, <2>1, DropFits DEF d
  <2>3. Dropped(Tree, p, Deactivated(Tree, p), d)
    BY <1>3, <2>1, DropDoes DEF Fits, d
  <2>4. r \in Deactivated(Tree, p)
    BY <2>1, <2>3 DEF Dropped, Least
  <2>5. d.nodes[r].active = "Retired"
    BY <1>3, <2>3, <2>4 DEF Dropped, Prunes
  <2>6. QED
    BY <2>2, <2>5
<1>6. Ordered(d, root, PlanOf)
  BY <1>3, DropOrders DEF Fits
<1> HIDE DEF d, p
<1> DEFINE u1 == Edited(d, p, x)
           u == Edited(u1, r, y)
<1>7. /\ Good(d, root) /\ d \in TreeType /\ p # r
      /\ u1.nodes = [d.nodes EXCEPT ![p] = x] /\ u1.pool = d.pool
  <2>1. Good(d, root) /\ d \in TreeType
    BY <1>5 DEF Fits, Good
  <2>2. u1.nodes = [d.nodes EXCEPT ![p] = x] /\ u1.pool = d.pool
    BY <2>1, EditedIs
  <2>3. d.nodes[p].active = "Active"
    BY <1>5 DEF ActiveIn
  <2>4. p # r
    BY <1>5, <2>3
  <2>5. QED
    BY <2>1, <2>2, <2>4
<1>8. Ordered(u1, root, PlanOf) /\ u1 \in TreeType
  BY <1>2, <1>3, <1>6, <1>7, EditOrders, EditedType
<1>9. Good(u1, root) /\ u1.nodes[r] = d.nodes[r]
  <2>1. Relabels(d, u1)
    <3>1. u1.pool = d.pool /\ d.nodes \in Nodes
      BY <1>7 DEF TreeType
    <3>2. QED
      BY <1>2, <1>3, <1>7, <1>8, <3>1 DEF Relabels, SamePlace, Nodes
  <2>2. d.nodes \in Nodes
    BY <1>7 DEF TreeType
  <2>3. QED
    BY <1>3, <1>7, <2>1, <2>2, RelabelKeeps DEF Nodes
<1>10. SetTree(u)
  BY <1>2
<1> HIDE DEF u1
<1>11. SamePlace(u1.nodes[r], y) /\ y.active # "Active"
  BY <1>2, <1>5, <1>9 DEF SamePlace
<1>12. Ordered(u, root, PlanOf) /\ u \in TreeType
  BY <1>3, <1>8, <1>9, <1>11, EditOrders, EditedType
<1> HIDE DEF u
<1>13. QED
  BY <1>1, <1>10, <1>12, TreeOrders

\* A failure handed to the parent changes data only.
LEMMA PropagationOrders ==
  ASSUME PlanTreeAssumption, NEW PlanOf, NEW Reach, BehavioursApart(PlanOf, Reach),
         PlanTreeInv, Ordered(Tree, root, PlanOf), PlanPropagationRule
  PROVE  Ordered(Tree, root, PlanOf)'
<1> DEFINE p == node[r].parent
           t == AddFailure(Tree, p)
<1>1. pc = "visit" /\ p # None /\ root' = root
  BY DEF PlanPropagationRule, At, Due, Fails, Return, engine
<1>2. PICK y : /\ SamePlace(t.nodes[r], y) /\ y.state = t.nodes[r].state /\ y.entry = t.nodes[r].entry
               /\ SetTree(Edited(t, r, y))
  BY PropagationDoes
<1>3. /\ Fits(Tree, root, stack) /\ r \in Insts /\ stack \in Seq(Frame)
      /\ Tree.nodes = node /\ p \in ActiveIn(node)
  BY <1>1, TreeFits, VisitedParent
<1>4. Good(t, root) /\ t \in TreeType /\ Ordered(t, root, PlanOf)
  BY <1>3, FailureFits, FailureOrders DEF Fits, Good
<1> HIDE DEF t
<1> DEFINE u == Edited(t, r, y)
<1>5. Ordered(u, root, PlanOf) /\ u \in TreeType
  BY <1>2, <1>3, <1>4, EditOrders, EditedType
<1>6. SetTree(u)
  BY <1>2
<1> HIDE DEF u
<1>7. QED
  BY <1>1, <1>5, <1>6, TreeOrders

\* A visit of any plan keeps the tree in order.
LEMMA VisitOrders ==
  ASSUME PlanTreeAssumption, NEW PlanOf, NEW Reach, BehavioursApart(PlanOf, Reach),
         PlanTreeInv, Ordered(Tree, root, PlanOf), VisitNext
  PROVE  Ordered(Tree, root, PlanOf)'
<1>1. CASE UNCHANGED <<node, pool>> /\ root' = root
  BY <1>1 DEF Tree
<1>2. CASE RoundEnds \/ FailChangeReturns
  BY <1>1, <1>2 DEF RoundEnds, FailChangeReturns, Return, engine
<1>3. CASE AuthorityOverrideRule
  BY Zenon, <1>1, <1>3, AuthorityOrders DEF AuthorityOverrideRule, Proceed, engine
<1>4. CASE DynamicAllocationRule
  BY <1>1, <1>4, DynamicOrders DEF DynamicAllocationRule, Proceed, engine
<1>5. CASE SynchTransitionRule \/ TransitionRule \/ LastTransitionRule
  BY <1>5, TransitionsOrder
<1>6. CASE PlanAbortRule \/ PlanRedoRule
  BY <1>6, RedoOrders
<1>7. QED
  BY <1>2, <1>3, <1>4, <1>5, <1>6, TopFailOrders, AllocationRuleOrders, ReplaceOrders,
     PropagationOrders DEF VisitNext

\* The engine starts with the master plan in its initial state.
LEMMA InitialisationOrders ==
  ASSUME PlanTreeAssumption, NEW PlanOf, NEW Reach, BehavioursApart(PlanOf, Reach),
         PlanTreeInv, InitialisationRule
  PROVE  Ordered(Tree, root, PlanOf)'
<1> DEFINE s == CHOOSE x \in EntryStates[Master] : TRUE
           n == [NewNode(Master, None, s) EXCEPT !.allocationNeeded = TRUE]
<1>1. /\ node \in [Insts -> Node] /\ root = None
      /\ root' = Fresh(node) /\ node' = [node EXCEPT ![root'] = n]
  BY DEF InitialisationRule, PlanTreeInv, TypeOK
<1>2. \A i \in Insts : node[i].active = "Free"
  BY <1>1 DEF PlanTreeInv, Fits, Good, Consistent, RootActive, Tree
<1>3. root' \in Insts
  <2>1. 1 \in Insts
    BY DEF Insts, PlanTreeAssumption
  <2>2. QED
    BY <1>1, <1>2, <2>1, FreshIsFree DEF Nodes
<1>4. n.type = Master /\ n.state = s /\ n.entry = s /\ n.children = << >>
  BY DEF NewNode
<1>5. PlanOf[s] = Master
  <2>1. s \in EntryStates[Master] /\ Master \in Plans
    BY DEF PlanTreeAssumption
  <2>2. QED
    BY <2>1 DEF BehavioursApart
<1> HIDE DEF n, s
<1>6. node'[root'] = n /\ ActiveIn(node') \subseteq {root'}
  BY <1>1, <1>2, <1>3 DEF ActiveIn
<1>7. Named(node', PlanOf)
  BY <1>4, <1>5, <1>6 DEF Named, NamedIn
<1>8. MasterFed(node', root', PlanOf)
  BY <1>4, <1>6 DEF MasterFed, Kids, ToSet
<1>9. Runs(Tree', root')
  BY <1>4, <1>6 DEF Runs, Tree, PlanTreeAssumption
<1>10. QED
  BY <1>7, <1>8, <1>9 DEF Ordered, Tree

\* The sweep leaves the plans in the tree alone.
LEMMA DeletionOrders ==
  ASSUME PlanTreeAssumption, NEW PlanOf, PlanTreeInv, Ordered(Tree, root, PlanOf), DeletePlans
  PROVE  Ordered(Tree, root, PlanOf)'
<1>1. /\ ActiveIn(node') = ActiveIn(node) /\ \A i \in ActiveIn(node) : node'[i] = node[i]
      /\ root' = root /\ pool' = pool
  BY SweepKeeps DEF PlanTreeInv, Fits, DeletePlans
<1>2. Good(Tree, root) /\ Tree.nodes = node /\ Tree.pool = pool
      /\ Tree'.nodes = node' /\ Tree'.pool = pool
  BY <1>1 DEF PlanTreeInv, Fits, Tree
<1>3. Consistent(node, root) /\ node \in Nodes
  BY <1>2 DEF Good, TreeType
<1>4. Named(node', PlanOf)
  BY <1>1, <1>2 DEF Ordered, Named
<1>5. root # None => /\ root \in ActiveIn(node) /\ Kids(node, root) \subseteq ActiveIn(node)
                     /\ node'[root] = node[root] /\ node[root].children \in Seq(Insts)
  BY <1>1, <1>3 DEF Consistent, RootActive, OneParent, ActiveIn, Nodes, Node
<1>6. root = None => ActiveIn(node) = {}
  BY <1>3 DEF Consistent, RootActive, ActiveIn
<1>7. MasterFed(node', root, PlanOf)
  BY <1>1, <1>2, <1>5 DEF Ordered, MasterFed, Kids
<1>8. root # None /\ Twice(node, root) => Twice(node', root)
  <2> SUFFICES ASSUME root # None, Twice(node, root) PROVE Twice(node', root)
    OBVIOUS
  <2>1. \A k \in DOMAIN node[root].children :
          node'[node[root].children[k]].type = node[node[root].children[k]].type
    BY <1>1, <1>5 DEF Kids, ToSet
  <2>2. QED
    BY <1>5, <2>1 DEF Twice
<1>9. Runs(Tree', root)
  BY <1>1, <1>2, <1>6, <1>8 DEF Ordered, Runs
<1>10. QED
  BY <1>1, <1>2, <1>4, <1>7, <1>9 DEF Ordered

\* A behaviour's thread changes neither the plan a behaviour is to run for nor
\* whether it is to run.
LEMMA LoopHeadOrders ==
  ASSUME NEW PlanOf, PlanTreeInv, Ordered(Tree, root, PlanOf), NEW b \in Behaviours, LoopHead(b)
  PROVE  Ordered(Tree, root, PlanOf)'
<1>1. PICK c \in {None, pool[b].context} : pool' = [pool EXCEPT ![b].contextInRun = c]
  BY DEF LoopHead
<1>2. pool \in [Behaviours -> BasicBehaviour] /\ node' = node /\ root' = root
  BY DEF LoopHead, PlanTreeInv, TypeOK
<1>3. \A a \in Behaviours : pool'[a].running = pool[a].running /\ pool'[a].context = pool[a].context
  BY <1>1, <1>2 DEF BasicBehaviour
<1>4. Tree.nodes = node /\ Tree.pool = pool /\ Tree'.nodes = node /\ Tree'.pool = pool'
  BY <1>2 DEF Tree
<1>5. Runs(Tree', root)
  BY <1>3, <1>4 DEF Ordered, Runs
<1>6. QED
  BY <1>2, <1>4, <1>5 DEF Ordered

\* Every step keeps the tree in order.
LEMMA OrderStep ==
  ASSUME PlanTreeAssumption, NEW PlanOf, NEW Reach, BehavioursApart(PlanOf, Reach),
         PlanTreeInv, Ordered(Tree, root, PlanOf), [Next]_vars
  PROVE  Ordered(Tree, root, PlanOf)'
<1>1. CASE UNCHANGED <<node, root, pool>>
  BY <1>1 DEF Tree
<1>2. CASE BeginIteration \/ FirstVisitReturns \/ TickChild \/ ChildrenTicked \/ SecondVisitReturns
  BY <1>1, <1>2
     DEF BeginIteration, FirstVisitReturns, TickChild, ChildrenTicked, SecondVisitReturns
<1>3. CASE ClearEvents \/ FastPath \/ FastPathEvent \/ FastVisitReturns \/ EndIteration
  BY <1>1, <1>3 DEF ClearEvents, FastPath, FastPathEvent, FastVisitReturns, EndIteration
<1>4. CASE EngineNext
  BY <1>2, <1>3, <1>4, InitialisationOrders, VisitOrders, DeletionOrders DEF EngineNext
<1>5. CASE \E b \in Behaviours : LoopHead(b) \/ RaiseEvent(b)
  BY <1>1, <1>5, LoopHeadOrders DEF RaiseEvent
<1>6. CASE UNCHANGED vars
  BY <1>1, <1>6 DEF vars
<1>7. QED
  BY <1>4, <1>5, <1>6 DEF Next

\* At first there is no plan.
LEMMA InitialOrder ==
  ASSUME PlanTreeAssumption, NEW PlanOf, Init PROVE Ordered(Tree, root, PlanOf)
<1>1. ActiveIn(node) = {} /\ root = None /\ Tree.nodes = node
  BY DEF Init, ActiveIn, FreeNode, NewNode, Tree
<1>2. QED
  BY <1>1 DEF Ordered, Named, MasterFed, Runs

\* A tree in order has each behaviour on for the one plan that runs it.
LEMMA OrderFollows ==
  ASSUME PlanTreeAssumption, NEW PlanOf, PlanTreeInv, Ordered(Tree, root, PlanOf)
  PROVE  BehavioursFollowTree
<1>1. Tree.nodes = node /\ Tree.pool = pool /\ Active = ActiveIn(node)
  BY DEF Tree, Active, ActiveIn, IsActive
<1>2. ASSUME NEW b \in Behaviours, NEW i \in Active, node[i].type = b, ~ DoubledPlans
      PROVE  pool[b].running /\ pool[b].context = i
  <2>1. Consistent(node, root)
    BY <1>1 DEF PlanTreeInv, Fits, Good
  <2>2. root \in Active
    BY <1>1, <1>2, <2>1 DEF Consistent, RootActive, ActiveIn
  <2>3. ~ Twice(node, root)
    <3>1. \A k \in DOMAIN node[root].children :
            ChildTypes(root)[k] = node[node[root].children[k]].type
      BY DEF ChildTypes
    <3>2. QED
      BY <1>2, <2>2, <3>1 DEF DoubledPlans, Twice
  <2>4. QED
    BY <1>1, <1>2, <2>3 DEF Ordered, Runs
<1>3. \A b \in Behaviours :
        LET here == {i \in Active : node[i].type = b}
        IN  here # {} /\ ~ DoubledPlans => pool[b].running /\ here = {pool[b].context}
  BY <1>2
<1>4. QED
  BY <1>3, InvFollows DEF BehavioursFollowTree

\* For any plan library, any number of objects and any bound on rule applications
\* (PlanTreeAssumption): every reachable state is one in which the rules, the tick
\* and the threads of the behaviours find what PlanTreeInv says.
THEOREM PlanTreeInvariant == Spec => []PlanTreeInv
<1>1. PlanTreeAssumption /\ Init => PlanTreeInv
  BY InitialTree
<1>2. PlanTreeAssumption /\ PlanTreeInv /\ [Next]_vars => PlanTreeInv'
  BY PlanTreeStep
<1>3. QED
  BY <1>1, <1>2, PlanTreeAssumption, PTL DEF Spec

\* What RunningPlan and RuleBook assert (RunningPlan.cpp:427, RuleBook.cpp:135) is
\* so in every state: the active plans are one tree, under the parents they point
\* to, the plan that a rule is applied to is one of them, and a plan that waits for
\* an allocation has a state.
THEOREM RulesWorkOnOneTree == Spec => []TreeInv
<1>1. PlanTreeInv => TreeInv
  BY InvConsistent, PlanTreeAssumption
<1>2. QED
  BY <1>1, PlanTreeInvariant, PlanTreeAssumption, PTL

\* A plan below the root runs the plans of its state, all of them once it is
\* allocated and none before: no transition, redo, replacement or new allocation
\* leaves a child of an earlier state behind.
THEOREM ChildrenFollowTheirState == Spec => []SubPlansFitState
<1>1. PlanTreeInv => SubPlansFitState
  BY InvSuited, PlanTreeAssumption
<1>2. QED
  BY <1>1, PlanTreeInvariant, PlanTreeAssumption, PTL

\* A plan is not deleted (PlanBase.cpp:158) while a behaviour's thread runs in its
\* context.
THEOREM RunsKeepTheirContext == Spec => []RunHasContext
<1>1. PlanTreeInv => RunHasContext
  BY InvConsistent, PlanTreeAssumption
<1>2. QED
  BY <1>1, PlanTreeInvariant, PlanTreeAssumption, PTL

\* A behaviour is stopped with the plan that runs it, whichever rule takes the
\* plan out of the tree (RunningPlan.cpp:438): none goes on for a plan that was
\* replaced or left behind in another state.
THEOREM BehavioursStopWithTheirPlan == Spec => []NoneGoesOnAlone
<1>1. PlanTreeInv => NoneGoesOnAlone
  BY InvFollows, PlanTreeAssumption
<1>2. QED
  BY <1>1, PlanTreeInvariant, PlanTreeAssumption, PTL

\* With a plan library that lets a behaviour be in one place at a time, a behaviour is
\* switched on just when a plan of the tree runs it, and for that plan, unless a plan
\* has been reset over its children: no retirement of a plan stops the behaviour of
\* another, and every plan that is made has its behaviour started for it
\* (RunningPlan.cpp:438, 514).
THEOREM BehavioursFollowTheTree ==
  ASSUME NEW PlanOf, NEW Reach, BehavioursApart(PlanOf, Reach)
  PROVE  Spec => []BehavioursFollowTree
<1>1. Init => Ordered(Tree, root, PlanOf)
  BY PlanTreeAssumption, InitialOrder
<1>2. PlanTreeInv /\ Ordered(Tree, root, PlanOf) /\ [Next]_vars => Ordered(Tree, root, PlanOf)'
  BY PlanTreeAssumption, OrderStep
<1>3. PlanTreeInv /\ Ordered(Tree, root, PlanOf) => BehavioursFollowTree
  BY PlanTreeAssumption, OrderFollows
<1>4. QED
  BY <1>1, <1>2, <1>3, PlanTreeInvariant, PTL DEF Spec
===============================================================================
