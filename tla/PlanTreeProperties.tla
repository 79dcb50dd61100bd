-------------------------- MODULE PlanTreeProperties --------------------------
(***************************************************************************)
(* What the tree of running plans, the behaviours and the engine thread    *)
(* are to keep, whatever the conditions and allocations do.                *)
(***************************************************************************)
EXTENDS PlanTree

Active  == {i \in Insts : IsActive(i)}
Retired == {i \in Insts : IsRetired(i)}
Alive   == Active \cup Retired

\* Types of the state of the tree, the pool and the engine thread.
TypeOK ==
  /\ node \in [Insts -> Node]
  /\ root \in Insts \cup {None}
  /\ pool \in [Behaviours -> BasicBehaviour]
  /\ fpEvents \subseteq Insts
  /\ pc \in {"idle", "visit", "return", "loop", "sweep", "clear", "wait", "fast"}
  /\ stack \in Seq(Frame)
  /\ v \in Visit

\* RunningPlan::accept and isAnyChildStatus assert that no child is retired
\* (RunningPlan.cpp:427, 458): every active plan is in the tree, at one place,
\* under the parent it points to, whichever rules replaced, moved or reset the
\* plans above it.
TreeConsistent ==
  /\ Active = Below(Tree, {root} \ {None})
  /\ \A i \in Active : \A k \in DOMAIN node[i].children :
       LET c == node[i].children[k]
       IN  /\ node[c].parent = i
           /\ \A l \in DOMAIN node[i].children : node[i].children[l] = c => l = k
  /\ root # None => node[root].parent = None

\* The rules assert ! r.isRetired() (RuleBook.cpp:135, 192, 217, ...): between
\* the moment a plan is queued, ticked or found as a parent and the rule's turn
\* no other rule may have taken it out of the tree.  And allocationRule takes
\* the plans of the state (RuleBook.cpp:350) of a robot that may be idle.
RulesSeeLivePlans ==
  /\ pc = "visit" => IsActive(v.inst)
  /\ \A i \in Active : node[i].allocationNeeded => node[i].state # NoState

\* The tree is one and rules work on it alone: what the assertions of RunningPlan
\* and RuleBook take for granted, in one invariant.
TreeInv == TypeOK /\ TreeConsistent /\ RulesSeeLivePlans

ChildTypes(i) == [k \in DOMAIN node[i].children |-> node[node[i].children[k]].type]

InState(i) == IF node[i].state = NoState THEN << >> ELSE StatePlans[node[i].state]

\* A plan runs the plans of its state and no others: all of them once it is
\* allocated, none before and none after an allocation that failed.
ChildrenFitState(i) ==
  /\ node[i].children # << >> => ChildTypes(i) = InState(i)
  /\ node[i].allocationNeeded => node[i].children = << >>

\* Redo, replacement, transitions, new allocations and failures below leave no
\* child of an earlier state or an earlier allocation in a plan.  The master plan
\* is left out: topFailRule resets its state and keeps its children.
SubPlansFitState == \A i \in Active \ {root} : ChildrenFitState(i)

\* The master plan has been reset over children that are still there.
DoubledPlans ==
  \E i \in Active : \E k, l \in DOMAIN node[i].children :
    k # l /\ ChildTypes(i)[k] = ChildTypes(i)[l]

\* Bound of the runs: what follows such a reset is not explored.
NotDoubled == ~ DoubledPlans

\* A behaviour goes on for an active plan of its own only: none for a plan that
\* left the tree (BehaviourPool::stopBehaviour is called with the plan,
\* RunningPlan.cpp:438).
NoneGoesOnAlone ==
  \A b \in Behaviours :
    pool[b].running => IsActive(pool[b].context) /\ node[pool[b].context].type = b

\* A behaviour is switched on just when a plan of the tree runs it, in that
\* plan's context: none goes on for a plan that left the tree, and none of the
\* tree was stopped on behalf of another.
BehavioursFollowTree ==
  /\ NoneGoesOnAlone
  /\ \A b \in Behaviours :
       LET here == {i \in Active : node[i].type = b}
       IN  here # {} /\ ~ DoubledPlans => pool[b].running /\ here = {pool[b].context}

\* The plan library lets each behaviour be in one place of the tree at a time:
\* PlanOf tells the plan of each state (State::getInPlan), Reach the behaviours that
\* may ever run below a plan, and plans that run side by side reach different ones.
\* The master plan may keep the children of another of its states (topFailRule).
BehavioursApart(PlanOf, Reach) ==
  /\ PlanOf \in [States -> Plans]
  /\ \A p \in Plans : \A s \in EntryStates[p] : PlanOf[s] = p
  /\ \A e \in Transitions \cup SyncTransitions : PlanOf[e[1]] = PlanOf[e[2]]
  /\ Reach \in [Types -> SUBSET Behaviours]
  /\ \A b \in Behaviours : b \in Reach[b]
  /\ \A s \in States : \A k \in DOMAIN StatePlans[s] :
       /\ Reach[StatePlans[s][k]] \subseteq Reach[PlanOf[s]]
       /\ \A l \in DOMAIN StatePlans[s] :
            k # l => Reach[StatePlans[s][k]] \cap Reach[StatePlans[s][l]] = {}
       /\ \A t \in States : \A l \in DOMAIN StatePlans[t] :
            PlanOf[s] = Master /\ PlanOf[t] = Master /\ StatePlans[s][k] # StatePlans[t][l] =>
              Reach[StatePlans[s][k]] \cap Reach[StatePlans[t][l]] = {}

\* A plan is deleted only when the behaviour's thread is out of it, so that the
\* context of a run is there as long as the run lasts.
RunHasContext ==
  \A b \in Behaviours :
    pool[b].contextInRun # None =>
      /\ pool[b].contextInRun \in Alive
      /\ node[pool[b].contextInRun].type = b

\* Every iteration ends: transitions in circles, failures repaired again and
\* again, children replaced while they are ticked and events do not keep the
\* engine thread in one iteration.
EngineResponds == []<>(pc = "idle")

\* A failure of a plan is repaired, replaced away or handed to the parent
\* ("Propagates a failure to the parent in case it couldn't be repaired on this
\* level", RuleBook.cpp:308); it does not stay with the plan for ever.
FailuresHandled ==
  \A i \in Insts :
    node[i].failHandlingNeeded /\ IsActive(i) ~>
      ~ (node[i].failHandlingNeeded /\ IsActive(i))
===============================================================================
