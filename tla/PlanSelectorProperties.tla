------------------------- MODULE PlanSelectorProperties -------------------------
(* What is relied on when tasks are allocated. *)
EXTENDS PlanSelector

\* Types; no partial assignment is used twice, and the last element of the pool
\* is never handed out; every search is for the agents of its frame.
TypeOK ==
  /\ poolSize \in Nat
  /\ used < poolSize
  /\ outcome \in {"none", "exhausted"} \cup Answer
  /\ \A i \in DOMAIN stack : \A k \in DOMAIN stack[i].fringe :
       DOMAIN stack[i].fringe[k].asg = stack[i].agents

\* Two notions of a filled plan agree: what the search takes for a goal
\* (PartialAssignment::isGoal, room counted down) is an assignment that the rules
\* take for valid (Assignment::isValid, agents and successes counted up), in
\* every plan of the tree that is built, and each plan is filled by the very
\* agents that share the robot's task above it.
Filled(rp, agents) == DOMAIN rp.pa.asg = agents /\ AssignmentIsValid(rp.pa)
ResultIsFilled ==
  \A k \in DOMAIN result :
    /\ Filled(result[k], Agents)
    /\ \A c \in DOMAIN result[k].children :
         Filled(result[k].children[c], Working(result[k].pa, result[k].pa.asg[Me]))

\* However often the pool ran out before, it was handed out at most once per
\* request and what came of it is filled.
PoolFillsPlans == TypeOK /\ ResultIsFilled

\* A robot that plans afresh lets the others be where they say they are: when
\* those that report a task of the plan do not overfill it, each keeps its task.
OthersKeepTheirTask ==
  outcome = "created" =>
    \A k \in DOMAIN result :
      LET pa == result[k].pa
          reporting(e) == {a \in Others : in.trees[pa.plan][a] = e}
      IN  (\A e \in Tasks(pa.plan) : Cardinality(reporting(e)) + Cardinality(in.done[pa.plan][e])
                                       <= EntryPoints[pa.plan][e].max)
            => \A a \in Others : in.trees[pa.plan][a] \in {0, pa.asg[a]}

---------------------------------------------------------------------------
(* The search gives the best assignments first, of the plans that have been     *)
(* evaluated at all, and gives up only when there is none left. The problem is  *)
(* that of the outermost plans.                                                 *)

Choice == INSTANCE AllocationChoice WITH
  problem <- IF Idle THEN {} ELSE stack[1].goals,
  opened  <- IF Idle THEN {}
             ELSE stack[1].plans \ {stack[1].fringe[k].plan : k \in
                    {j \in DOMAIN stack[1].fringe : stack[1].fringe[j].util.min = -Far}},
  given   <- IF Idle THEN {} ELSE stack[1].given,
  over    <- outcome = "failed"
ImplementsChoice == Choice!Spec

\* However small the pool is, selections that are repeated come to an answer:
\* the pool grows faster than the nested searches that share it need.
Answered == <>(outcome \in Answer)
=============================================================================
