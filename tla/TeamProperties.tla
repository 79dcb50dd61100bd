----------------------------- MODULE TeamProperties -----------------------------
(* What a robot may rely on in its picture of the team. *)
EXTENDS TeamObserver

\* Types; a tree read from a message is one a robot can be in (toMessage and
\* sptFromMessage agree).
TypeOK ==
  /\ team \in [Others -> Agent]
  /\ Len(msgQueue) <= MaxQueue
  /\ \A k \in DOMAIN msgQueue : msgQueue[k].msg \in Message
  /\ spts \in [Others -> SimplePlanTree]
  /\ rps \in [Plans -> RunningPlan]
  /\ myMarks \subseteq EntryPoints

\* Reports, authority, protection times and the robot's own rules all write the
\* assignment: an agent never has two tasks in a plan, which addAgent
\* (Assignment.h) does not exclude and getEntryPointOfAgent takes for granted.
OnePlace ==
  \A p \in MyPlans(rps) : \A a \in Agents : Cardinality(PlaceOf(rps[p], a)) <= 1

\* The assignment has the robot itself in the state its plan is in, in every plan
\* of its tree: consistency is enforced for itself too (RunningPlan.cpp:649), with
\* lists that the plans above have shortened.
OwnPlace == \A p \in MyPlans(rps) : PlaceOf(rps[p], Me) = {<<Me, rps[p].state>>}

\* The assertion at TeamObserver.cpp:95, while no message has waited in the queue
\* for the team time-out: the trees that are kept belong to active agents, in
\* whatever order messages, time-outs and reactivations come.
TreesOfActiveAgents == late \/ \A a \in Known(spts) : team[a].active

\* The picture of the team is consistent after every message, iteration, time-out
\* and rule: what Assignment, RunningPlan and TeamObserver take for granted.
PictureConsistent == TypeOK /\ OnePlace /\ OwnPlace /\ TreesOfActiveAgents

\* The success of a task is remembered as long as this robot or, to its
\* knowledge, any other is in the plan, whoever leaves it first
\* (cleanOwnSuccessMarks, notifyRobotLeftPlan).
MarksKept ==
  [][\A e \in myMarks \ myMarks' :
       /\ PlanOfMark(e) \notin MyPlans(rps')
       /\ \A a \in Known(spts') : ~ ContainsPlan(spts'[a].tree, PlanOfMark(e))]_vars

\* "enforce consistency between RA and PlanTree by removing robots deemed
\* inactive" (RunningPlan.cpp:649): an iteration removes no active agent from a
\* plan into which its last tree leads through the states of this robot, if it is
\* beside this robot in the assignments of the plans above.
OnlyInactiveRemoved ==
  [][iteration' # iteration =>
       \A p \in MyPlans(rps') : \A a \in ActiveAgents(team') \ {Me} :
         (/\ Leads(spts'[a].tree, rps', p) /\ PlaceOf(rps[p], a) # {}
          /\ \A q \in Upto(rps', p) \ {p} : <<a, rps'[q].state>> \in rps'[q].agents)
           => PlaceOf(rps'[p], a) # {}]_vars

\* A state has at most one plan beside its behaviours.
OnePlanEach == \A s \in States : Len(PlansIn[s]) <= 1

\* The assignments are what the team does.
Settled ==
  \A a \in Others : ~ team[a].ignored =>
    \A p \in MyPlans(rps) :
      PlaceOf(rps[p], a) = IF Leads(world[a].tree, rps, p)
                           THEN {<<a, s>> : s \in InTree(world[a].tree, p)} ELSE {}

\* Late messages, time-outs, protected assignments and an authority may all hide
\* what the others do, but once the robots stay where they are the assignments
\* come to what they do, and stay there.
AssignmentsConverge == <>[]Settled

\* A robot that has fallen silent is inactive in the end, unless ignored: what
\* others said about it with their authority does not keep it alive for ever.
SilentAgentsLeave ==
  \A a \in Others :
    []<>(world[a].tree = {} /\ ~ team[a].ignored => ~ team[a].active)
===============================================================================
