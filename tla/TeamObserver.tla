------------------------------ MODULE TeamObserver ------------------------------
(***************************************************************************)
(* What one robot, Me, knows of its team: the TeamManager's agents, the    *)
(* plan trees received from them (TeamObserver), success marks, and the    *)
(* assignments of its running plans, which tick() keeps in line with the   *)
(* trees (RunningPlan::recursiveUpdateAssignment).                         *)
(*                                                                         *)
(* The rules of Me, the other robots and the network   *)
(* are the environment: they do one of Disturbances things.  Times are     *)
(* abstract: a message is recent until the team time-out has passed for    *)
(* it, a plan is protected until assignmentProtectionTime has.             *)
(***************************************************************************)
EXTENDS Naturals, Sequences, FiniteSets, FiniteSetsExt, SequencesExt

CONSTANTS
  Me, Others,               \* the robot, its team mates
  Plans, Master, States,
  PlanOf, EntryOf,          \* State::getInPlan, getEntryPoint
  EntryPoints, InitialState,
  PlansIn,                  \* PlansIn[s]: the plans of state s, in order
  Behaving,                 \* states that run behaviours (too)
  SuccessStates,
  MaxDisturbances, MaxQueue \* bounds

Agents == Others \cup {Me}
None   == "none"

ASSUME TeamAssumption ==
  /\ Me \notin Others
  /\ Master \in Plans
  /\ PlanOf \in [States -> Plans] /\ EntryOf \in [States -> EntryPoints]
  /\ InitialState \in [EntryPoints -> States]
  /\ \A e \in EntryPoints : EntryOf[InitialState[e]] = e
  /\ PlansIn \in [States -> Seq(Plans)]
  /\ SuccessStates \subseteq States /\ Behaving \subseteq States
  /\ MaxDisturbances \in Nat /\ MaxQueue \in Nat
  /\ IsFiniteSet(Plans) /\ {None, "open", "close"} \cap States = {}

\* A plan occurs at one place of the tree only, so that a running plan is named by
\* its plan: in one state, and below the master plan.
ASSUME HierarchyAssumption ==
  /\ \A s \in States : Master \notin ToSet(PlansIn[s])
  /\ \A s, t \in States : s # t => ToSet(PlansIn[s]) \cap ToSet(PlansIn[t]) = {}
  /\ \E level \in [Plans -> 1..Cardinality(Plans)] :
       \A s \in States : \A c \in ToSet(PlansIn[s]) : level[PlanOf[s]] < level[c]

VARIABLES
  team,       \* team[a]: the Agent of a team mate
  msgQueue,   \* TeamObserver::_msgQueue
  spts,       \* TeamObserver::_simplePlanTrees
  rps,        \* rps[p]: the RunningPlan of plan p
  myMarks,    \* the success marks of Me
  world,      \* what the team mates do: their trees and marks
  net,        \* messages under way
  iteration,  \* of PlanBase::run, modulo 2
  late,       \* history: a message waited in the queue for the team time-out
  disturbances

vars == <<team, msgQueue, spts, rps, myMarks, world, net, iteration, late, disturbances>>
mine == <<rps, myMarks, iteration>>

-------------------------------------------------------------------------------
(* Plan trees and messages *)

\* A SimplePlanTree is the set of its <<state, parent's state>>.
Tree == SUBSET (States \X (States \cup {None}))

StatesOf(spt)      == {e[1] : e \in spt}
ParentIn(spt, s)   == (CHOOSE e \in spt : e[1] = s)[2]
InTree(spt, p)     == {s \in StatesOf(spt) : PlanOf[s] = p}
ContainsPlan(spt, p) == InTree(spt, p) # {}

\* toMessage: a state, then its children between "open" and "close"; behaviours
\* are children that write nothing.  texts: what is written of the states below.
ChildrenIn(spt, s, p) == {c \in InTree(spt, p) : <<c, s>> \in spt}
ChildIn(spt, s, p)    == CHOOSE c \in ChildrenIn(spt, s, p) : TRUE

Text(spt, s, texts) ==
  LET parts == [k \in DOMAIN PlansIn[s] |->
                  IF ChildrenIn(spt, s, PlansIn[s][k]) = {} THEN << >>
                  ELSE texts[ChildIn(spt, s, PlansIn[s][k])]]
  IN  IF s \in Behaving \/ \E p \in ToSet(PlansIn[s]) : ChildrenIn(spt, s, p) # {}
      THEN <<s, "open">> \o FlattenSeq(parts) \o <<"close">> ELSE <<s>>

ToMessage(spt) ==
  LET text[n \in 0..Cardinality(Plans)] ==
        [s \in States |-> IF n = 0 THEN << >> ELSE Text(spt, s, text[n - 1])]
  IN  text[Cardinality(Plans)][CHOOSE s \in StatesOf(spt) : ParentIn(spt, s) = None]

\* One identifier of sptFromMessage; what toMessage wrote is never malformed.
Read(acc, id) ==
  IF id = "open" THEN [acc EXCEPT !.parent = acc.cur, !.cur = None]
  ELSE IF id = "close"
  THEN [acc EXCEPT !.cur = acc.parent, !.parent = ParentIn(acc.spt, acc.parent)]
  ELSE [spt |-> acc.spt \cup {<<id, acc.parent>>}, cur |-> id, parent |-> acc.parent]

SptFromMessage(ids) ==
  LET read[n \in 0..Len(ids)] ==
        IF n = 0 THEN [spt |-> {}, cur |-> None, parent |-> None]
        ELSE Read(read[n - 1], ids[n])
  IN  read[Len(ids)].spt

\* The trees a robot can be in: it does the plans of its states, or idles there.
Holder(S, s) == IF PlanOf[s] = Master THEN None
                ELSE CHOOSE h \in S : PlanOf[s] \in ToSet(PlansIn[h])

Trees ==
  {{<<s, Holder(S, s)>> : s \in S} :
     S \in {T \in SUBSET States :
              /\ \E s \in T : PlanOf[s] = Master
              /\ \A s, t \in T : PlanOf[s] = PlanOf[t] => s = t
              /\ \A s \in T : \/ PlanOf[s] = Master
                              \/ \E h \in T : PlanOf[s] \in ToSet(PlansIn[h])}}

Message == [from : Others, ids : {ToMessage(t) : t \in Trees}, marks : SUBSET EntryPoints]

-------------------------------------------------------------------------------
(* Agents: TeamManager, Agent *)

Agent == [active : BOOLEAN, ignored : BOOLEAN, recent : BOOLEAN,
          marks : SUBSET EntryPoints]

ActiveAgents(t) == {Me} \cup {a \in Others : t[a].active}

\* Mutant: nobody times out.
UpdateNever(agent) ==
  IF ~ agent.active /\ agent.recent THEN [agent EXCEPT !.active = TRUE] ELSE agent

\* Agent::update
Update(agent) ==
  IF agent.active /\ ~ agent.recent THEN [agent EXCEPT !.active = FALSE, !.marks = {}]
  ELSE IF ~ agent.active /\ agent.recent THEN [agent EXCEPT !.active = TRUE]
  ELSE agent

SimplePlanTree == [tree : Trees \cup {{}}, isNew : BOOLEAN]
NoTree == [tree |-> {}, isNew |-> FALSE]
Known(trees) == {a \in Others : trees[a].tree # {}}

\* The queued messages in order: an agent was heard, its marks and tree count, and
\* the last of its messages prevails.
FromQueue(a) == {k \in DOMAIN msgQueue : msgQueue[k].msg.from = a}
LastOf(a)    == msgQueue[Max(FromQueue(a))]

IntegratedTeam ==
  [a \in Others |->
     IF FromQueue(a) = {} THEN team[a]
     ELSE [team[a] EXCEPT !.recent = LastOf(a).recent, !.marks = LastOf(a).msg.marks]]

IntegratedTrees ==
  [a \in Others |->
     IF FromQueue(a) = {} THEN spts[a]
     ELSE [tree |-> SptFromMessage(LastOf(a).msg.ids), isNew |-> TRUE]]

\* updateTeamPlanTrees: the tree of an agent that timed out goes.
TreesAfterUpdate(t, updated, trees) ==
  [a \in Others |-> IF t[a].active /\ ~ updated[a].active THEN NoTree ELSE trees[a]]

-------------------------------------------------------------------------------
(* Running plans and success marks *)

\* protected: which of planStartTime and stateStartTime (never the older) are
\* recent.  cycle: the state of the CycleManager.  agents: the assignment.
RunningPlan ==
  [state : States \cup {None}, protected : {"plan", "state", "no"},
   cycle : {"observing", "overridden", "overriding"},
   agents : SUBSET (Agents \X States)]

NoPlan == [state |-> None, protected |-> "no", cycle |-> "observing", agents |-> {}]

MyPlans(R) == {p \in Plans : R[p].state # None}
PlaceOf(rp, a) == {x \in rp.agents : x[1] = a}
InState(rp, s) == {x[1] : x \in {y \in rp.agents : y[2] = s}}
InTask(rp, e)  == {x[1] : x \in {y \in rp.agents : EntryOf[y[2]] = e}}

ChildrenOf(R, p) == {c \in ToSet(PlansIn[R[p].state]) : R[c].state # None}
Parents(R, p)    == {u \in MyPlans(R) : p \in ChildrenOf(R, u)}

\* p and the plans below it, in the order in which the recursions visit them.
Visit(R, v) ==
  IF v.todo = << >> THEN v
  ELSE LET q == Head(v.todo)
       IN  IF R[q].state = None THEN [v EXCEPT !.todo = Tail(@)]
           ELSE [todo |-> PlansIn[R[q].state] \o Tail(v.todo), order |-> Append(v.order, q)]

DepthFirst(R, p) ==
  LET visit[n \in 0..Cardinality(Plans)] ==
        IF n = 0 THEN [todo |-> <<p>>, order |-> << >>] ELSE Visit(R, visit[n - 1])
  IN  visit[Cardinality(Plans)].order

Below(R, p) == ToSet(DepthFirst(R, p)) \ {p}

\* The plans in and below state s, whatever runs: the least set of plans with
\* those of s and those of the states of its members.
PlansUnder(s) ==
  LET closed == {P \in SUBSET Plans :
                   /\ ToSet(PlansIn[s]) \subseteq P
                   /\ \A t \in States : PlanOf[t] \in P => ToSet(PlansIn[t]) \subseteq P}
  IN  {q \in Plans : \A P \in closed : q \in P}

PlanOfMark(e) == PlanOf[InitialState[e]]

\* Mutant: only the plans of Me count.
LimitToMine(marks, R, trees) == {e \in marks : PlanOfMark(e) \in MyPlans(R)}

\* cleanOwnSuccessMarks: marks in plans somebody is in.
CleanMarks(marks, R, trees) ==
  {e \in marks : \/ PlanOfMark(e) \in MyPlans(R)
                 \/ \E a \in Others : ContainsPlan(trees[a].tree, PlanOfMark(e))}

\* notifyRobotLeftPlan for each of the plans in gone.
MarksAfterLeaving(marks, gone) ==
  {e \in marks : PlanOfMark(e) \in gone =>
                   \E a \in Others : ContainsPlan(spts[a].tree, PlanOfMark(e))}

\* createSuccessCollection, updateSuccessCollection
SuccessCollection(p) ==
  {x \in Agents \X EntryPoints :
     /\ PlanOfMark(x[2]) = p
     /\ \/ x[1] = Me /\ x[2] \in myMarks
        \/ x[1] # Me /\ team[x[1]].active /\ x[2] \in team[x[1]].marks}

\* The running plans of Me above p, and p.
Upto(R, p) == {q \in MyPlans(R) : q = p \/ p \in PlansUnder(R[q].state)}

\* The tree leads to running plan p through the states of Me.
Leads(tree, R, p) ==
  \A q \in Upto(R, p) :
    IF q = Master THEN ContainsPlan(tree, q)
    ELSE \E e \in tree : \E u \in Parents(R, q) : PlanOf[e[1]] = q /\ e[2] = R[u].state

\* The agents with a new tree that does.
Reporting(R, trees, p) ==
  {a \in Known(trees) : trees[a].isNew /\ Leads(trees[a].tree, R, p)}

\* Mutant: who sent nothing new is not spared.
NoneSpared(trees) == {}

\* Agents with a tree that is not new are spared.
NoUpdates(trees) == {a \in Known(trees) : ~ trees[a].isNew}

\* While the own state is fresh, those that are in it stay.
Frozen(rp, x) == rp.protected # "no" /\ x[2] = rp.state

\* Mutant: the old place is kept.
ReportedToo(rp, a, s) == PlaceOf(rp, a) \cup {<<a, s>>}

\* What the new tree of a, in which a is in state s of the plan, makes of its place.
Reported(rp, a, s) ==
  LET old == PlaceOf(rp, a)
  IN  IF \E x \in old : Frozen(rp, x) THEN old
      ELSE IF \/ rp.protected # "plan" /\ rp.cycle # "overriding"
              \/ old = {} \/ \E x \in old : EntryOf[x[2]] = EntryOf[s]
      THEN {<<a, s>>}
      ELSE old

Heard(rp, trees, p, new) ==
  {x \in rp.agents : x[1] \notin new}
  \cup UNION {Reported(rp, a, CHOOSE s \in InTree(trees[a].tree, p) : TRUE) : a \in new}

\* Mutant: nobody is taken for gone.
StaysAlways(rp, x, new, quiet) == TRUE

\* An agent that neither sent a tree that leads here nor is known from an older
\* one is no longer in the plan.
Stays(rp, x, new, quiet) ==
  rp.protected = "plan" \/ x[1] \in new \cup quiet \cup {Me} \/ Frozen(rp, x)

Available(rp, x, available) ==
  rp.cycle = "overriding" \/ x[1] \in available \/ Frozen(rp, x)

\* recursiveUpdateAssignment of one plan p.
AgentsAfter(R, trees, p, available) ==
  {x \in Heard(R[p], trees, p, Reporting(R, trees, p)) :
     /\ Stays(R[p], x, Reporting(R, trees, p), NoUpdates(trees))
     /\ Available(R[p], x, available)}

\* The agents that the plans visited after p may have: one list for all of them.
AvailableAfter(rp, available) ==
  available \cap (IF rp.cycle = "overriding" THEN InTask(rp, EntryOf[rp.state])
                  ELSE InState(rp, rp.state))

UpdateAssignment(R, trees, u, p) ==
  LET rp == [R[p] EXCEPT !.agents = AgentsAfter(R, trees, p, u.available)]
  IN  [rps |-> [u.rps EXCEPT ![p] = rp], available |-> AvailableAfter(rp, u.available)]

RecursiveUpdateAssignment(R, trees, agents) ==
  LET order == DepthFirst(R, Master)
      updated[k \in 0..Len(order)] ==
        IF k = 0 THEN [rps |-> R, available |-> agents]
        ELSE UpdateAssignment(R, trees, updated[k - 1], order[k])
  IN  updated[Len(order)].rps

\* TeamObserver::tick
Tick ==
  \E t \in {[a \in Others |-> Update(IntegratedTeam[a])]} :
  \E trees \in {TreesAfterUpdate(IntegratedTeam, t, IntegratedTrees)} :
    /\ team' = t
    /\ spts' = [a \in Others |-> [trees[a] EXCEPT !.isNew = FALSE]]
    /\ msgQueue' = << >>
    /\ myMarks' = CleanMarks(myMarks, rps, trees)
    /\ \E R \in {RecursiveUpdateAssignment(rps, trees, ActiveAgents(t))} : rps' = R
    /\ iteration' = 1 - iteration
    /\ UNCHANGED <<world, late, net, disturbances>>

-------------------------------------------------------------------------------
(* The communication thread *)

HandlePlanTreeInfo(m) ==
  /\ m \in net
  /\ net' = net \ {m}
  /\ IF team[m.from].ignored THEN UNCHANGED msgQueue
     ELSE /\ Len(msgQueue) < MaxQueue
          /\ msgQueue' = Append(msgQueue, [msg |-> m, recent |-> TRUE])
  /\ UNCHANGED <<team, spts, mine, world, late, disturbances>>

\* doBroadCast of a team mate, and the network
Broadcast(a) ==
  /\ world[a].tree # {}
  /\ net' = {m \in net : m.from # a}
              \cup {[from |-> a, ids |-> ToMessage(world[a].tree), marks |-> world[a].marks]}
  /\ UNCHANGED <<team, msgQueue, spts, mine, world, late, disturbances>>

-------------------------------------------------------------------------------
(* Time *)

Disturb == /\ disturbances < MaxDisturbances
           /\ disturbances' = disturbances + 1

\* The team time-out has passed since a was heard last; a silent robot's does.
Expires(a) ==
  /\ team[a].recent
  /\ \A k \in DOMAIN msgQueue : msgQueue[k].msg.from # a
  /\ team' = [team EXCEPT ![a].recent = FALSE]
  /\ UNCHANGED <<msgQueue, spts, mine, world, late, net>>

TimeOut(a) == world[a].tree # {} /\ Expires(a) /\ Disturb
Silence(a) == world[a].tree = {} /\ Expires(a) /\ UNCHANGED disturbances

\* It has passed for the queue while the engine thread was late.
QueueTimeOut ==
  /\ Disturb /\ late' = TRUE
  /\ \E k \in DOMAIN msgQueue :
       /\ msgQueue' = [i \in DOMAIN msgQueue |->
                         IF i <= k THEN [msgQueue[i] EXCEPT !.recent = FALSE]
                         ELSE msgQueue[i]]
       /\ team' = [a \in Others |-> IF \E i \in 1..k : msgQueue[i].msg.from = a
                                    THEN [team[a] EXCEPT !.recent = FALSE] ELSE team[a]]
  /\ UNCHANGED <<spts, mine, world, net>>

ProtectionEnds(p) ==
  /\ rps[p].protected # "no"
  /\ rps' = [rps EXCEPT ![p].protected = IF @ = "plan" THEN "state" ELSE "no"]
  /\ UNCHANGED <<team, msgQueue, spts, myMarks, world, late, net, iteration, disturbances>>

-------------------------------------------------------------------------------
(* The rules of Me, with whatever assignment plan selection comes to *)

\* Tasks of agents in the plans P; Me does not idle.
Tasks(P) ==
  {t \in [P -> [Agents -> EntryPoints \cup {None}]] :
     \A p \in P : /\ t[p][Me] # None
                  /\ \A a \in Agents : t[p][a] # None => PlanOfMark(t[p][a]) = p}

\* allocationRule: the plans of my states that are not there yet are entered by
\* agents that are in the state they belong to.
Missing(R, tasks) ==
  {m \in MyPlans(R) \X DOMAIN tasks :
     R[m[2]].state = None /\ m[2] \in ToSet(PlansIn[R[m[1]].state])}

Crew(rp, task) == {a \in InState(rp, rp.state) : task[a] # None}

Started(rp, task) ==
  [state |-> InitialState[task[Me]], protected |-> "plan", cycle |-> "observing",
   agents |-> {<<a, InitialState[task[a]]>> : a \in Crew(rp, task)}]

Allocate(R, tasks) ==
  IF Missing(R, tasks) = {} THEN R
  ELSE LET m == CHOOSE m \in Missing(R, tasks) : TRUE
       IN  [R EXCEPT ![m[2]] = Started(R[m[1]], tasks[m[2]])]

Allocated(R, tasks) ==
  LET grown[n \in 0..Cardinality(Plans)] ==
        IF n = 0 THEN R ELSE Allocate(grown[n - 1], tasks)
  IN  grown[Cardinality(Plans)]

Drop(R, p) == [q \in Plans |-> IF q \in Below(R, p) THEN NoPlan ELSE R[q]]

Entered(rp, s) ==
  [rp EXCEPT !.state = s, !.protected = IF @ = "no" THEN "state" ELSE @]

Succeeded(s) == IF s \in SuccessStates THEN {EntryOf[s]} ELSE {}

\* moveAllFromTo, useState
MoveAll(rp, s) ==
  [Entered(rp, s) EXCEPT
     !.agents = {IF x[2] = rp.state THEN <<x[1], s>> ELSE x : x \in @}]

\* A transition of plan p: moveState, then allocationRule.
MoveState(p, s) ==
  /\ rps[p].state \notin {None, s} /\ Disturb
  /\ PlanOf[s] = p /\ EntryOf[s] = EntryOf[rps[p].state]
  /\ \E tasks \in Tasks(PlansUnder(s)) :
       rps' = Allocated([Drop(rps, p) EXCEPT ![p] = MoveAll(@, s)], tasks)
  /\ myMarks' = MarksAfterLeaving(myMarks, Below(rps, p)) \cup Succeeded(s)
  /\ UNCHANGED <<team, msgQueue, spts, world, late, net, iteration>>

\* limitToRobots of the plans below p, while an agent of their own state goes; l
\* has the running plans and those that lost one.  (p itself is left alone: its
\* parent is neither p nor below it.)
Limit(l, p, q, agents) ==
  LET R == l.rps
  IN  IF Parents(R, q) \cap ({p} \cup l.touched) = {} \/ R[q].cycle = "overridden" THEN l
      ELSE [rps |-> [R EXCEPT ![q].agents = {x \in @ : x[1] \in agents}],
            touched |-> IF InState(R[q], R[q].state) \subseteq agents
                        THEN l.touched ELSE l.touched \cup {q}]

Limited(R, p, agents) ==
  LET order == DepthFirst(R, p)
      limited[k \in 0..Len(order)] ==
        IF k = 0 THEN [rps |-> R, touched |-> {}]
        ELSE Limit(limited[k - 1], p, order[k], agents)
  IN  limited[Len(order)].rps

\* adaptTaskChangesFrom: who keeps the task keeps the state.
Adapted(rp, crew, task) ==
  {IF \E x \in PlaceOf(rp, a) : EntryOf[x[2]] = task[a]
   THEN CHOOSE x \in PlaceOf(rp, a) : TRUE
   ELSE <<a, InitialState[task[a]]>> : a \in {b \in crew : task[b] # None}}

\* dynamicAllocationRule: an assignment of more utility is adapted to, and what
\* it changes for Me allocated anew.
AdaptAssignment(p) ==
  /\ p # Master /\ rps[p].state # None /\ rps[p].cycle # "overridden" /\ Disturb
  /\ \E up \in Parents(rps, p) :
     \E task \in {t[p] : t \in Tasks({p})} :
       LET crew == InState(rps[up], rps[up].state)
           new == Adapted(rps[p], crew, task)
           s == (CHOOSE x \in new : x[1] = Me)[2]
           after(R) == [R EXCEPT ![p].agents = new]
       IN  IF s = rps[p].state
           THEN /\ rps' = after(Limited(rps, p, {x[1] : x \in {y \in new : y[2] = s}}))
                /\ UNCHANGED myMarks
           ELSE /\ \E tasks \in Tasks(PlansUnder(s)) :
                     rps' = Allocated(after([Drop(rps, p) EXCEPT ![p] = Entered(@, s)]),
                                      tasks)
                /\ myMarks' = MarksAfterLeaving(myMarks, Below(rps, p)) \cup Succeeded(s)
  /\ UNCHANGED <<team, msgQueue, spts, world, late, net, iteration>>

\* The cycle manager of p: another robot's or the own authority, and its end.
CycleChanges(p) ==
  /\ rps[p].state # None
  /\ \/ /\ rps[p].cycle = "observing" /\ Disturb
        /\ \E c \in {"overridden", "overriding"} : rps' = [rps EXCEPT ![p].cycle = c]
     \/ /\ rps[p].cycle # "observing" /\ UNCHANGED disturbances
        /\ rps' = [rps EXCEPT ![p].cycle = "observing"]
  /\ UNCHANGED <<team, msgQueue, spts, myMarks, world, late, net, iteration>>

-------------------------------------------------------------------------------
(* The team mates *)

\* a does something else, or falls silent (the empty tree).
MoveOther(a) ==
  /\ Disturb
  /\ \E t \in (Trees \cup {{}}) \ {world[a].tree} :
       world' = [world EXCEPT ![a] =
                   [tree |-> t, marks |-> UNION {Succeeded(s) : s \in StatesOf(t)}]]
  /\ UNCHANGED <<team, msgQueue, spts, mine, late, net>>

\* Domain code ignores an agent or lets it in.
SetAgentIgnored(a) ==
  /\ Disturb
  /\ team' = [team EXCEPT ![a].ignored = ~ @]
  /\ UNCHANGED <<msgQueue, spts, mine, world, late, net>>

\* handleIncomingAuthorityMessage: its sender and the robots it names were heard.
HearAuthority(a) ==
  /\ ~ team[a].recent /\ Disturb
  /\ team' = [team EXCEPT ![a].recent = TRUE]
  /\ UNCHANGED <<msgQueue, spts, mine, world, late, net>>

-------------------------------------------------------------------------------
\* The robot has just entered the master plan (initialisationRule), alone, and so
\* have its team mates.
Init ==
  /\ team = [a \in Others |-> [active |-> FALSE, ignored |-> FALSE, recent |-> FALSE,
                               marks |-> {}]]
  /\ msgQueue = << >>
  /\ spts = [a \in Others |-> NoTree]
  /\ \E s \in {InitialState[e] : e \in EntryPoints} :
       /\ PlanOf[s] = Master
       /\ \E tasks \in Tasks(PlansUnder(s)) :
            rps = Allocated([p \in Plans |->
                     IF p = Master
                     THEN [NoPlan EXCEPT !.state = s, !.protected = "plan",
                                         !.agents = {<<Me, s>>}]
                     ELSE NoPlan], tasks)
  /\ myMarks = {}
  /\ world \in [Others -> {[tree |-> t, marks |-> {}] :
                            t \in {u \in Trees : \A s \in StatesOf(u) :
                                     s = InitialState[EntryOf[s]]}}]
  /\ net = {}
  /\ iteration = 0
  /\ late = FALSE
  /\ disturbances = 0

Next ==
  \/ Tick
  \/ \E m \in net : HandlePlanTreeInfo(m)
  \/ \E a \in Others : \/ Broadcast(a) \/ TimeOut(a) \/ Silence(a) \/ MoveOther(a)
                       \/ SetAgentIgnored(a) \/ HearAuthority(a)
  \/ QueueTimeOut
  \/ \E p \in Plans : \/ ProtectionEnds(p) \/ AdaptAssignment(p) \/ CycleChanges(p)
                      \/ \E s \in States : MoveState(p, s)

Spec == Init /\ [][Next]_vars

\* The main loop goes on (Tick is always enabled, so this is its weak fairness),
\* team mates send again and again and messages arrive, times pass, and nobody
\* keeps authority for ever.
Fairness ==
  /\ []<>(iteration = 0) /\ []<>(iteration = 1)
  /\ \A a \in Others : /\ WF_vars(Broadcast(a)) /\ WF_vars(Silence(a))
                       /\ SF_vars(\E m \in net : m.from = a /\ HandlePlanTreeInfo(m))
  /\ \A p \in Plans : /\ WF_vars(ProtectionEnds(p))
                      /\ WF_vars(CycleChanges(p) /\ rps'[p].cycle = "observing")

FairSpec == Spec /\ Fairness
===============================================================================
