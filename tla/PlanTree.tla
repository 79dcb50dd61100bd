------------------------------- MODULE PlanTree -------------------------------
(***************************************************************************)
(* One robot's tree of running plans and the engine thread that works on   *)
(* it: PlanBase::run, RunningPlan::tick, RuleBook::visit with its rules,   *)
(* activation, retirement and deletion of RunningPlans, and the events by  *)
(* which behaviours ask for a visit on the fast path.                      *)
(*                                                                         *)
(* Conditions, allocations and utilities are the world's and free: a rule  *)
(* that depends on them may apply whenever its other guards hold.  Plan    *)
(* types are left out, and so are the plans PlanSelector makes and gives   *)
(* up (they are inactive, in no list of children, and deleted in the next  *)
(* sweep).  The loop of a behaviour's thread is one step here.             *)
(***************************************************************************)
EXTENDS Naturals, Sequences, FiniteSets, SequencesExt

CONSTANTS
  Plans, Behaviours,     \* the plan repository: plans, behaviour configurations,
  States, Master,        \* states, and the top-level plan
  EntryStates,           \* EntryStates[p]: initial states of p's entry points
  StatePlans,            \* StatePlans[s]: sequence of the plans run in state s
  Transitions,           \* <<s, t>>: transitions without SyncTransition
  SyncTransitions,       \* <<s, t>>: transitions with SyncTransition
  SuccessStates, FailureStates,
  IdlePlans,             \* plans in which the robot may be left without a task
  EventDriven,           \* behaviours that run when triggered, not at an interval
  MaxRuleApplications,   \* RuleBook::_maxConsecutiveChanges
  NumInsts,              \* bound: RunningPlan objects alive at a time
  NoState                \* the null state, and the null entry point

Insts == 1..NumInsts
None  == 0               \* the null RunningPlan
Types == Plans \cup Behaviours

ASSUME PlanTreeAssumption ==
  /\ Master \in Plans
  /\ Plans \cap Behaviours = {}
  /\ NoState \notin States
  /\ EntryStates \in [Plans -> SUBSET States]
  /\ \E s \in States : EntryStates[Master] = {s}
  /\ StatePlans \in [States -> Seq(Types)]
  /\ Transitions \subseteq States \X States
  /\ SyncTransitions \subseteq States \X States
  /\ SuccessStates \subseteq States
  /\ FailureStates \subseteq States
  /\ IdlePlans \subseteq Plans
  /\ EventDriven \subseteq Behaviours
  /\ MaxRuleApplications \in Nat \ {0}
  /\ NumInsts \in Nat \ {0}

VARIABLES
  node,      \* node[i]: the RunningPlan object i
  root,      \* PlanBase::_rootNode
  pool,      \* pool[b]: the BasicBehaviour of behaviour b
  fpEvents,  \* PlanBase::_fpEvents, as a set
  pc,        \* what the engine thread does next
  stack,     \* the calls of RunningPlan::tick in progress
  v          \* the call of RuleBook::visit in progress

vars == <<node, root, pool, fpEvents, pc, stack, v>>
engine == <<root, stack, fpEvents>>

-------------------------------------------------------------------------------
(* Data *)

Changes == {"NoChange", "InternalChange", "SuccessChange", "FailChange"}

\* failCount is compared with 1, 2 and 3 only; higher counts behave like 3.
FailLimit == 3
Count(n) == IF n > FailLimit THEN FailLimit ELSE n

NoFailures == [p \in Types |-> 0]

Node == [type : Types, parent : Insts \cup {None}, children : Seq(Insts),
         entry : States \cup {NoState}, state : States \cup {NoState},
         active : {"Free", "Active", "Retired"},
         allocationNeeded : BOOLEAN, failHandlingNeeded : BOOLEAN,
         failCount : 0..FailLimit, failedSubPlans : [Types -> 0..FailLimit]]

NewNode(p, parent, s) ==
  [type |-> p, parent |-> parent, children |-> << >>, entry |-> s, state |-> s,
   active |-> "Active", allocationNeeded |-> FALSE, failHandlingNeeded |-> FALSE,
   failCount |-> 0, failedSubPlans |-> NoFailures]

FreeNode == [NewNode(Master, None, NoState) EXCEPT !.active = "Free"]

IsBehaviour(i) == node[i].type \in Behaviours
IsRetired(i)   == node[i].active = "Retired"
IsActive(i)    == node[i].active = "Active"

BasicBehaviour == [context : Insts \cup {None}, running : BOOLEAN,
                   contextInRun : Insts \cup {None}]

\* The order in which a round of visit applies the rules.
RuleOrder == <<"sync", "transition", "lastTransition", "topFail", "allocation",
               "authority", "dynamic", "abort", "redo", "replace", "propagation",
               "roundEnd">>

Position(rule) == CHOOSE k \in DOMAIN RuleOrder : RuleOrder[k] = rule

Visit == [inst : Insts, next : DOMAIN RuleOrder, changes : 0..MaxRuleApplications,
          doDynAlloc : BOOLEAN, record : Changes, ms : Changes,
          caller : {"tick", "again", "fastFirst", "fast"}]

Frame == [inst : Insts, i : Nat \ {0}, child : Changes, my : Changes]

\* RuleBook::updateChange
UpdateChange(cur, update) ==
  IF cur = "NoChange" \/ update = "FailChange"
     \/ (cur = "InternalChange" /\ update # "NoChange")
  THEN IF cur = "FailChange" THEN cur ELSE update
  ELSE cur

-------------------------------------------------------------------------------
(* Operations on the tree: RunningPlan.cpp.  A tree t is a record of the nodes *)
(* and the behaviour pool, which activation and retirement change together.    *)

Tree == [nodes |-> node, pool |-> pool]

ChildrenOf(t, S) == UNION {ToSet(t.nodes[i].children) : i \in S}

\* S and everything below it.
Below(t, S) ==
  LET reach[k \in 0..NumInsts] ==
        IF k = 0 THEN S
        ELSE LET above == reach[k - 1] IN above \cup ChildrenOf(t, above)
  IN  reach[NumInsts]

\* Mutant: only the children are told, not their children.
JustChildren(t, i) == ToSet(t.nodes[i].children)

\* deactivate of a child deactivates its children.
Deactivated(t, i) == Below(t, ToSet(t.nodes[i].children))

\* deactivateChildren: the subtrees below i retire, their behaviours stop.
DeactivateChildren(t, i) ==
  LET gone == Deactivated(t, i)
  IN  [nodes |-> [j \in Insts |->
                    IF j \in gone THEN [t.nodes[j] EXCEPT !.active = "Retired"]
                    ELSE t.nodes[j]],
       pool |-> [b \in Behaviours |->
                    IF \E j \in gone : t.nodes[j].type = b
                    THEN [t.pool[b] EXCEPT !.running = FALSE]
                    ELSE t.pool[b]]]

ClearChildren(t, i) ==
  [t EXCEPT !.nodes = [j \in Insts |->
     IF j = i THEN [@[j] EXCEPT !.children = << >>]
     ELSE IF j \in ToSet(@[i].children) THEN [@[j] EXCEPT !.parent = None]
     ELSE @[j]]]

\* Mutant: the children are not told that they are dropped.
DropChildrenSilently(t, i) == ClearChildren(t, i)

DropChildren(t, i) == ClearChildren(DeactivateChildren(t, i), i)

\* Mutant: the children of the old state stay.
MoveStateOnly(t, i, s) ==
  [t EXCEPT !.nodes[i].state = s, !.nodes[i].failedSubPlans = NoFailures]

\* moveState: the robot enters state s, the old state's children are retired.
MoveState(t, i, s) ==
  [DropChildren(t, i) EXCEPT !.nodes[i].state = s,
                             !.nodes[i].failedSubPlans = NoFailures]

AddFailure(t, i) ==
  [t EXCEPT !.nodes[i].failCount = Count(@ + 1),
            !.nodes[i].failHandlingNeeded = TRUE]

Fresh(nodes) ==
  CHOOSE i \in Insts : /\ nodes[i].active = "Free"
                       /\ \A j \in 1..(i - 1) : nodes[j].active # "Free"

\* One plan of an allocation: w.todo lists the <<parent, type>> still to make,
\* parents before their children; tasks[p] is the state the robot starts p in,
\* or NoState when it idles.  A new child of i has failed as often as its plan
\* already did there (addChildren), and a behaviour is started.
MakeNext(w, tasks) ==
  LET p == w.todo[1][2]
      parent == w.todo[1][1]
      n == Fresh(w.tree.nodes)
      s == IF p \in Plans THEN tasks[p] ELSE NoState
      child == [NewNode(p, parent, s) EXCEPT
                  !.failCount = w.tree.nodes[parent].failedSubPlans[p]]
      kids == IF s = NoState THEN << >>
              ELSE [k \in DOMAIN StatePlans[s] |-> <<n, StatePlans[s][k]>>]
  IN  IF w.todo = << >> \/ ~ w.room THEN w
      ELSE IF \A i \in Insts : w.tree.nodes[i].active # "Free"
      THEN [w EXCEPT !.room = FALSE]
      ELSE [tree |-> [nodes |-> [w.tree.nodes EXCEPT
                                   ![n] = child,
                                   ![parent].children = Append(@, n)],
                      pool |-> IF p \in Behaviours
                               THEN [w.tree.pool EXCEPT ![p].context = n,
                                                        ![p].running = TRUE]
                               ELSE w.tree.pool],
            made |-> Append(w.made, n),
            todo |-> kids \o Tail(w.todo),
            room |-> w.room]

\* The children of i for the plans of its state, all the way down.
Allocate(t, i, tasks) ==
  LET now == StatePlans[t.nodes[i].state]
      make[k \in 0..(NumInsts + 1)] ==
        IF k = 0 THEN [tree |-> t, made |-> << >>, room |-> TRUE,
                       todo |-> [j \in DOMAIN now |-> <<i, now[j]>>]]
        ELSE MakeNext(make[k - 1], tasks)
  IN  make[NumInsts + 1]

\* Where the robot may be put in plan i by an allocation.
TasksOf(p) == EntryStates[p] \cup IF p \in IdlePlans THEN {NoState} ELSE {}

TasksIn(i) == IF IsBehaviour(i) THEN {} ELSE TasksOf(node[i].type)

Tasks == {f \in [Plans -> States \cup {NoState}] :
            \A p \in Plans : f[p] \in TasksOf(p)}

-------------------------------------------------------------------------------
(* The engine thread's control *)

StartVisit(i, who) ==
  /\ pc' = "visit"
  /\ v' = [inst |-> i, next |-> 1, changes |-> 0, doDynAlloc |-> TRUE,
           record |-> "NoChange", ms |-> "NoChange", caller |-> who]

r == v.inst

\* Redo, replacement and propagation are for plans with a parent that failed.
Fails(i) == node[i].parent # None /\ node[i].failHandlingNeeded /\ ~ IsBehaviour(i)

\* Mutant: off by one.
ReplacesLater(n) == n > 2

\* getFailureCount() != 2: no replacement
Replaces(n) == n = 2

\* Rules that the plan's data alone decides on.
Due(rule) ==
  CASE rule = "topFail" -> node[r].parent = None /\ node[r].failHandlingNeeded
    [] rule = "allocation" -> node[r].allocationNeeded
    [] rule = "abort" -> v.record = "FailChange"
    [] rule = "redo" -> Fails(r) /\ node[r].failCount = 1 /\ node[r].entry # NoState
    [] rule = "replace" -> Fails(r) /\ Replaces(node[r].failCount)
    [] rule = "propagation" -> Fails(r) /\ node[r].failCount >= 3
    [] OTHER -> FALSE

\* It is rule's turn: the rules before it have been applied, or changed nothing.
At(rule) ==
  /\ pc = "visit"
  /\ v.next <= Position(rule)
  /\ \A k \in v.next..(Position(rule) - 1) : ~ Due(RuleOrder[k])

SetTree(t) == node' = t.nodes /\ pool' = t.pool

\* The rule made change c; the visit goes on with rule next.
Proceed(next, c) ==
  /\ v' = [v EXCEPT !.record = UpdateChange(@, c), !.next = Position(next)]
  /\ pc' = pc
  /\ UNCHANGED engine

\* visit returns c.
Return(c) ==
  /\ v' = [v EXCEPT !.ms = c]
  /\ pc' = "return"
  /\ UNCHANGED engine

-------------------------------------------------------------------------------
(* The rules, in the order visit applies them *)

\* Mutant: changes are not counted.
Uncounted(n) == n

\* ++changes
Counted(n) == n + 1

WithinLimit(n) == n < MaxRuleApplications

ChangeOf(s) ==
  IF s \in SuccessStates THEN "SuccessChange"
  ELSE IF s \in FailureStates THEN "FailChange" ELSE "InternalChange"

Entered(s) == [MoveState(Tree, r, s) EXCEPT !.nodes[r].allocationNeeded = TRUE]

SynchTransitionRule ==
  /\ At("sync")
  /\ \E s \in States :
       /\ <<node[r].state, s>> \in SyncTransitions
       /\ SetTree(Entered(s))
       /\ Proceed("transition", ChangeOf(s))

\* Transitions are taken while they hold and the limit allows; the change that
\* reaches the limit is not noted.
TransitionRule ==
  /\ At("transition")
  /\ \E s \in States :
       /\ <<node[r].state, s>> \in Transitions
       /\ SetTree(Entered(s))
       /\ v' = IF WithinLimit(Counted(v.changes))
               THEN [v EXCEPT !.changes = Counted(@),
                              !.record = UpdateChange(@, ChangeOf(s)),
                              !.next = Position("transition")]
               ELSE [v EXCEPT !.changes = Counted(@),
                              !.next = Position("lastTransition")]
  /\ pc' = pc
  /\ UNCHANGED engine

\* ... and once more.
LastTransitionRule ==
  /\ At("lastTransition")
  /\ \E s \in States :
       /\ <<node[r].state, s>> \in Transitions
       /\ SetTree(Entered(s))
       /\ Proceed("topFail", ChangeOf(s))

\* The children stay.
TopFailRule ==
  /\ At("topFail") /\ Due("topFail")
  /\ node' = [node EXCEPT ![r].failHandlingNeeded = FALSE,
                          ![r].failCount = 0,
                          ![r].allocationNeeded = TRUE,
                          ![r].state = node[r].entry,
                          ![r].failedSubPlans = NoFailures]
  /\ Proceed("allocation", "InternalChange")
  /\ UNCHANGED pool

AllocationRule ==
  /\ At("allocation") /\ Due("allocation")
  /\ LET begun == [Tree EXCEPT !.nodes[r].allocationNeeded = FALSE]
     IN  \/ /\ StatePlans[node[r].state] # << >>
            /\ SetTree(AddFailure(begun, r))
            /\ Proceed("authority", "FailChange")
         \/ \E tasks \in Tasks :
              LET w == Allocate(begun, r, tasks)
              IN  /\ w.room
                  /\ SetTree(w.tree)
                  /\ Proceed("authority", IF StatePlans[node[r].state] = << >>
                                          THEN "NoChange" ELSE "InternalChange")

\* The authority may give the robot another task of the plan, or only others.
AuthorityOverrideRule ==
  /\ At("authority")
  /\ ~ IsBehaviour(r)
  /\ Proceed("dynamic", "InternalChange")
  /\ \/ UNCHANGED <<node, pool>>
     \/ \E s \in TasksIn(r) \ {NoState, node[r].entry} :
          SetTree([DropChildren(Tree, r) EXCEPT
                     !.nodes[r].entry = s,
                     !.nodes[r].state = s,
                     !.nodes[r].failedSubPlans = NoFailures,
                     !.nodes[r].allocationNeeded = TRUE])

\* adaptAssignment: the children stay if the robot stays in its state.
AdaptAssignment(t, i, s) ==
  IF s = t.nodes[i].state THEN [t EXCEPT !.nodes[i].entry = s]
  ELSE [DropChildren(t, i) EXCEPT !.nodes[i].entry = s, !.nodes[i].state = s]

\* A better allocation gives the robot another task, or none, or only others.
DynamicAllocationRule ==
  /\ At("dynamic")
  /\ v.doDynAlloc
  /\ ~ node[r].allocationNeeded
  /\ ~ IsBehaviour(r)
  /\ node[r].parent # None
  /\ Proceed("abort", "InternalChange")
  /\ \/ UNCHANGED <<node, pool>>
     \/ \E s \in TasksIn(r) \ {node[r].entry} :
          SetTree([AdaptAssignment(Tree, r, s) EXCEPT
                     !.nodes[r].allocationNeeded = s \notin {NoState, node[r].state}])

\* A failure state, an invalid assignment or a runtime condition aborts the plan.
PlanAbortRule ==
  /\ At("abort")
  /\ ~ node[r].failHandlingNeeded
  /\ ~ IsBehaviour(r)
  /\ SetTree(AddFailure(Tree, r))
  /\ Return("FailChange")

\* A failure of any rule so far ends the visit: the level above may react.
FailChangeReturns ==
  /\ At("abort") /\ Due("abort")
  /\ Return("FailChange")
  /\ UNCHANGED <<node, pool>>

PlanRedoRule ==
  /\ At("redo") /\ Due("redo")
  /\ IF node[r].state = node[r].entry
     THEN SetTree(AddFailure(Tree, r)) /\ Proceed("replace", "FailChange")
     ELSE /\ SetTree([DropChildren(Tree, r) EXCEPT
                        !.nodes[r].failHandlingNeeded = FALSE,
                        !.nodes[r].state = node[r].entry,
                        !.nodes[r].allocationNeeded = TRUE])
          /\ Proceed("replace", "InternalChange")

\* The parent drops r and its siblings and allocates again.
PlanReplaceRule ==
  /\ At("replace") /\ Due("replace")
  /\ LET p == node[r].parent
     IN  SetTree([DropChildren(Tree, p) EXCEPT
                    !.nodes[p].failedSubPlans[node[r].type] = Count(@ + 1),
                    !.nodes[p].allocationNeeded = TRUE,
                    !.nodes[r].failHandlingNeeded = FALSE])
  /\ Return("FailChange")

\* What this round changed is not part of the answer when a failure propagates.
PlanPropagationRule ==
  /\ At("propagation") /\ Due("propagation")
  /\ SetTree([AddFailure(Tree, node[r].parent) EXCEPT
                !.nodes[r].failHandlingNeeded = FALSE])
  /\ Return(v.ms)

\* Rounds go on while they change something and the limit allows.
RoundEnds ==
  /\ At("roundEnd")
  /\ IF v.record # "NoChange" /\ WithinLimit(Counted(v.changes))
     THEN /\ v' = [v EXCEPT !.changes = Counted(@), !.next = 1,
                            !.doDynAlloc = FALSE,
                            !.ms = UpdateChange(@, v.record),
                            !.record = "NoChange"]
          /\ pc' = pc
          /\ UNCHANGED engine
     ELSE Return(v.ms)
  /\ UNCHANGED <<node, pool>>

VisitNext ==
  \/ RoundEnds \/ FailChangeReturns
  \/ PlanPropagationRule \/ PlanReplaceRule \/ PlanRedoRule \/ PlanAbortRule
  \/ TopFailRule \/ AllocationRule \/ AuthorityOverrideRule \/ DynamicAllocationRule
  \/ SynchTransitionRule \/ TransitionRule \/ LastTransitionRule

-------------------------------------------------------------------------------
(* RunningPlan::tick *)

NoVisit == [inst |-> 1, next |-> 1, changes |-> 0, doDynAlloc |-> TRUE,
            record |-> "NoChange", ms |-> "NoChange", caller |-> "tick"]

Enter(i) == [inst |-> i, i |-> 1, child |-> "NoChange", my |-> "NoChange"]

Top == stack[Len(stack)]

\* tick returns change c to the tick of the parent, or to PlanBase::run.
Leave(c) ==
  LET below == Front(stack)
  IN  IF below = << >>
      THEN stack' = << >> /\ pc' = "sweep"
      ELSE /\ stack' = [below EXCEPT ![Len(below)].child = UpdateChange(@, c),
                                     ![Len(below)].i = @ + 1]
           /\ pc' = "loop"

FirstVisitReturns ==
  /\ pc = "return" /\ v.caller = "tick"
  /\ IF IsRetired(r) THEN Leave(v.ms)
     ELSE /\ stack' = [stack EXCEPT ![Len(stack)].my = v.ms]
          /\ pc' = "loop"
  /\ v' = NoVisit
  /\ UNCHANGED <<node, root, pool, fpEvents>>

\* The children may be replaced while they are ticked; i is not adjusted.
TickChild ==
  /\ pc = "loop"
  /\ Top.i <= Len(node[Top.inst].children)
  /\ LET c == node[Top.inst].children[Top.i]
     IN  IF IsRetired(c)
         THEN stack' = [stack EXCEPT ![Len(stack)].i = @ + 1] /\ UNCHANGED <<pc, v>>
         ELSE stack' = Append(stack, Enter(c)) /\ StartVisit(c, "tick")
  /\ UNCHANGED <<node, root, pool, fpEvents>>

\* A success or failure below has the rules applied once more.
ChildrenTicked ==
  /\ pc = "loop"
  /\ Top.i > Len(node[Top.inst].children)
  /\ IF Top.child \in {"SuccessChange", "FailChange"}
     THEN StartVisit(Top.inst, "again") /\ UNCHANGED <<stack>>
     ELSE Leave(Top.my) /\ UNCHANGED v
  /\ UNCHANGED <<node, root, pool, fpEvents>>

SecondVisitReturns ==
  /\ pc = "return" /\ v.caller = "again"
  /\ Leave(UpdateChange(Top.my, v.ms))
  /\ v' = NoVisit
  /\ UNCHANGED <<node, root, pool, fpEvents>>

-------------------------------------------------------------------------------
(* PlanBase::run *)

InitialisationRule ==
  /\ pc = "idle" /\ root = None
  /\ root' = Fresh(node)
  /\ node' = [node EXCEPT ![root'] =
                [NewNode(Master, None, CHOOSE s \in EntryStates[Master] : TRUE)
                   EXCEPT !.allocationNeeded = TRUE]]
  /\ stack' = <<Enter(root')>>
  /\ StartVisit(root', "tick")
  /\ UNCHANGED <<pool, fpEvents>>

BeginIteration ==
  /\ pc = "idle" /\ root # None
  /\ stack' = <<Enter(root)>>
  /\ StartVisit(root, "tick")
  /\ UNCHANGED <<node, root, pool, fpEvents>>

\* isBehaviourRunningInContext
RunningInContext(i) ==
  LET b == pool[node[i].type]
  IN  \/ b.contextInRun = i
      \/ b.contextInRun = None /\ b.context = i /\ b.running

\* Mutant: a retired plan goes though its behaviour runs.
DeleteableAtOnce(i) == \A j \in Below(Tree, {i}) : IsRetired(j)

\* isDeleteable, children being deleted first: they are newer than their parent
\* and deregister from it.
IsDeleteable(i) ==
  \A j \in Below(Tree, {i}) :
    IsRetired(j) /\ (IsBehaviour(j) => ~ RunningInContext(j))

\* The elements of s that are not in S.
Without(s, S) ==
  LET kept[k \in 0..Len(s)] ==
        IF k = 0 THEN << >>
        ELSE IF s[k] \in S THEN kept[k - 1] ELSE Append(kept[k - 1], s[k])
  IN  kept[Len(s)]

\* The loop that deletes plans.  It is one step: a behaviour's thread only ever
\* leaves the context of a retired plan, which leaves more to be deleted, so
\* what it does between two plans may as well be done before or after all.
DeletePlans ==
  /\ pc = "sweep"
  /\ LET gone == {i \in Insts : IsDeleteable(i)}
     IN  node' = [i \in Insts |->
                    IF i \in gone THEN FreeNode
                    ELSE [node[i] EXCEPT !.children = Without(@, gone)]]
  /\ pc' = "clear"
  /\ UNCHANGED <<root, pool, fpEvents, stack, v>>

ClearEvents ==
  /\ pc = "clear"
  /\ fpEvents' = {}
  /\ pc' = "wait"
  /\ UNCHANGED <<node, root, pool, stack, v>>

\* An event wakes the engine before the iteration's time is over.
FastPath ==
  /\ pc = "wait" /\ fpEvents # {}
  /\ pc' = "fast"
  /\ UNCHANGED <<node, root, pool, fpEvents, stack, v>>

\* rp->isActive()
Visitable(i) == IsActive(i)

FastPathEvent ==
  /\ pc = "fast"
  /\ \E i \in fpEvents :
       /\ fpEvents' = fpEvents \ {i}
       /\ IF Visitable(i) THEN StartVisit(i, "fastFirst") ELSE UNCHANGED <<pc, v>>
  /\ UNCHANGED <<node, root, pool, stack>>

\* From the plan that asked upwards, as long as something changes.
FastVisitReturns ==
  /\ pc = "return" /\ v.caller \in {"fastFirst", "fast"}
  /\ IF node[r].parent = None \/ (v.caller = "fast" /\ v.ms = "NoChange")
     THEN pc' = "fast" /\ v' = NoVisit
     ELSE StartVisit(node[r].parent, "fast")
  /\ UNCHANGED <<node, root, pool, fpEvents, stack>>

EndIteration ==
  /\ pc \in {"wait", "fast"}
  /\ pc' = "idle"
  /\ UNCHANGED <<node, root, pool, fpEvents, stack, v>>

EngineNext ==
  \/ InitialisationRule \/ BeginIteration
  \/ VisitNext
  \/ FirstVisitReturns \/ TickChild \/ ChildrenTicked \/ SecondVisitReturns
  \/ DeletePlans \/ ClearEvents
  \/ FastPath \/ FastPathEvent \/ FastVisitReturns \/ EndIteration

-------------------------------------------------------------------------------
(* The threads of the behaviours *)

\* The head of the run loop takes the context the behaviour runs in; an
\* event-driven behaviour first waits for its trigger, in no context.
LoopHead(b) ==
  /\ \E c \in {None, pool[b].context} :
       /\ c # None => pool[b].running
       /\ c = None => ~ pool[b].running \/ b \in EventDriven
       /\ b \in EventDriven => (c = None <=> pool[b].contextInRun # None)
       /\ c # pool[b].contextInRun
       /\ pool' = [pool EXCEPT ![b].contextInRun = c]
  /\ UNCHANGED <<node, root, fpEvents, pc, stack, v>>

\* PlanBase::run holds _lomutex while it works on the events.
FastPathLocked ==
  \/ pc = "fast"
  \/ pc \in {"visit", "return"} /\ v.caller \in {"fastFirst", "fast"}

\* setSuccess, setFailure: run() asks for a visit of the behaviour's context.
RaiseEvent(b) ==
  /\ pool[b].contextInRun # None
  /\ ~ FastPathLocked
  /\ fpEvents' = fpEvents \cup {pool[b].context}
  /\ UNCHANGED <<node, root, pool, pc, stack, v>>

-------------------------------------------------------------------------------
Init ==
  /\ node = [i \in Insts |-> FreeNode]
  /\ root = None
  /\ pool = [b \in Behaviours |->
               [context |-> None, running |-> FALSE, contextInRun |-> None]]
  /\ fpEvents = {}
  /\ pc = "idle"
  /\ stack = << >>
  /\ v = NoVisit

Next == EngineNext \/ \E b \in Behaviours : LoopHead(b) \/ RaiseEvent(b)

Spec == Init /\ [][Next]_vars

\* The engine thread runs, and a behaviour's run() returns to the loop.
Fairness == WF_vars(EngineNext) /\ \A b \in Behaviours : WF_vars(LoopHead(b))

FairSpec == Spec /\ Fairness
===============================================================================
