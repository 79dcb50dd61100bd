------------------------------- MODULE PlanParser -------------------------------
(***************************************************************************)
(* PlanParser and ModelFactory: reading the plans and roles of a team.      *)
(*                                                                         *)
(* Files are read one by one from a queue; a reference that names a file   *)
(* queues it.  Elements are created at once, references are collected and  *)
(* attached when the queue is empty.  PlanNodes has the form of a file.     *)
(*                                                                         *)
(* A reference to something that is not there, or is of another class, is   *)
(* followed unchecked: what happens then is undefined and ends the model.   *)
(***************************************************************************)
EXTENDS Naturals, FiniteSets, Sequences, SequencesExt, PlanNodes

CONSTANTS Files, Extension, MasterFile, RoleFile, Projects

VARIABLES
  disk,         \* the files; they do not change
  phase,        \* how far the engine's constructor is
  filesToParse, \* the queue
  filesParsed,  \* files read, in order
  elements,     \* elements[id]: [kind, of, file], ModelFactory::elements
  pending,      \* pending[l]: references of the list l to attach: <<from, to>>
  attached,     \* attached[l]: those that are attached
  transitions,  \* the transitions in the lists of their plans
  entryPoint,   \* entryPoint[s]: the entry point of the state s
  toReach,      \* entry points whose reachable states are to be computed
  written       \* the plans have been written by PlanWriter and are read again

vars == <<disk, phase, filesToParse, filesParsed, elements, pending, attached,
          transitions, entryPoint, toReach, written>>

PF == INSTANCE PlanFiles WITH outcome <- << >>

ASSUME FilesAssumption ==
  /\ IsFiniteSet(Files)
  /\ MasterFile \in Files
  /\ RoleFile \in Files
  /\ Here \notin Files

Phases == {"start", "plans", "reach", "roles", "verify", "done", "aborted", "undefined"}

-------------------------------------------------------------------------------
(* What the create functions accept: children they create elements of, and  *)
(* the list in which a child that refers to an element is kept.             *)

Creator(children, lists) == [children |-> children, lists |-> lists]

Nothing == << >>

\* Tasks and values of capabilities; their children are not looked at.
Leaf == Creator({}, Nothing)

createPlan == Creator({"EntryPoint", "State", "SuccessState", "FailureState", "Transition",
  "RuntimeCondition", "PreCondition", "PostCondition", "Variable", "SyncTransition"}, Nothing)
createEntryPoint == Creator({}, [state |-> "epState", task |-> "epTask"])
createState == Creator({"Parametrisation"},
  [inTransitions |-> "stateInTransition", outTransitions |-> "stateOutTransition", plans |-> "statePlan"])
createSuccessState == Creator({"PostCondition"}, [inTransitions |-> "stateInTransition"])
createFailureState == Creator({"PostCondition"}, [inTransitions |-> "stateInTransition"])
createTransition == Creator({"PreCondition"},
  [inState |-> "ignored", outState |-> "transitionAim", synchronisation |-> "transitionSynch"])
createSyncTransition == Creator({}, Nothing)
createRuntimeCondition == Creator({"Quantifier", "Parameter"}, [vars |-> "conditionVar"])
createPreCondition == Creator({"Quantifier", "Parameter"}, [vars |-> "conditionVar"])
createPostCondition == Creator({}, Nothing)
createVariable == Creator({}, Nothing)
createParameter == Creator({}, Nothing)
createQuantifier == Creator({}, [scope |-> "quantifierScope"])
createParametrisation == Creator({},
  [subplan |-> "paramSubPlan", subvar |-> "paramSubVar", var |-> "paramVar"])
createBehaviour == Creator({"BehaviourConfiguration"}, Nothing)
createBehaviourConfiguration == Creator({"Variable"}, Nothing)
createPlanType == Creator({"Variable", "Parametrisation"}, [plans |-> "planTypePlan"])
createTasks == Creator({"Task"}, Nothing)
createPlanningProblem == Creator({"PostCondition", "PreCondition", "RuntimeCondition"},
  [plans |-> "planningProblemPlan", waitPlan |-> "planningProblemPlanWait",
   alternativePlan |-> "planningProblemPlanAlternative"])
createRoleSet == Creator({"RoleTaskMapping"}, Nothing)
createRoleTaskMapping == Creator({}, [role |-> "rtmRole"])
createRoleDefinitionSet == Creator({"Role"}, Nothing)
createRole == Creator({"Characteristic"}, Nothing)
createCharacteristic == Creator({}, [capability |-> "charCap", value |-> "charCapVal"])
createCapabilityDefinitionSet == Creator({"Capability"}, Nothing)
createCapability == Creator({"CapValue"}, Nothing)

Creators == [
  Plan |-> createPlan, EntryPoint |-> createEntryPoint, State |-> createState,
  SuccessState |-> createSuccessState, FailureState |-> createFailureState,
  Transition |-> createTransition, SyncTransition |-> createSyncTransition,
  RuntimeCondition |-> createRuntimeCondition, PreCondition |-> createPreCondition,
  PostCondition |-> createPostCondition, Variable |-> createVariable,
  Parameter |-> createParameter, Quantifier |-> createQuantifier,
  Parametrisation |-> createParametrisation, Behaviour |-> createBehaviour,
  BehaviourConfiguration |-> createBehaviourConfiguration, PlanType |-> createPlanType,
  TaskRepository |-> createTasks, Task |-> Leaf, PlanningProblem |-> createPlanningProblem,
  RoleSet |-> createRoleSet, RoleTaskMapping |-> createRoleTaskMapping,
  RoleDefinitionSet |-> createRoleDefinitionSet, Role |-> createRole,
  Characteristic |-> createCharacteristic, CapValue |-> Leaf,
  CapabilityDefinitionSet |-> createCapabilityDefinitionSet, Capability |-> createCapability]

\* References of plans are attached when all plan files are read, those of roles
\* when all role files are.
PlanLists == <<"epTask", "transitionAim", "epState", "stateInTransition", "stateOutTransition",
  "statePlan", "planTypePlan", "conditionVar", "paramSubPlan", "paramSubVar", "paramVar",
  "transitionSynch", "planningProblemPlan", "planningProblemPlanWait",
  "planningProblemPlanAlternative", "quantifierScope">>
RoleLists == <<"rtmRole", "charCap", "charCapVal">>

Lists == Range(PlanLists \o RoleLists)

-------------------------------------------------------------------------------
(* Reading one file.                                                        *)

Exists == DOMAIN disk.content
NodesOf(f) == Range(disk.content[f])

ParentKind(f, n) ==
  (CHOOSE e \in NodesOf(f) : e.what = "element" /\ e.id = n.of).kind

\* Mutant: only the queue is searched.
FetchUnlessQueued(queue, f) ==
  IF f = Here \/ (f \in Exists /\ f \in Range(queue)) THEN queue ELSE Append(queue, f)

\* A file that is parsed, or in the queue, is not queued again.
FetchId(queue, f) ==
  IF f = Here \/ (f \in Exists /\ f \in Range(filesParsed) \cup Range(queue))
    THEN queue
    ELSE Append(queue, f)

\* What the create function of the parent does with a node.
Accepted(f, n) ==
  n.of # NoElement =>
    LET creator == Creators[ParentKind(f, n)]
    IN n.kind \in IF n.what = "element" THEN creator.children ELSE DOMAIN creator.lists

\* A transition's inState is known and fetched, but kept in no list.
ListOf(f, n) == Creators[ParentKind(f, n)].lists[n.kind]

\* The first node of an identifier creates its element.
Creates(f, i) ==
  LET nodes == disk.content[f]
  IN /\ nodes[i].what = "element"
     /\ nodes[i].id \notin DOMAIN elements
     /\ \A j \in 1..(i - 1) : nodes[j].what = "element" => nodes[j].id # nodes[i].id

\* Double identifiers abort; those of configurations are inserted unchecked.
AddElements(f) ==
  LET nodes   == disk.content[f]
      created == {i \in DOMAIN nodes : Creates(f, i)}
      At(id)  == nodes[CHOOSE i \in created : nodes[i].id = id]
  IN elements @@ [id \in {nodes[i].id : i \in created} |->
                    [kind |-> At(id).kind, of |-> At(id).of, file |-> f]]

AddReferences(f) ==
  [l \in Lists |->
     LET refs == SelectSeq(disk.content[f], LAMBDA n : n.what = "reference" /\ ListOf(f, n) = l)
     IN pending[l] \o [i \in DOMAIN refs |-> <<refs[i].of, refs[i].id>>]]

FetchReferences(f, queue) ==
  LET foreign == SelectSeq(disk.content[f], LAMBDA n : n.what = "reference" /\ n.file # Here)
      fetched[i \in 0..Len(foreign)] ==
        IF i = 0 THEN queue ELSE FetchId(fetched[i - 1], foreign[i].file)
  IN fetched[Len(foreign)]

ReadWell(f) ==
  \A i \in DOMAIN disk.content[f] :
    LET n == disk.content[f][i]
    IN /\ Accepted(f, n)
       /\ n.what = "element" => Creates(f, i) \/ n.kind = "BehaviourConfiguration"

Stop(how) ==
  /\ phase' = how
  /\ UNCHANGED <<disk, filesToParse, filesParsed, elements, pending, attached,
                 transitions, entryPoint, toReach, written>>

\* readable: what is tested before the file is opened.
Read(f, readable, queue, next) ==
  \/ /\ ~ (readable /\ ReadWell(f))
     /\ Stop("aborted")
  \/ /\ readable /\ ReadWell(f)
     /\ phase' = next
     /\ elements' = AddElements(f)
     /\ pending' = AddReferences(f)
     /\ filesToParse' = FetchReferences(f, queue)
     /\ filesParsed' = Append(filesParsed, f)
     /\ transitions' = transitions \cup
          {id \in DOMAIN elements' \ DOMAIN elements : elements'[id].kind = "Transition"}
     /\ UNCHANGED <<disk, attached, entryPoint, toReach, written>>

-------------------------------------------------------------------------------
(* Attaching references.                                                    *)

\* The classes the target is cast to.
Cast(list) ==
  CASE list = "epTask" -> {"Task"}
    [] list \in {"transitionAim", "epState"} -> {"State", "SuccessState", "FailureState"}
    [] list \in {"stateInTransition", "stateOutTransition"} -> {"Transition"}
    [] list \in {"statePlan", "paramSubPlan", "planningProblemPlan"} ->
         {"Plan", "PlanType", "BehaviourConfiguration", "PlanningProblem"}
    [] list \in {"planTypePlan", "planningProblemPlanWait", "planningProblemPlanAlternative"} -> {"Plan"}
    [] list \in {"conditionVar", "paramSubVar", "paramVar"} -> {"Variable"}
    [] list = "transitionSynch" -> {"SyncTransition"}
    [] list = "quantifierScope" -> DOMAIN Creators
    [] list = "rtmRole" -> {"Role"}
    [] list = "charCap" -> {"Capability"}
    [] list = "charCapVal" -> {"CapValue"}

\* The references of some lists, in the order they are attached in.
Waiting(lists) ==
  FlattenSeq([i \in DOMAIN lists |->
    [j \in DOMAIN pending[lists[i]] |-> <<lists[i], pending[lists[i]][j][1], pending[lists[i]][j][2]>>]])

Resolves(ref) == ref[3] \in DOMAIN elements /\ elements[ref[3]].kind \in Cast(ref[1])

\* setOutState, the last one counts.
OutState(t, links) ==
  LET aims == SelectSeq(links, LAMBDA ref : ref[1] = "transitionAim" /\ ref[2] = t)
  IN IF aims = << >> THEN NoElement ELSE Last(aims)[3]

LeadsElsewhere(ref, links) ==
  ref[1] = "stateInTransition" /\ ref[2] # OutState(ref[3], links)

\* References of states to incoming transitions are only compared.  The first
\* reference that cannot be attached, if any.
FirstBad(links) ==
  SelectInSeq(links, LAMBDA ref : ~ Resolves(ref) \/ LeadsElsewhere(ref, links))

Attached(lists, links, next) ==
  /\ phase' = next
  /\ attached' = attached \cup {ref \in Range(links) : ref[1] # "stateInTransition"}
  /\ pending' = [l \in Lists |-> IF l \in Range(lists) THEN << >> ELSE pending[l]]
  /\ UNCHANGED <<disk, filesToParse, filesParsed, elements, entryPoint, written>>

Unattached(ref) == Stop(IF Resolves(ref) THEN "aborted" ELSE "undefined")

-------------------------------------------------------------------------------
(* Reachable states.                                                        *)

Successors(S) ==
  {a[3] : a \in {a \in attached : a[1] = "transitionAim"
     /\ \E o \in attached : o[1] = "stateOutTransition" /\ o[2] \in S /\ o[3] = a[2]}}

\* EntryPoint::computeReachabilitySet
ReachableStates(ep) ==
  LET states == {id \in DOMAIN elements : elements[id].kind \in PF!Wanted("state")}
      reached[i \in 0..Cardinality(states)] ==
        IF i = 0 THEN {a[3] : a \in {a \in attached : a[1] = "epState" /\ a[2] = ep}}
                 ELSE LET S == reached[i - 1] IN S \cup Successors(S)
  IN reached[Cardinality(states)]

-------------------------------------------------------------------------------
(* The engine's constructor.                                                *)

Init ==
  /\ disk \in Projects
  /\ phase = "start"
  /\ filesToParse = << >>
  /\ filesParsed = << >>
  /\ elements = << >>
  /\ pending = [l \in Lists |-> << >>]
  /\ attached = {}
  /\ transitions = {}
  /\ entryPoint = << >>
  /\ toReach = {}
  /\ written = << >>

ParsePlanTree ==
  /\ phase = "start"
  /\ Read(MasterFile, MasterFile \in Exists, << >>, "plans")

ParseFileLoop ==
  /\ phase = "plans"
  /\ filesToParse # << >>
  /\ LET f == Head(filesToParse)
     IN Read(f, f \in Exists /\ Extension[f] \in PF!PlanKinds, Tail(filesToParse), "plans")

\* Mutant: transitions that lead nowhere are removed instead.
RemoveAimless ==
  transitions' = {t \in transitions : \E a \in attached' : a[1] = "transitionAim" /\ a[2] = t}

\* Transitions that no state has as its own are removed from their plans, not
\* from the synchronisations and states they are attached to.
RemoveRedundancy ==
  transitions' = {t \in transitions : \E a \in attached' : a[1] = "stateOutTransition" /\ a[3] = t}

AttachPlanReferences ==
  /\ phase = "plans"
  /\ filesToParse = << >>
  /\ \E links \in {Waiting(PlanLists)} : \E bad \in {FirstBad(links)} :
       \/ /\ bad # 0
          /\ Unattached(links[bad])
       \/ /\ bad = 0
          /\ Attached(PlanLists, links, "reach")
          /\ RemoveRedundancy
          /\ toReach' = {id \in DOMAIN elements : elements[id].kind = "EntryPoint"}

\* The entry points are taken in the order of a hash table.
ComputeReachabilities(ep) ==
  /\ phase = "reach"
  /\ ep \in toReach
  /\ toReach' = toReach \ {ep}
  /\ entryPoint' = [s \in ReachableStates(ep) |-> ep] @@ entryPoint
  /\ UNCHANGED <<disk, phase, filesToParse, filesParsed, elements, pending, attached,
                 transitions, written>>

\* The role set is used if it is the default one or made for the master plan.
ParseRoleSet ==
  /\ phase = "reach"
  /\ toReach = {}
  /\ Read(RoleFile, RoleFile \in Exists /\ disk.fits, << >>, "roles")

ParseRoleFiles ==
  /\ phase = "roles"
  /\ filesToParse # << >>
  /\ LET f == Head(filesToParse)
     IN Read(f, f \in Exists /\ Extension[f] \in PF!RoleKinds, Tail(filesToParse), "roles")

AttachRoleReferences ==
  /\ phase = "roles"
  /\ filesToParse = << >>
  /\ \E links \in {Waiting(RoleLists)} : \E bad \in {FirstBad(links)} :
       \/ /\ bad # 0
          /\ Unattached(links[bad])
       \/ /\ bad = 0
          /\ Attached(RoleLists, links, "verify")
          /\ UNCHANGED <<transitions, toReach>>

\* Every entry point has a task; the other tests of the function cannot fail or
\* their result is not used.
VerifyPlanBase ==
  /\ phase = "verify"
  /\ phase' = IF \A id \in DOMAIN elements : elements[id].kind = "EntryPoint" =>
                     \E a \in attached : a[1] = "epTask" /\ a[2] = id
                THEN "done" ELSE "aborted"
  /\ UNCHANGED <<disk, filesToParse, filesParsed, elements, pending, attached,
                 transitions, entryPoint, toReach, written>>

-------------------------------------------------------------------------------
(* PlanWriter: each plan is written to a temporary directory, as its test   *)
(* does, and the files take the place of the ones that were read.  All      *)
(* files lie in the plan directory and none begins with a letter of "tmp/": *)
(* the characters that getRelativeFileName cuts off are the directory's.    *)

Sorted(ids) == SetToSortSeq(ids, <)

ChildrenOf(id, kinds) == {c \in DOMAIN elements : elements[c].of = id /\ elements[c].kind \in kinds}
Targets(list, id) == {a[3] : a \in {a \in attached : a[1] = list /\ a[2] = id}}

\* The nodes for some identifiers, one after the other.
InOrder(nodes) ==
  LET seq == Sorted(DOMAIN nodes) IN FlattenSeq([i \in DOMAIN seq |-> nodes[seq[i]]])

Write(id) == <<Element(elements[id].kind, id, elements[id].of)>>

RelativeFileName(id) == elements[id].file

\* References by locator, and within the file.
Refer(tag, id, ids)     == InOrder([to \in ids |-> <<Reference(tag, id, to, RelativeFileName(to))>>])
ReferHere(tag, id, ids) == InOrder([to \in ids |-> <<Reference(tag, id, to, Here)>>])

\* Parameters are read and written without references.
AddConditionChildren(c) ==
  InOrder([q \in ChildrenOf(c, {"Quantifier"}) |->
             Write(q) \o ReferHere("scope", q, Targets("quantifierScope", q))])
  \o InOrder([p \in ChildrenOf(c, {"Parameter"}) |-> Write(p)])
  \o ReferHere("vars", c, Targets("conditionVar", c))

WriteCondition(c) == Write(c) \o AddConditionChildren(c)

\* The type of a plan's post condition is spelt so that createPlan rejects it.
WritePostCondition(c) ==
  <<Element("postCondition", c, elements[c].of)>> \o AddConditionChildren(c)

WriteParametrisation(p) ==
  Write(p) \o Refer("subplan", p, Targets("paramSubPlan", p))
    \o InOrder([v \in Targets("paramSubVar", p) |-> InOrder([ap \in Targets("paramSubPlan", p) |->
         <<Reference("subvar", p, v, RelativeFileName(ap))>>])])
    \o ReferHere("var", p, Targets("paramVar", p))

\* Incoming transitions include those that have been removed from the plan.
InTransitions(s) == {a[2] : a \in {a \in attached : a[1] = "transitionAim" /\ a[3] = s}}

WriteState(s) ==
  Write(s)
    \o InOrder([c \in ChildrenOf(s, {"Parametrisation"}) |-> WriteParametrisation(c)])
    \o Refer("plans", s, Targets("statePlan", s))
    \o ReferHere("inTransitions", s, InTransitions(s))
    \o ReferHere("outTransitions", s, Targets("stateOutTransition", s))
    \o InOrder([c \in ChildrenOf(s, {"PostCondition"}) |-> WriteCondition(c)])

InState(t) == {a[2] : a \in {a \in attached : a[1] = "stateOutTransition" /\ a[3] = t}}

\* Mutant: the synchronisation is left out.
WriteUnsynchronised(t) ==
  Write(t)
    \o InOrder([c \in ChildrenOf(t, {"PreCondition"}) |-> WriteCondition(c)])
    \o ReferHere("inState", t, InState(t))
    \o ReferHere("outState", t, Targets("transitionAim", t))

WriteTransition(t) ==
  Write(t)
    \o InOrder([c \in ChildrenOf(t, {"PreCondition"}) |-> WriteCondition(c)])
    \o ReferHere("inState", t, InState(t))
    \o ReferHere("outState", t, Targets("transitionAim", t))
    \o ReferHere("synchronisation", t, Targets("transitionSynch", t))

WriteEntryPoint(e) ==
  Write(e) \o Refer("task", e, Targets("epTask", e)) \o ReferHere("state", e, Targets("epState", e))

WritePlan(p) ==
  Write(p)
    \o InOrder([c \in ChildrenOf(p, {"PreCondition", "RuntimeCondition"}) |-> WriteCondition(c)])
    \o InOrder([c \in ChildrenOf(p, {"PostCondition"}) |-> WritePostCondition(c)])
    \o InOrder([c \in ChildrenOf(p, {"Variable"}) |-> Write(c)])
    \o InOrder([c \in ChildrenOf(p, PF!Wanted("state")) |-> WriteState(c)])
    \o InOrder([c \in ChildrenOf(p, {"Transition"}) \cap transitions |-> WriteTransition(c)])
    \o InOrder([c \in ChildrenOf(p, {"SyncTransition"}) |-> Write(c)])
    \o InOrder([c \in ChildrenOf(p, {"EntryPoint"}) |-> WriteEntryPoint(c)])

PlansIn(f) == {p \in DOMAIN elements : elements[p].kind = "Plan" /\ elements[p].file = f}

SavePlans ==
  /\ phase = "done"
  /\ written = << >>
  /\ written' = <<elements, attached, transitions>>
  /\ disk' = [disk EXCEPT !.content = [f \in Exists |->
       IF PlansIn(f) = {} THEN disk.content[f] ELSE InOrder([c \in PlansIn(f) |-> WritePlan(c)])]]
  /\ phase' = "start"
  /\ filesToParse' = << >>
  /\ filesParsed' = << >>
  /\ elements' = << >>
  /\ attached' = {}
  /\ transitions' = {}
  /\ entryPoint' = << >>
  /\ UNCHANGED <<pending, toReach>>

Next ==
  \/ ParsePlanTree
  \/ ParseFileLoop
  \/ AttachPlanReferences
  \/ \E ep \in toReach : ComputeReachabilities(ep)
  \/ ParseRoleSet
  \/ ParseRoleFiles
  \/ AttachRoleReferences
  \/ VerifyPlanBase
  \/ SavePlans

Spec == Init /\ [][Next]_vars
================================================================================
