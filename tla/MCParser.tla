-------------------------------- MODULE MCParser --------------------------------
(***************************************************************************)
(* A master plan, a sub plan, a behaviour, tasks and roles, and mistakes    *)
(* that can be made in them.                                                *)
(***************************************************************************)
EXTENDS ParserProperties

El(kind, id, of)    == Element(kind, id, of)
Rf(tag, of, id, f)  == Reference(tag, of, id, f)
If(c, s)            == IF c THEN s ELSE << >>

PlanFileNames == {"M", "P", "B", "T", "Y", "L", "R", "D", "C"}

FileKinds == [M |-> "Plan", P |-> "Plan", B |-> "Behaviour", T |-> "TaskRepository",
              Y |-> "PlanType", L |-> "PlanningProblem",
              R |-> "RoleSet", D |-> "RoleDefinitionSet", C |-> "CapabilityDefinitionSet"]

\* start: the initial state of the second entry point; unused: no state has the
\* transition 5; wrong: a state claims a transition that leads elsewhere.
MasterPlan(start, unused, wrong, tasked, post) ==
  <<El("Plan", 1, 0),
    El("EntryPoint", 2, 1), Rf("task", 2, 51, "T"), Rf("state", 2, 3, "here"),
    El("EntryPoint", 9, 1)>> \o If(tasked, <<Rf("task", 9, 52, "T")>>) \o <<Rf("state", 9, start, "here"),
    El("State", 3, 1)>> \o If(~unused, <<Rf("outTransitions", 3, 5, "here")>>)
       \o <<Rf("plans", 3, 11, "P"), El("Parametrisation", 17, 3), Rf("subplan", 17, 11, "P"),
    Rf("subvar", 17, 18, "P"), Rf("var", 17, 8, "here"),
    El("SuccessState", 4, 1), Rf("inTransitions", 4, 5, "here"),
    El("State", 10, 1), Rf("plans", 10, 31, "B"), Rf("outTransitions", 10, 6, "here")>>
       \o If(wrong, <<Rf("inTransitions", 10, 6, "here")>>) \o
  <<El("Transition", 5, 1), El("PreCondition", 7, 5), Rf("vars", 7, 8, "here"), El("Parameter", 21, 7),
    Rf("outState", 5, 4, "here"), Rf("synchronisation", 5, 16, "here"),
    El("Transition", 6, 1), Rf("outState", 6, 3, "here"),
    El("RuntimeCondition", 19, 1), El("Quantifier", 20, 19), Rf("scope", 20, 1, "here"),
    El("Variable", 8, 1), El("SyncTransition", 16, 1)>> \o If(post, <<El("PostCondition", 22, 1)>>)

\* sub: plans that the state of the sub plan names as its own.
SubPlan(sub) ==
  <<El("Plan", 11, 0), El("EntryPoint", 12, 11), Rf("task", 12, 51, "T"), Rf("state", 12, 13, "here"),
    El("Variable", 18, 11), El("FailureState", 14, 11), El("PostCondition", 15, 14),
    El("State", 13, 11), Rf("plans", 13, 31, "B")>>
    \o (CASE sub = "none" -> << >>
          [] sub = "M" -> <<Rf("plans", 13, 1, "M")>>
          [] sub = "P" -> <<Rf("plans", 13, 11, "P")>>
          [] sub = "Y" -> <<Rf("plans", 13, 41, "Y"), Rf("plans", 13, 45, "L")>>
          [] sub = "gone" -> <<Rf("plans", 13, 99, "here")>>)

\* The identifier of the configuration is 31, or that of a state.
BehaviourFile(id) == <<El("Behaviour", 30, 0), El("BehaviourConfiguration", id, 30), El("Variable", 32, id)>>

\* The identifier of the second task is 52, or that of a state.
TaskFile(id) == <<El("TaskRepository", 50, 0), El("Task", 51, 50), El("Task", id, 50)>>

PlanTypeFile == <<El("PlanType", 41, 0), Rf("plans", 41, 11, "P")>>

ProblemFile ==
  <<El("PlanningProblem", 45, 0), Rf("plans", 45, 11, "P"), El("PreCondition", 46, 45),
    Rf("waitPlan", 45, 1, "M"), Rf("alternativePlan", 45, 11, "P")>>

RoleSetFile == <<El("RoleSet", 60, 0), El("RoleTaskMapping", 61, 60), Rf("role", 61, 71, "D")>>

RoleDefinitions(cap) ==
  <<El("RoleDefinitionSet", 70, 0), El("Role", 71, 70), El("Characteristic", 72, 71),
    Rf("capability", 72, cap, "C"), Rf("value", 72, 82, "C")>>

Capabilities == <<El("CapabilityDefinitionSet", 80, 0), El("Capability", 81, 80), El("CapValue", 82, 81)>>

\* Mistakes of the kinds m exclude each other, to keep the number of projects low.
MCProjects ==
  {[content |-> [f \in PlanFileNames \ lost |->
      CASE f = "M" -> MasterPlan(start, unused, m = "wrong", m # "taskless", m = "post")
        [] f = "P" -> SubPlan(sub)
        [] f = "B" -> BehaviourFile(IF m = "configuration" THEN 3 ELSE 31)
        [] f = "T" -> TaskFile(IF m = "double" THEN 10 ELSE 52)
        [] f = "Y" -> PlanTypeFile
        [] f = "L" -> ProblemFile
        [] f = "R" -> RoleSetFile
        [] f = "D" -> RoleDefinitions(IF m = "capability" THEN 82 ELSE 81)
        [] f = "C" -> Capabilities],
    fits |-> m # "unfit"] :
     start \in {4, 10}, unused \in BOOLEAN, 
     sub \in {"none", "M", "P", "Y", "gone"},
     lost \in {{}, {"P"}, {"T"}, {"C"}, {"R"}},
     m \in {"none", "wrong", "taskless", "configuration", "double", "capability", "unfit", "post"}}
================================================================================
