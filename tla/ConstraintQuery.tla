------------------------------ MODULE ConstraintQuery ------------------------------
(***************************************************************************)
(* A behaviour asks for a solution of the constraints of the plans above it: *)
(* Query.cpp, with the condition stores of the running plans                *)
(* (ConditionStore.cpp), the unifications of variables (UniqueVarStore.cpp), *)
(* the problem parts (ProblemPart.cpp) and the quantifiers over agents       *)
(* (ForallAgents.cpp).  The query runs on the thread of the behaviour and    *)
(* climbs the path from the behaviour, level 1, to the root, level Top,       *)
(* holding the lock of one plan at a time, while the engine thread moves,     *)
(* adapts and takes apart the plans of that path.                            *)
(*                                                                          *)
(* The vectors of variables are sets here: the order in which variables are  *)
(* taken from them, and groups lie in the store, is left open.               *)
(***************************************************************************)
EXTENDS Integers, FiniteSets, Sequences, SequencesExt

CONSTANTS
  Top,          \* levels of the path
  Vars,         \* the static variables of all plans on it
  Conds,        \* the conditions of these plans
  States,       \* state names; those of different levels are unrelated
  Agents, Me,   \* the team and the agent itself
  CondVars,     \* [Conds -> SUBSET Vars], the static variables of a condition
  Quantifiers,  \* [Conds -> sets of [vars : SUBSET Vars, scope : SUBSET States]]
  PlanConds,    \* [Levels -> SUBSET Conds], pre- and runtime condition of the plan
  MoveConds,    \* [Levels -> [States -> SUBSET Conds]], of the transition to a state
  TypeBinding,  \* [Levels -> sets of pairs or NoType], variable of the plan and of its type
  StateBinding, \* [Levels -> [States -> sets of pairs]], variable of the child and of the plan
  NoType,
  Questions,    \* the queries asked: [static : SUBSET Vars, domain : SUBSET DomainVars]
  MaxQueries,   \* bound of the queries
  MaxChanges    \* bound of the changes the engine makes

Levels     == 1..Top
Away       == "away"                 \* not assigned in the plan
DomainVars == Agents \X Vars         \* an agent's own copy of a template variable

ASSUME PathAssumption == Top \in Nat \ {0} /\ Me \in Agents
ASSUME ConditionAssumption ==
  /\ IsFiniteSet(Conds)
  /\ CondVars \in [Conds -> SUBSET Vars]
  /\ PlanConds \in [Levels -> SUBSET Conds]
  /\ \A l \in Levels : \A s \in States : MoveConds[l][s] \subseteq Conds
  /\ Away \notin States
  /\ \A c \in Conds : \A q \in Quantifiers[c] : q.vars \subseteq Vars
ASSUME BindingAssumption ==
  /\ IsFiniteSet(Vars)
  /\ \A l \in Levels : TypeBinding[l] # NoType => TypeBinding[l] \subseteq Vars \X Vars
  /\ \A l \in Levels : \A s \in States : StateBinding[l][s] \subseteq Vars \X Vars
ASSUME QuestionAssumption ==
  /\ \A ask \in Questions : ask.static \subseteq Vars /\ ask.domain \subseteq DomainVars
  /\ MaxQueries \in Nat /\ MaxChanges \in Nat

VARIABLES
  conditions,   \* [Levels -> SUBSET Conds], _activeConditions of the plans
  place,        \* [Levels -> [Agents -> state]], the assignments
  parent,       \* the levels whose plan has the next one as its parent
  engine,       \* what the engine thread is doing
  changes,      \* changes made so far
  query,        \* the Query object
  queries,      \* queries asked so far
  quiet         \* the engine left the path alone since the query was asked

tree == <<conditions, place, parent>>
vars == <<conditions, place, parent, engine, changes, query, queries, quiet>>

-------------------------------------------------------------------------------
(* Data *)

TemplateVars(c) == UNION {q.vars : q \in Quantifiers[c]}

\* The entries of a store's _activeVar2CondMap for a variable.
ActiveUnder(l, v) == {c \in conditions[l] : v \in CondVars[c] \cup TemplateVars(c)}

\* ForallAgents: the agents of the plan, entry point or state that is the scope.
AgentsInScope(q, l) == {a \in Agents : place[l][a] \in q.scope}

DomainVarsOf(c, l) == UNION {AgentsInScope(q, l) \X q.vars : q \in Quantifiers[c]}

\* A plan is in the tree when its ancestors up to the root are.
InTree(l) == \A k \in l..(Top - 1) : k \in parent

Idle == [stage |-> "idle", level |-> 1, state |-> Away, locked |-> FALSE]

Blank == [static |-> {}, domain |-> {}, pc |-> "idle", level |-> 1, cur |-> {},
          next |-> {}, dcur |-> {}, dnext |-> {}, unified |-> {}, parts |-> {},
          before |-> {}]

Ended == {"idle", "empty", "solved"}

\* The lock of the query's current plan, and the mutex of that plan's store.
HoldsPlan(l)  == query.pc \in {"accept", "take", "type", "state", "up"} /\ query.level = l
HoldsStore(l) == query.pc = "take" /\ query.level = l

-------------------------------------------------------------------------------
(* UniqueVarStore *)

Known(groups, v) == \E g \in groups : Contains(g, v)

AddChecked(groups, S) == groups \cup {<<v>> : v \in {w \in S : ~Known(groups, w)}}

\* Mutant: the variable bound to is appended to the group.
AddVarBehind(groups, bindings) ==
  {g \o SetToSeq({b[2] : b \in {p \in bindings : Contains(g, p[1])}}) : g \in groups}
  \cup {<<b[2], b[1]>> : b \in {p \in bindings : ~Known(groups, p[1])}}

\* Mutant: addVarTo goes on after it found the group.
AddVarTwice(groups, bindings) ==
  {SetToSeq({b[2] : b \in {p \in bindings : Contains(g, p[1])}}) \o g : g \in groups}
  \cup {<<b[2], b[1]>> : b \in bindings}

AddVarTo(groups, bindings) ==
  {SetToSeq({b[2] : b \in {p \in bindings : Contains(g, p[1])}}) \o g : g \in groups}
  \cup {<<b[2], b[1]>> : b \in {p \in bindings : ~Known(groups, p[1])}}

\* The variable that stands for v in the solver: the front of its group.
Representative(groups, v) == Head(CHOOSE g \in groups : Contains(g, v))

-------------------------------------------------------------------------------
(* The engine thread *)

Init ==
  /\ conditions = PlanConds
  /\ place \in {[l \in Levels |-> [a \in Agents |-> s]] : s \in States}
  /\ parent = 1..(Top - 1)
  /\ engine = Idle
  /\ changes = 0
  /\ query = Blank
  /\ queries = 0
  /\ quiet = TRUE

\* Retiring the plan below l revokes the conditions of all plans below, without
\* their locks but with the mutexes of their stores.
MayRevoke(S) == \A j \in S : ~HoldsStore(j)
Revoked(S)   == [l \in Levels |-> IF l \in S THEN {} ELSE conditions[l]]

\* RuleBook::transitionRule and synchTransitionRule during a visit, under the
\* lock of the plan: the condition of the transition joins the store.
TakeTransition(l, s) ==
  /\ engine = Idle /\ changes < MaxChanges
  /\ l > 1 /\ InTree(l) /\ ~HoldsPlan(l)
  /\ MayRevoke({l})
  /\ conditions' = [conditions EXCEPT ![l] = @ \cup MoveConds[l][s]]
  /\ engine' = [stage |-> "leave", level |-> l, state |-> s, locked |-> TRUE]
  /\ changes' = changes + 1
  /\ quiet' = FALSE
  /\ UNCHANGED <<place, parent, query, queries>>

\* RunningPlan::adaptAssignment: another state for the agent itself.  The engine
\* does not take the lock of the plan.
AdaptAssignment(l, s) ==
  /\ engine = Idle /\ changes < MaxChanges
  /\ l > 1 /\ InTree(l) /\ place[l][Me] # s
  /\ engine' = [stage |-> "leave", level |-> l, state |-> s, locked |-> FALSE]
  /\ changes' = changes + 1
  /\ quiet' = FALSE
  /\ UNCHANGED <<conditions, place, parent, query, queries>>

\* RunningPlan::deactivateChildren and clearChildren, and for an adapted plan
\* revokeAllConstraints: the child has no parent any more.
Leave ==
  /\ engine.stage = "leave"
  /\ LET S == 1..(IF engine.locked THEN engine.level - 1 ELSE engine.level)
     IN MayRevoke(S) /\ conditions' = Revoked(S)
  /\ parent' = parent \ {engine.level - 1}
  /\ engine' = [engine EXCEPT !.stage = "enter"]
  /\ quiet' = FALSE
  /\ UNCHANGED <<place, changes, query, queries>>

\* RunningPlan::moveState takes the agents of the old state along; an adapted
\* plan is activated again, with its own conditions (attachPlanConstraints).
Enter ==
  LET l == engine.level
      movers == IF engine.locked THEN {a \in Agents : place[l][a] = place[l][Me]} ELSE {Me}
  IN /\ engine.stage = "enter"
     /\ ~engine.locked => MayRevoke({l})
     /\ place' = [place EXCEPT ![l] = [a \in Agents |-> IF a \in movers THEN engine.state
                                                        ELSE @[a]]]
     /\ conditions' = IF engine.locked THEN conditions
                      ELSE [conditions EXCEPT ![l] = @ \cup PlanConds[l]]
     /\ engine' = Idle
     /\ quiet' = FALSE
     /\ UNCHANGED <<parent, changes, query, queries>>

\* RunningPlan::recursiveUpdateAssignment: an agent is found elsewhere.
MoveAgent(l, a, s) ==
  /\ engine = Idle /\ changes < MaxChanges
  /\ l > 1 /\ a # Me /\ InTree(l) /\ place[l][a] # s
  /\ place' = [place EXCEPT ![l][a] = s]
  /\ changes' = changes + 1
  /\ quiet' = FALSE
  /\ UNCHANGED <<conditions, parent, engine, query, queries>>

-------------------------------------------------------------------------------
(* The query: collectProblemStatement on the thread of the behaviour *)

Step(q) ==
  /\ query' = q
  /\ UNCHANGED <<conditions, place, parent, engine, changes, queries, quiet>>

\* clearTemporaries and fillBufferFromQuery.
Ask(ask) ==
  /\ query.pc \in Ended /\ queries < MaxQueries
  /\ query' = [Blank EXCEPT !.static = ask.static, !.domain = ask.domain, !.pc = "lock",
                            !.cur = ask.static, !.dcur = ask.domain,
                            !.unified = {<<v>> : v \in ask.static}]
  /\ queries' = queries + 1
  /\ quiet' = (engine = Idle)
  /\ UNCHANGED <<conditions, place, parent, engine, changes>>

\* The lock of the next plan; the climb ends when no variable is relevant.
LockPlan ==
  /\ query.pc = "lock"
  /\ ~(engine.locked /\ engine.level = query.level)
  /\ Step([query EXCEPT !.pc = IF query.cur = {} /\ query.dcur = {} THEN "collected"
                               ELSE "accept"])

\* ConditionStore::acceptQuery tests the store before it takes the mutex.
AcceptQuery ==
  /\ query.pc = "accept"
  /\ Step([query EXCEPT !.pc = IF conditions[query.level] = {} THEN "type" ELSE "take",
                        !.before = query.parts])

PartConds(parts) == {p.cond : p \in parts}
NewParts  == query.parts \ query.before
TakesMore == Cardinality(NewParts) < Cardinality(conditions[query.level])

\* Mutant: only the variables that were asked for are followed.
AddAskedParts(q, C) ==
  LET parts == {[cond |-> c, level |-> q.level, dvars |-> DomainVarsOf(c, q.level)] : c \in C}
      static == UNION {CondVars[c] : c \in C}
  IN [q EXCEPT !.parts = @ \cup parts,
               !.dcur = @ \cup ((UNION {p.dvars : p \in parts}) \ (q.dcur \cup q.dnext)),
               !.unified = AddChecked(@, static)]

\* Query::addProblemPart for the conditions C: their variables become relevant.
AddProblemParts(q, C) ==
  LET parts == {[cond |-> c, level |-> q.level, dvars |-> DomainVarsOf(c, q.level)] : c \in C}
      static == (UNION {CondVars[c] : c \in C}) \ (q.cur \cup q.next)
  IN [q EXCEPT !.parts = @ \cup parts,
               !.dcur = @ \cup ((UNION {p.dvars : p \in parts}) \ (q.dcur \cup q.dnext)),
               !.cur = @ \cup static,
               !.unified = AddChecked(@, static)]

\* Mutant: the variable stays in the buffer it is taken from.
PeekStatic(v) ==
  /\ query.pc = "take" /\ TakesMore /\ v \in query.cur
  /\ Step(AddProblemParts([query EXCEPT !.next = @ \cup {v}],
                          ActiveUnder(query.level, v) \ PartConds(NewParts)))

TakeStatic(v) ==
  /\ query.pc = "take" /\ TakesMore /\ v \in query.cur
  /\ Step(AddProblemParts([query EXCEPT !.cur = @ \ {v}, !.next = @ \cup {v}],
                          ActiveUnder(query.level, v) \ PartConds(NewParts)))

\* A domain variable brings in the conditions with a quantifier that covers it.
TakeDomain(d) ==
  /\ query.pc = "take" /\ TakesMore /\ query.cur = {} /\ d \in query.dcur
  /\ LET covers(q) == d[2] \in q.vars /\ d[1] \in AgentsInScope(q, query.level)
     IN Step(AddProblemParts([query EXCEPT !.dcur = @ \ {d}, !.dnext = @ \cup {d}],
               {c \in ActiveUnder(query.level, d[2]) \ PartConds(NewParts) :
                  \E q \in Quantifiers[c] : covers(q)}))

\* Mutant: the domain variables already taken are not written back.
ForgetTaken ==
  /\ query.pc = "take"
  /\ ~TakesMore \/ query.cur \cup query.dcur = {}
  /\ Step([query EXCEPT !.pc = "type", !.cur = @ \cup query.next, !.next = {}, !.dnext = {}])

\* mergeAndFlip of both buffers.
WriteBack ==
  /\ query.pc = "take"
  /\ ~TakesMore \/ query.cur \cup query.dcur = {}
  /\ Step([query EXCEPT !.pc = "type",
                        !.cur = @ \cup query.next, !.next = {},
                        !.dcur = @ \cup query.dnext, !.dnext = {}])

\* The bindings whose first variable is relevant, and the buffers flipped.
Bind(q, kept, bindings) ==
  LET used == {b \in bindings : b[1] \in q.cur}
  IN [q EXCEPT !.cur = kept \cup {b[2] : b \in used}, !.next = q.cur,
               !.unified = AddVarTo(@, used)]

BindType ==
  /\ query.pc = "type"
  /\ LET b == TypeBinding[query.level]
         q == [query EXCEPT !.pc = "state"]
     IN Step(IF b = NoType THEN q ELSE Bind(q, query.next, b))

\* The parent's state is read without the parent's lock.
BindState ==
  /\ query.pc = "state"
  /\ LET up == query.level + 1
         q == [query EXCEPT !.pc = "up"]
     IN Step(IF query.level \notin parent THEN q
             ELSE Bind(q, {}, StateBinding[up][place[up][Me]]))

\* ReadLockedPlanPointer::moveUp: the lock is released before the next is taken.
MoveUp ==
  /\ query.pc = "up"
  /\ Step(IF query.level \in parent
            THEN [query EXCEPT !.pc = "lock", !.level = @ + 1]
            ELSE [query EXCEPT !.pc = "collected"])

\* setupSolverVars, generateProblemDescriptor and getSolution; a query without
\* a part is answered without the solver.
Solve ==
  /\ query.pc = "collected"
  /\ Step([query EXCEPT !.pc = IF query.parts = {} THEN "empty" ELSE "solved"])

QueryStep ==
  \/ LockPlan \/ AcceptQuery \/ WriteBack \/ BindType \/ BindState \/ MoveUp \/ Solve
  \/ \E v \in Vars : TakeStatic(v)
  \/ \E d \in DomainVars : TakeDomain(d)

Next ==
  \/ \E l \in Levels, s \in States : TakeTransition(l, s) \/ AdaptAssignment(l, s)
  \/ \E l \in Levels, a \in Agents, s \in States \cup {Away} : MoveAgent(l, a, s)
  \/ Leave \/ Enter
  \/ \E ask \in Questions : Ask(ask)
  \/ QueryStep

(* Both threads go on: the operating system schedules them, and the engine's  *)
(* visit ends and gives the lock back.                                        *)
Spec == Init /\ [][Next]_vars /\ WF_vars(QueryStep) /\ WF_vars(Leave \/ Enter)
================================================================================
