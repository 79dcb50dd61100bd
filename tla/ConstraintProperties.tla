---------------------------- MODULE ConstraintProperties ---------------------------
(***************************************************************************)
(* What a query of the constraints has to deliver.                          *)
(***************************************************************************)
EXTENDS ConstraintQuery

(* Types of the variables.                                                  *)
TypeOK ==
  /\ conditions \in [Levels -> SUBSET Conds]
  /\ place \in [Levels -> [Agents -> States \cup {Away}]]
  /\ parent \subseteq 1..(Top - 1)
  /\ engine.stage \in {"idle", "leave", "enter"} /\ engine.level \in Levels
  /\ changes \in 0..MaxChanges /\ queries \in 0..MaxQueries
  /\ quiet \in BOOLEAN
  /\ query.pc \in Ended \cup {"lock", "accept", "take", "type", "state", "up", "collected"}
  /\ query.level \in Levels
  /\ query.cur \cup query.next \cup query.static \subseteq Vars
  /\ query.dcur \cup query.dnext \cup query.domain \subseteq DomainVars
  /\ \A g \in query.unified : g # << >> /\ ToSet(g) \subseteq Vars
  /\ \A p \in query.parts : p.cond \in Conds /\ p.level \in Levels

-------------------------------------------------------------------------------
(* The problem that belongs to a question, said without the climb. *)

\* The levels the query can climb to.
Path == {l \in Levels : \A k \in 1..(l - 1) : k \in parent}

Bound(S, bindings) == {b[2] : b \in {p \in bindings : p[1] \in S}}

\* The variables of a plan type that those of its plan are bound to, or the plan's.
Typed(l, S) == IF TypeBinding[l] = NoType THEN S ELSE Bound(S, TypeBinding[l])

\* The static variables of each level, when own[l] are those of the conditions of
\* level l and over[l] binds the variables below to those of level l.
Collect(own, over, asked) ==
  LET rel[l \in Levels] ==
        own[l] \cup IF l = 1 THEN asked ELSE Bound(Typed(l - 1, rel[l - 1]), over[l])
  IN rel

OwnVars(P)  == [l \in Levels |-> UNION {CondVars[c] : c \in P \cap conditions[l]}]
BindingsUp  == [l \in Levels |-> StateBinding[l][place[l][Me]]]

\* The static variables of each level that matter when the conditions P do.
RelevantVars(P) == Collect(OwnVars(P), BindingsUp, query.static)

\* The domain variables that matter at level l: those asked for and those of the
\* conditions up to l.
RelevantDomain(P, l) ==
  query.domain \cup UNION {UNION {DomainVarsOf(c, k) : c \in P \cap conditions[k]} : k \in 1..l}

\* Condition c of level l concerns a variable that matters.
Concerned(P, c, l) ==
  \/ \E v \in RelevantVars(P)[l] : v \in CondVars[c] \cup TemplateVars(c)
  \/ \E q \in Quantifiers[c] : \E d \in RelevantDomain(P, l) :
       d[2] \in q.vars /\ d[1] \in AgentsInScope(q, l)

Closed(P) == \A l \in Path : \A c \in conditions[l] : Concerned(P, c, l) => c \in P

(* A query the engine did not disturb poses the whole problem and nothing     *)
(* else: the least set of conditions on the path that contains each condition *)
(* concerning an asked variable, one bound to it, or a variable of a condition *)
(* of the set.  acceptQuery stops after as many parts as there are conditions *)
(* and shuffles variables between buffers that each level flips.              *)
PosesTheProblem ==
  query.pc \in {"empty", "solved"} /\ quiet =>
    LET P == PartConds(query.parts)
    IN Closed(P) /\ \A Q \in SUBSET P : Q # P => ~Closed(Q)

(* Whatever the engine does meanwhile, every variable of every problem part    *)
(* has a solver variable when the descriptors are made: the assertions of     *)
(* UniqueVarStore::getSolverVariable, whose static variables come from the     *)
(* groups and whose domain variables from the buffer of the query.            *)
PartsHaveSolverVariables ==
  query.pc = "solved" =>
    /\ query.static \cup UNION {CondVars[p.cond] : p \in query.parts}
         \subseteq UNION {ToSet(g) : g \in query.unified}
    /\ query.domain \cup UNION {p.dvars : p \in query.parts} \subseteq query.dcur

(* No variable is in two groups, so that getIndexOf, getSolverVariable and     *)
(* addVarTo, which all take the first group they find, mean the same one.     *)
GroupsDisjoint ==
  \A g, h \in query.unified : g # h => ToSet(g) \cap ToSet(h) = {}

\* The conditions that are ever active in the plan of level l.
OwnConds(l) == PlanConds[l] \cup UNION {MoveConds[l][s] : s \in States}

\* The bindings B lead to variables of height h, no two to the same one.
BindsApart(B, Height, h) ==
  /\ \A b \in B : Height[b[2]] = h
  /\ \A b, c \in B : b[2] = c[2] => b[1] = c[1]

\* Each variable belongs to one plan or plan type of the path, Height tells to
\* which, and no two variables of a child are bound to the same of its parent.
VariablesOwned(Height) ==
  /\ Height \in [Vars -> Nat]
  /\ \A ask \in Questions : \A v \in ask.static : Height[v] <= 1
  /\ \A l \in Levels : \A c \in OwnConds(l) : \A v \in CondVars[c] : Height[v] <= 2 * l - 1
  /\ \A l \in Levels : TypeBinding[l] # NoType => BindsApart(TypeBinding[l], Height, 2 * l)
  /\ \A l \in Levels \ {1} : \A s \in States :
       BindsApart(StateBinding[l][s], Height, 2 * l - 1)

\* Plans do not share variables or conditions: those of the plan of level l are at
\* height 2 l - 1 and those of its type at 2 l, and bindings lead one height up.
PlansApart(Height) ==
  /\ Height \in [Vars -> Nat]
  /\ \A ask \in Questions : \A v \in ask.static : Height[v] = 1
  /\ \A l \in Levels : \A c \in OwnConds(l) :
       /\ \A v \in CondVars[c] : Height[v] = 2 * l - 1
       /\ \A m \in Levels : c \in OwnConds(m) => m = l
  /\ \A l \in Levels : TypeBinding[l] # NoType =>
       \A b \in TypeBinding[l] : Height[b[1]] = 2 * l - 1 /\ Height[b[2]] = 2 * l
  /\ \A l \in Levels \ {1} : \A s \in States : \A b \in StateBinding[l][s] :
       /\ Height[b[1]] = IF TypeBinding[l - 1] = NoType THEN 2 * l - 3 ELSE 2 * l - 2
       /\ Height[b[2]] = 2 * l - 1

\* No variable of a child is bound to two of its parent.
BoundOnce ==
  LET once(B) == \A b, c \in B : b[1] = c[1] => b[2] = c[2]
  IN \A l \in Levels : /\ TypeBinding[l] # NoType => once(TypeBinding[l])
                      /\ \A s \in States : once(StateBinding[l][s])

(* The climb stays on the path, and the groups of its store are a partition.   *)
StorePartitioned == TypeOK /\ GroupsDisjoint

\* Where variable c.var goes when it is bound to those of S, if to any.
Further(c, S) ==
  IF S = {} THEN [c EXCEPT !.on = FALSE] ELSE [var |-> CHOOSE w \in S : TRUE, on |-> TRUE]

TypeRise(l, c)  == IF c.on THEN Further(c, Typed(l, {c.var})) ELSE c
StateRise(l, c) == IF c.on THEN Further(c, IF l + 1 \in Path THEN Bound({c.var}, BindingsUp[l + 1])
                                           ELSE {})
                   ELSE c

\* The variable of each level that v is bound to, or where its bindings ended below.
Rises(v) ==
  LET rise[l \in Levels] == IF l = 1 THEN [var |-> v, on |-> TRUE]
                            ELSE StateRise(l - 1, TypeRise(l - 1, rise[l - 1]))
  IN rise

TopmostOf(v) == TypeRise(Top, Rises(v)[Top]).var

(* The value an undisturbed query returns for an asked variable is that of the *)
(* variable of the highest plan it is bound to, which "is always the variable  *)
(* in the top most plan" of its group (UniqueVarStore.h).                     *)
TopmostRepresents ==
  query.pc = "solved" /\ quiet =>
    \A v \in query.static : Representative(query.unified, v) = TopmostOf(v)

(* A query that was asked is answered, though the engine takes the path apart   *)
(* under it: the loop over the variables of each level ends, and no lock is    *)
(* kept for good.                                                            *)
QueriesEnd == (query.pc \notin Ended) ~> (query.pc \in Ended)
================================================================================
