---------------------------- MODULE ConstraintProofs ----------------------------
(***************************************************************************)
(* For any path of plans, conditions, bindings and queries: a query keeps   *)
(* its types, and every variable of every problem part it has found has a   *)
(* solver variable, whatever the engine does to the path meanwhile; the     *)
(* unifications of variables stay apart when each variable is a plan's own; *)
(* and on a path that stays the same meanwhile the query poses the problem  *)
(* of its definition, and the variable that represents an asked one is the  *)
(* last its bindings lead up to.                                            *)
(***************************************************************************)
EXTENDS ConstraintProperties, DataInduction, FiniteSetTheorems, FunctionTheorems, TLAPS

Groups  == SUBSET (Seq(Vars) \ {<< >>})
PartSet == SUBSET [cond : Conds, level : Levels, dvars : SUBSET DomainVars]

QueryPcs == Ended \cup {"lock", "accept", "take", "type", "state", "up", "collected"}

QueryType ==
  [static : SUBSET Vars, domain : SUBSET DomainVars, pc : QueryPcs, level : Levels,
   cur : SUBSET Vars, next : SUBSET Vars, dcur : SUBSET DomainVars, dnext : SUBSET DomainVars,
   unified : Groups, parts : PartSet, before : PartSet]

EngineType ==
  [stage : {"idle", "leave", "enter"}, level : Levels, state : States \cup {Away},
   locked : BOOLEAN]

\* The variables of a set of groups: what getSolverVariable finds.
Unified(groups) == UNION {ToSet(g) : g \in groups}

\* The agent itself is in every plan of the path, and stays in it.
PathType ==
  /\ conditions \in [Levels -> SUBSET Conds]
  /\ place \in [Levels -> [Agents -> States \cup {Away}]]
  /\ \A l \in Levels : place[l][Me] \in States
  /\ parent \subseteq 1..(Top - 1)
  /\ engine \in EngineType /\ (engine.stage # "idle" => engine.state \in States)
  /\ changes \in 0..MaxChanges

\* The variables asked for and those of the parts found so far are in the groups
\* of the store and in the buffers; a domain variable that has been taken from its
\* buffer is written back before the climb goes on.  addProblemPart adds no variable
\* to the store that is in a buffer already: those are in the store, too.
Covered(q) ==
  /\ q.cur \cup q.next \subseteq Unified(q.unified)
  /\ q.static \cup UNION {CondVars[p.cond] : p \in q.parts} \subseteq Unified(q.unified)
  /\ q.domain \cup UNION {p.dvars : p \in q.parts} \subseteq q.dcur \cup q.dnext
  /\ q.pc # "take" => q.dnext = {}

ClimbInv ==
  /\ PathType
  /\ queries \in 0..MaxQueries /\ quiet \in BOOLEAN
  /\ query \in QueryType /\ Covered(query)

Assumptions == PathAssumption /\ ConditionAssumption /\ BindingAssumption /\ QuestionAssumption

-------------------------------------------------------------------------------
(* The store of unified variables *)

\* A finite set has a sequence of its elements.
LEMMA SeqOfSet ==
  ASSUME NEW S, IsFiniteSet(S)
  PROVE  SetToSeq(S) \in Seq(S) /\ ToSet(SetToSeq(S)) = S
<1> DEFINE n == Cardinality(S)
           f == SetToSeq(S)
<1>1. n \in Nat /\ \E g : g \in Bijection(1..n, S)
  BY FS_CardinalityType DEF ExistsBijection
<1>2. PICK g : g \in Bijection(1..n, S)
  BY <1>1
<1>3. g \in [1..n -> S] /\ IsInjective(g)
  BY <1>2 DEF Bijection, Injection, IsInjective
<1>4. f \in [1..n -> S] /\ IsInjective(f)
  BY <1>3 DEF SetToSeq
<1> HIDE DEF n, f
<1>5. f \in Injection(1..n, S)
  BY <1>4 DEF Injection, IsInjective
<1>6. IsFiniteSet(1..n) /\ Cardinality(1..n) = Cardinality(S)
  BY <1>1, FS_Interval DEF n
<1>7. f \in Surjection(1..n, S)
  BY <1>5, <1>6, FS_Injection
<1>8. \A x \in S : \E k \in 1..n : f[k] = x
  BY <1>7 DEF Surjection
<1>9. f \in Seq(S) /\ DOMAIN f = 1..n
  BY <1>1, <1>4
<1>10. ToSet(f) = S
  BY <1>4, <1>8, <1>9 DEF ToSet
<1>11. QED
  BY <1>9, <1>10 DEF f

\* The elements of a sequence with another before it.
LEMMA FrontJoins ==
  ASSUME NEW X, NEW s \in Seq(X), NEW t \in Seq(X), t # << >>
  PROVE  s \o t \in Seq(X) \ {<< >>} /\ ToSet(s \o t) = ToSet(s) \cup ToSet(t)
<1>1. s \o t \in Seq(X) /\ Len(s \o t) = Len(s) + Len(t) /\ Len(t) >= 1
  OBVIOUS
<1>2. ASSUME NEW k \in 1..Len(t) PROVE t[k] \in ToSet(s \o t)
  <2>1. Len(s) + k \in 1..Len(s \o t) /\ (s \o t)[Len(s) + k] = t[k]
    BY <1>1
  <2>2. QED
    BY <1>1, <2>1 DEF ToSet
<1>3. ASSUME NEW k \in 1..Len(s) PROVE s[k] \in ToSet(s \o t)
  <2>1. k \in 1..Len(s \o t) /\ (s \o t)[k] = s[k]
    BY <1>1
  <2>2. QED
    BY <1>1, <2>1 DEF ToSet
<1>4. ToSet(s) \subseteq ToSet(s \o t)
  <2> SUFFICES ASSUME NEW x \in ToSet(s) PROVE x \in ToSet(s \o t)
    OBVIOUS
  <2>1. PICK k \in 1..Len(s) : x = s[k]
    BY DEF ToSet
  <2>2. QED
    BY <1>3, <2>1
<1>5. ToSet(t) \subseteq ToSet(s \o t)
  <2> SUFFICES ASSUME NEW x \in ToSet(t) PROVE x \in ToSet(s \o t)
    OBVIOUS
  <2>1. PICK k \in 1..Len(t) : x = t[k]
    BY DEF ToSet
  <2>2. QED
    BY <1>2, <2>1
<1>6. ToSet(s \o t) \subseteq ToSet(s) \cup ToSet(t)
  <2> SUFFICES ASSUME NEW k \in 1..Len(s \o t) PROVE (s \o t)[k] \in ToSet(s) \cup ToSet(t)
    BY DEF ToSet
  <2>1. CASE k <= Len(s)
    BY <1>1, <2>1 DEF ToSet
  <2>2. CASE k > Len(s)
    <3>1. k - Len(s) \in 1..Len(t) /\ (s \o t)[k] = t[k - Len(s)]
      BY <1>1, <2>2
    <3>2. QED
      BY <3>1 DEF ToSet
  <2>3. QED
    BY <1>1, <2>1, <2>2
<1>7. QED
  BY <1>1, <1>4, <1>5, <1>6

\* addVarTo (UniqueVarStore.cpp) keeps every variable that the store knows, and
\* makes those known that known ones are bound to.
LEMMA AddVarKeeps ==
  ASSUME Assumptions, NEW groups \in Groups, NEW B \in SUBSET (Vars \X Vars)
  PROVE  /\ AddVarTo(groups, B) \in Groups
         /\ Unified(groups) \cup {b[2] : b \in B} \subseteq Unified(AddVarTo(groups, B))
<1> DEFINE S(g) == {b[2] : b \in {p \in B : Contains(g, p[1])}}
           front(g) == SetToSeq(S(g))
<1>1. ASSUME NEW g \in groups
      PROVE  /\ front(g) \o g \in Seq(Vars) \ {<< >>}
             /\ S(g) \cup ToSet(g) \subseteq ToSet(front(g) \o g)
  <2>1. S(g) \subseteq Vars
    OBVIOUS
  <2> HIDE DEF S
  <2>2. IsFiniteSet(S(g))
    BY <2>1, FS_Subset DEF Assumptions, BindingAssumption
  <2>3. SetToSeq(S(g)) \in Seq(Vars) /\ ToSet(SetToSeq(S(g))) = S(g)
    BY <2>1, <2>2, SeqOfSet
  <2>4. g \in Seq(Vars) /\ g # << >>
    BY DEF Groups
  <2>5. QED
    BY <2>3, <2>4, FrontJoins
<1>2. AddVarTo(groups, B) = {front(g) \o g : g \in groups}
                            \cup {<<b[2], b[1]>> : b \in {p \in B : ~Known(groups, p[1])}}
  BY DEF AddVarTo
<1> HIDE DEF front
<1>3. \A b \in B : /\ <<b[2], b[1]>> \in Seq(Vars) \ {<< >>} /\ b[2] \in ToSet(<<b[2], b[1]>>)
  BY DEF ToSet
<1>4. AddVarTo(groups, B) \in Groups
  BY <1>1, <1>2, <1>3 DEF Groups
<1>5. ASSUME NEW x \in Unified(groups) PROVE x \in Unified(AddVarTo(groups, B))
  <2>1. PICK g \in groups : x \in ToSet(g)
    BY DEF Unified
  <2>2. front(g) \o g \in AddVarTo(groups, B) /\ x \in ToSet(front(g) \o g)
    BY <1>1, <1>2, <2>1
  <2>3. QED
    BY <2>2 DEF Unified
<1>6. ASSUME NEW b \in B PROVE b[2] \in Unified(AddVarTo(groups, B))
  <2>1. CASE Known(groups, b[1])
    <3>1. PICK g \in groups : Contains(g, b[1])
      BY <2>1 DEF Known
    <3>2. b[2] \in S(g)
      BY <3>1
    <3>3. front(g) \o g \in AddVarTo(groups, B) /\ b[2] \in ToSet(front(g) \o g)
      BY <1>1, <1>2, <3>2
    <3>4. QED
      BY <3>3 DEF Unified
  <2>2. CASE ~Known(groups, b[1])
    <3>1. <<b[2], b[1]>> \in AddVarTo(groups, B)
      BY <1>2, <2>2
    <3>2. QED
      BY <1>3, <3>1 DEF Unified
  <2>3. QED
    BY <2>1, <2>2
<1>7. QED
  BY <1>4, <1>5, <1>6

\* add (UniqueVarStore.cpp) makes a variable known that is not.
LEMMA AddCheckedKeeps ==
  ASSUME NEW groups \in Groups, NEW S \in SUBSET Vars
  PROVE  /\ AddChecked(groups, S) \in Groups
         /\ Unified(groups) \cup S \subseteq Unified(AddChecked(groups, S))
<1>1. \A w \in S : <<w>> \in Seq(Vars) \ {<< >>} /\ w \in ToSet(<<w>>)
  BY DEF ToSet
<1>2. AddChecked(groups, S) \in Groups
  BY <1>1 DEF AddChecked, Groups
<1>3. ASSUME NEW w \in S PROVE w \in Unified(AddChecked(groups, S))
  <2>1. CASE Known(groups, w)
    <3>1. PICK g \in groups : Contains(g, w)
      BY <2>1 DEF Known
    <3>2. w \in ToSet(g)
      BY <3>1 DEF Contains, ToSet
    <3>3. QED
      BY <3>2 DEF Unified, AddChecked
  <2>2. CASE ~Known(groups, w)
    BY <1>1, <2>2 DEF Unified, AddChecked
  <2>3. QED
    BY <2>1, <2>2
<1>4. Unified(groups) \subseteq Unified(AddChecked(groups, S))
  BY DEF Unified, AddChecked
<1>5. QED
  BY <1>2, <1>3, <1>4

-------------------------------------------------------------------------------
(* The climb *)

\* The buffers change, the store and the parts stay.
Rebuffered(q, w) ==
  /\ w \in QueryType /\ w.static = q.static /\ w.domain = q.domain
  /\ w.unified = q.unified /\ w.parts = q.parts
  /\ w.cur \cup w.next \subseteq q.cur \cup q.next
  /\ q.dcur \cup q.dnext \subseteq w.dcur \cup w.dnext

\* A query whose buffers of domain variables are complete is covered as before.
LEMMA RebufferedCovers ==
  ASSUME NEW q, NEW w, Covered(q), Rebuffered(q, w), w.pc # "take" => w.dnext = {}
  PROVE  Covered(w)
BY DEF Covered, Rebuffered

\* A template variable of a condition is a variable; the domain variables of a
\* condition are the agents' copies (ForallAgents.cpp).
LEMMA DomainVarsType ==
  ASSUME Assumptions, NEW c \in Conds, NEW l \in Levels
  PROVE  DomainVarsOf(c, l) \in SUBSET DomainVars
<1>1. ASSUME NEW q \in Quantifiers[c] PROVE AgentsInScope(q, l) \X q.vars \subseteq Agents \X Vars
  BY DEF Assumptions, ConditionAssumption, AgentsInScope
<1>2. QED
  BY <1>1 DEF DomainVarsOf, DomainVars

\* addProblemPart (Query.cpp) makes the variables of the new parts relevant: the
\* static ones join a group, the domain ones the buffer.
LEMMA PartsCovered ==
  ASSUME Assumptions, NEW q \in QueryType, Covered(q), q.pc = "take", NEW C \in SUBSET Conds
  PROVE  AddProblemParts(q, C) \in QueryType /\ Covered(AddProblemParts(q, C))
<1> DEFINE parts == {[cond |-> c, level |-> q.level, dvars |-> DomainVarsOf(c, q.level)] : c \in C}
           static == (UNION {CondVars[c] : c \in C}) \ (q.cur \cup q.next)
           dvars == UNION {p.dvars : p \in parts}
           w == AddProblemParts(q, C)
<1>1. /\ q.unified \in Groups /\ q.parts \in PartSet /\ q.level \in Levels
      /\ q.cur \in SUBSET Vars /\ q.next \in SUBSET Vars
      /\ q.dcur \in SUBSET DomainVars /\ q.dnext \in SUBSET DomainVars
  BY DEF QueryType
<1>2. /\ w.static = q.static /\ w.domain = q.domain /\ w.pc = q.pc /\ w.level = q.level
      /\ w.next = q.next /\ w.dnext = q.dnext /\ w.before = q.before
      /\ w.parts = q.parts \cup parts
      /\ w.dcur = q.dcur \cup (dvars \ (q.dcur \cup q.dnext))
      /\ w.cur = q.cur \cup static
      /\ w.unified = AddChecked(q.unified, static)
      /\ w = [static |-> w.static, domain |-> w.domain, pc |-> w.pc, level |-> w.level,
              cur |-> w.cur, next |-> w.next, dcur |-> w.dcur, dnext |-> w.dnext,
              unified |-> w.unified, parts |-> w.parts, before |-> w.before]
  <2> DEFINE d1 == q.dcur \cup (dvars \ (q.dcur \cup q.dnext))
             w1 == [q EXCEPT !.parts = q.parts \cup parts, !.dcur = d1, !.cur = q.cur \cup static,
                             !.unified = AddChecked(q.unified, static)]
  <2>1. w = w1
    BY Zenon DEF AddProblemParts
  <2> HIDE DEF w, parts, static, d1
  <2>2. QED
    BY <2>1 DEF QueryType, d1
<1>3. parts \in PartSet
  BY <1>1, DomainVarsType DEF PartSet
<1>4. static \in SUBSET Vars
  BY DEF Assumptions, ConditionAssumption
<1>5. dvars \in SUBSET DomainVars
  BY <1>3 DEF PartSet
<1>6. ASSUME NEW c \in C PROVE CondVars[c] \subseteq static \cup q.cur \cup q.next
  <2>1. CondVars[c] \in {CondVars[e] : e \in C}
    OBVIOUS
  <2>2. CondVars[c] \subseteq UNION {CondVars[e] : e \in C}
    BY <2>1
  <2>3. QED
    BY <2>2
<1>7. \A p \in parts : p.cond \in C /\ p.dvars \subseteq dvars
  OBVIOUS
<1> HIDE DEF parts, static, dvars, w
<1>8. w.unified \in Groups /\ Unified(q.unified) \cup static \subseteq Unified(w.unified)
  BY <1>1, <1>2, <1>4, AddCheckedKeeps
<1>9. w.parts \in PartSet /\ w.dcur \in SUBSET DomainVars /\ w.cur \in SUBSET Vars
  BY <1>1, <1>2, <1>3, <1>4, <1>5 DEF PartSet
<1>10. w \in QueryType
  BY <1>1, <1>2, <1>8, <1>9 DEF QueryType
<1>11. w.cur \cup w.next \subseteq Unified(w.unified)
  BY <1>2, <1>8 DEF Covered
<1>12. ASSUME NEW p \in w.parts
       PROVE  CondVars[p.cond] \subseteq Unified(w.unified) /\ p.dvars \subseteq w.dcur \cup w.dnext
  <2>1. CASE p \in q.parts
    <3>1. CondVars[p.cond] \subseteq Unified(q.unified) /\ p.dvars \subseteq q.dcur \cup q.dnext
      BY <2>1 DEF Covered
    <3>2. QED
      BY <1>2, <1>8, <3>1
  <2>2. CASE p \in parts
    <3>1. CondVars[p.cond] \subseteq static \cup q.cur \cup q.next /\ p.dvars \subseteq dvars
      BY <1>6, <1>7, <2>2
    <3>2. q.cur \cup q.next \subseteq Unified(q.unified)
      BY DEF Covered
    <3>3. QED
      BY <1>2, <1>8, <3>1, <3>2
  <2>3. QED
    BY <1>2, <2>1, <2>2
<1>13. w.static \subseteq Unified(w.unified) /\ w.domain \subseteq w.dcur \cup w.dnext
  BY <1>2, <1>8 DEF Covered
<1>14. Covered(w)
  BY <1>2, <1>11, <1>12, <1>13 DEF Covered
<1>15. QED
  BY <1>10, <1>14 DEF w

\* A step of the query that leaves a covered query and the path alone.
LEMMA StepKeeps ==
  ASSUME ClimbInv, NEW w \in QueryType, Covered(w), Step(w)
  PROVE  ClimbInv'
BY DEF ClimbInv, Step, PathType

\* A step of the query that changes its buffers alone.
LEMMA RebufferedKeeps ==
  ASSUME ClimbInv, NEW w, Rebuffered(query, w), w.pc # "take" => w.dnext = {}, Step(w)
  PROVE  ClimbInv'
<1>1. Covered(w) /\ w \in QueryType
  BY RebufferedCovers DEF ClimbInv, Rebuffered
<1>2. QED
  BY <1>1, StepKeeps

\* clearTemporaries and fillBufferFromQuery: the variables asked for are in the
\* buffers and each in a group of its own.
LEMMA AskKeeps ==
  ASSUME Assumptions, ClimbInv, NEW ask \in Questions, Ask(ask)
  PROVE  ClimbInv'
<1> DEFINE st == ask.static
           dm == ask.domain
           un == {<<x>> : x \in st}
           w == [Blank EXCEPT !.static = st, !.domain = dm, !.pc = "lock", !.cur = st,
                              !.dcur = dm, !.unified = un]
<1>1. query' = w /\ queries' = queries + 1 /\ queries < MaxQueries
      /\ UNCHANGED <<conditions, place, parent, engine, changes>>
  BY DEF Ask
<1>2. st \in SUBSET Vars /\ dm \in SUBSET DomainVars
  BY DEF Assumptions, QuestionAssumption
<1>3. un \in Groups
  <2>1. \A x \in st : <<x>> \in Seq(Vars) /\ <<x>> # << >>
    BY <1>2
  <2>2. QED
    BY <2>1 DEF Groups
<1>4. st \subseteq Unified(un)
  <2> SUFFICES ASSUME NEW x \in st PROVE x \in Unified(un)
    OBVIOUS
  <2>1. <<x>> \in un /\ x \in ToSet(<<x>>)
    BY DEF ToSet
  <2>2. QED
    BY <2>1 DEF Unified
<1>5. 1 \in Levels
  BY DEF Levels, Assumptions, PathAssumption
<1> HIDE DEF st, dm, un
<1>6. /\ w.static = st /\ w.domain = dm /\ w.pc = "lock" /\ w.cur = st /\ w.next = {}
      /\ w.dcur = dm /\ w.dnext = {} /\ w.unified = un /\ w.parts = {}
      /\ w \in QueryType
  BY <1>2, <1>3, <1>5 DEF Blank, QueryType, QueryPcs, PartSet
<1> HIDE DEF w
<1>7. Covered(w)
  BY <1>4, <1>6 DEF Covered
<1>8. queries' \in 0..MaxQueries
  BY <1>1 DEF ClimbInv, Assumptions, QuestionAssumption
<1>9. quiet' \in BOOLEAN
  BY DEF Ask
<1>10. PathType'
  BY <1>1 DEF ClimbInv, PathType
<1>11. QED
  BY <1>1, <1>6, <1>7, <1>8, <1>9, <1>10 DEF ClimbInv

\* The lock, the test of the store and the climb leave the buffers alone.
LEMMA PassKeeps ==
  ASSUME Assumptions, ClimbInv, LockPlan \/ AcceptQuery \/ MoveUp \/ Solve
  PROVE  ClimbInv'
<1>1. query \in QueryType /\ query.parts \in PartSet /\ query.level \in Levels /\ Covered(query)
  BY DEF ClimbInv, QueryType
<1>2. query.pc # "take" => query.dnext = {}
  BY <1>1 DEF Covered
<1>3. CASE LockPlan
  <2>1. PICK c \in {"collected", "accept"} : Step([query EXCEPT !.pc = c])
    BY <1>3 DEF LockPlan
  <2>2. Rebuffered(query, [query EXCEPT !.pc = c])
    BY <1>1 DEF Rebuffered, QueryType, QueryPcs
  <2>3. query.dnext = {}
    BY <1>2, <1>3 DEF LockPlan
  <2>4. [query EXCEPT !.pc = c].dnext = {}
    BY <1>1, <2>3 DEF QueryType
  <2>5. QED
    BY <2>1, <2>2, <2>4, RebufferedKeeps
<1>4. CASE AcceptQuery
  <2>1. PICK c \in {"type", "take"} : Step([query EXCEPT !.pc = c, !.before = query.parts])
    BY <1>4 DEF AcceptQuery
  <2>2. Rebuffered(query, [query EXCEPT !.pc = c, !.before = query.parts])
    BY <1>1 DEF Rebuffered, QueryType, QueryPcs
  <2>3. query.dnext = {}
    BY <1>2, <1>4 DEF AcceptQuery
  <2>4. [query EXCEPT !.pc = c, !.before = query.parts].dnext = {}
    BY <1>1, <2>3 DEF QueryType
  <2>5. QED
    BY <2>1, <2>2, <2>4, RebufferedKeeps
<1>5. CASE MoveUp
  <2>1. query.dnext = {}
    BY <1>2, <1>5 DEF MoveUp
  <2>2. CASE query.level \in parent
    <3> DEFINE l == query.level + 1
    <3>1. l \in Levels
      <4>1. parent \subseteq 1..(Top - 1)
        BY DEF ClimbInv, PathType
      <4>2. query.level \in 1..(Top - 1) /\ Top \in Nat
        BY <2>2, <4>1 DEF Assumptions, PathAssumption
      <4>3. QED
        BY <4>2 DEF Levels
    <3>2. Step([query EXCEPT !.pc = "lock", !.level = l])
      BY <1>5, <2>2 DEF MoveUp
    <3> HIDE DEF l
    <3>3. Rebuffered(query, [query EXCEPT !.pc = "lock", !.level = l])
      BY <1>1, <3>1 DEF Rebuffered, QueryType, QueryPcs
    <3>4. [query EXCEPT !.pc = "lock", !.level = l].dnext = {}
      BY <1>1, <2>1 DEF QueryType
    <3>5. QED
      BY <3>2, <3>3, <3>4, RebufferedKeeps
  <2>3. CASE query.level \notin parent
    <3>1. Step([query EXCEPT !.pc = "collected"])
      BY <1>5, <2>3 DEF MoveUp
    <3>2. Rebuffered(query, [query EXCEPT !.pc = "collected"])
      BY <1>1 DEF Rebuffered, QueryType, QueryPcs
    <3>3. [query EXCEPT !.pc = "collected"].dnext = {}
      BY <1>1, <2>1 DEF QueryType
    <3>4. QED
      BY <3>1, <3>2, <3>3, RebufferedKeeps
  <2>4. QED
    BY <2>2, <2>3
<1>6. CASE Solve
  <2>1. PICK c \in {"empty", "solved"} : Step([query EXCEPT !.pc = c])
    BY <1>6 DEF Solve
  <2>2. Rebuffered(query, [query EXCEPT !.pc = c])
    BY <1>1 DEF Rebuffered, QueryType, QueryPcs, Ended
  <2>3. query.dnext = {}
    BY <1>2, <1>6 DEF Solve
  <2>4. [query EXCEPT !.pc = c].dnext = {}
    BY <1>1, <2>3 DEF QueryType
  <2>5. QED
    BY <2>1, <2>2, <2>4, RebufferedKeeps
<1>7. QED
  BY <1>3, <1>4, <1>5, <1>6

\* acceptQuery (ConditionStore.cpp) takes a static variable from its buffer and
\* adds the parts of the conditions that concern it.
LEMMA TakeStaticKeeps ==
  ASSUME Assumptions, ClimbInv, NEW x \in Vars, TakeStatic(x)
  PROVE  ClimbInv'
<1> DEFINE c1 == query.cur \ {x}
           n1 == query.next \cup {x}
           q == [query EXCEPT !.cur = c1, !.next = n1]
           C == ActiveUnder(query.level, x) \ PartConds(NewParts)
<1>1. query.pc = "take" /\ x \in query.cur /\ Step(AddProblemParts(q, C))
  BY DEF TakeStatic
<1>2. query \in QueryType /\ Covered(query) /\ query.level \in Levels
      /\ query.cur \in SUBSET Vars /\ query.next \in SUBSET Vars
  BY DEF ClimbInv, QueryType
<1>3. C \in SUBSET Conds
  BY <1>2 DEF ActiveUnder, ClimbInv, PathType
<1>4. c1 \in SUBSET Vars /\ n1 \in SUBSET Vars /\ c1 \cup n1 = query.cur \cup query.next
  BY <1>1, <1>2
<1> HIDE DEF c1, n1, C
<1>5. q \in QueryType /\ Rebuffered(query, q) /\ q.pc = "take"
  BY <1>1, <1>2, <1>4 DEF Rebuffered, QueryType
<1> HIDE DEF q
<1>6. Covered(q)
  BY <1>2, <1>5, RebufferedCovers
<1>7. AddProblemParts(q, C) \in QueryType /\ Covered(AddProblemParts(q, C))
  BY <1>3, <1>5, <1>6, PartsCovered
<1>8. QED
  BY <1>1, <1>7, StepKeeps

\* And a domain variable, with the conditions that quantify over it.
LEMMA TakeDomainKeeps ==
  ASSUME Assumptions, ClimbInv, NEW d \in DomainVars, TakeDomain(d)
  PROVE  ClimbInv'
<1> DEFINE c1 == query.dcur \ {d}
           n1 == query.dnext \cup {d}
           q == [query EXCEPT !.dcur = c1, !.dnext = n1]
<1>1. query.pc = "take" /\ d \in query.dcur
  BY DEF TakeDomain
<1>2. query \in QueryType /\ Covered(query) /\ query.level \in Levels
      /\ query.dcur \in SUBSET DomainVars /\ query.dnext \in SUBSET DomainVars
  BY DEF ClimbInv, QueryType
<1>3. ActiveUnder(query.level, d[2]) \in SUBSET Conds
  BY <1>2 DEF ActiveUnder, ClimbInv, PathType
<1>4. \E C \in SUBSET Conds : Step(AddProblemParts(q, C))
  BY <1>3 DEF TakeDomain
<1>5. c1 \in SUBSET DomainVars /\ n1 \in SUBSET DomainVars /\ c1 \cup n1 = query.dcur \cup query.dnext
  BY <1>1, <1>2
<1> HIDE DEF c1, n1
<1>6. q \in QueryType /\ Rebuffered(query, q) /\ q.pc = "take"
  BY <1>1, <1>2, <1>5 DEF Rebuffered, QueryType
<1> HIDE DEF q
<1>7. Covered(q)
  BY <1>2, <1>6, RebufferedCovers
<1>8. \A C \in SUBSET Conds : AddProblemParts(q, C) \in QueryType /\ Covered(AddProblemParts(q, C))
  BY <1>6, <1>7, PartsCovered
<1>9. QED
  BY <1>4, <1>8, StepKeeps

\* mergeAndFlip (Query.cpp): what was taken from a buffer is written back.
LEMMA WriteBackKeeps ==
  ASSUME Assumptions, ClimbInv, WriteBack
  PROVE  ClimbInv'
<1> DEFINE c1 == query.cur \cup query.next
           d1 == query.dcur \cup query.dnext
           q == [query EXCEPT !.pc = "type", !.cur = c1, !.next = {}, !.dcur = d1, !.dnext = {}]
<1>1. Step(q)
  BY DEF WriteBack
<1>2. query \in QueryType /\ Covered(query)
      /\ query.cur \in SUBSET Vars /\ query.next \in SUBSET Vars
      /\ query.dcur \in SUBSET DomainVars /\ query.dnext \in SUBSET DomainVars
  BY DEF ClimbInv, QueryType
<1>3. c1 \in SUBSET Vars /\ d1 \in SUBSET DomainVars
  BY <1>2
<1>4. c1 \cup {} \subseteq query.cur \cup query.next /\ query.dcur \cup query.dnext \subseteq d1 \cup {}
  OBVIOUS
<1> HIDE DEF c1, d1
<1>5. Rebuffered(query, q) /\ q.dnext = {}
  BY <1>2, <1>3, <1>4 DEF Rebuffered, QueryType, QueryPcs
<1>6. QED
  BY <1>1, <1>5, RebufferedKeeps

\* addVarTo (UniqueVarStore.cpp) for the bindings of relevant variables: the
\* variables bound to become relevant, and known.
LEMMA BindCovers ==
  ASSUME Assumptions, NEW q \in QueryType, Covered(q), NEW kept \in SUBSET q.next,
         NEW B \in SUBSET (Vars \X Vars)
  PROVE  Bind(q, kept, B) \in QueryType /\ Covered(Bind(q, kept, B))
<1> DEFINE used == {b \in B : b[1] \in q.cur}
           c1 == kept \cup {b[2] : b \in used}
           u1 == AddVarTo(q.unified, used)
           w == [q EXCEPT !.cur = c1, !.next = q.cur, !.unified = u1]
<1>1. w = Bind(q, kept, B)
  BY Zenon DEF Bind
<1>2. q.cur \in SUBSET Vars /\ q.next \in SUBSET Vars /\ q.unified \in Groups
  BY DEF QueryType
<1>3. used \in SUBSET (Vars \X Vars)
  OBVIOUS
<1>4. u1 \in Groups /\ Unified(q.unified) \cup {b[2] : b \in used} \subseteq Unified(u1)
  BY <1>2, <1>3, AddVarKeeps
<1>5. c1 \in SUBSET Vars /\ c1 \subseteq q.next \cup {b[2] : b \in used}
  BY <1>2
<1> HIDE DEF c1, u1, used
<1>6. /\ w \in QueryType /\ w.cur = c1 /\ w.next = q.cur /\ w.unified = u1 /\ w.static = q.static
      /\ w.domain = q.domain /\ w.parts = q.parts /\ w.dcur = q.dcur /\ w.dnext = q.dnext
      /\ w.pc = q.pc
  BY <1>2, <1>4, <1>5 DEF QueryType
<1> HIDE DEF w
<1>7. w.cur \cup w.next \subseteq Unified(w.unified)
  BY <1>4, <1>5, <1>6 DEF Covered
<1>8. Covered(w)
  BY <1>4, <1>6, <1>7 DEF Covered
<1>9. QED
  BY <1>1, <1>6, <1>8

\* The program counter moves on after the store of a level has been searched.
LEMMA MovesOn ==
  ASSUME NEW q \in QueryType, Covered(q), q.pc # "take", NEW c \in {"state", "up"}
  PROVE  /\ [q EXCEPT !.pc = c] \in QueryType /\ Covered([q EXCEPT !.pc = c])
         /\ [q EXCEPT !.pc = c].next = q.next
<1>1. [q EXCEPT !.pc = c] \in QueryType /\ [q EXCEPT !.pc = c].pc = c
  BY DEF QueryType, QueryPcs
<1>2. Rebuffered(q, [q EXCEPT !.pc = c]) /\ [q EXCEPT !.pc = c].dnext = {}
  BY <1>1 DEF Rebuffered, QueryType, Covered
<1>3. [q EXCEPT !.pc = c].next = q.next
  BY DEF QueryType
<1>4. QED
  BY <1>1, <1>2, <1>3, RebufferedCovers

\* The bindings of a plan type's variables (Query.cpp).
LEMMA BindTypeKeeps ==
  ASSUME Assumptions, ClimbInv, BindType
  PROVE  ClimbInv'
<1> DEFINE q == [query EXCEPT !.pc = "state"]
           B == TypeBinding[query.level]
<1>1. query \in QueryType /\ Covered(query) /\ query.pc # "take" /\ query.level \in Levels
  BY DEF ClimbInv, QueryType, BindType
<1>2. q \in QueryType /\ Covered(q) /\ q.next = query.next
  BY <1>1, MovesOn
<1>3. Step(IF B = NoType THEN q ELSE Bind(q, query.next, B))
  BY DEF BindType
<1>4. B # NoType => B \in SUBSET (Vars \X Vars)
  BY <1>1 DEF Assumptions, BindingAssumption
<1> HIDE DEF q, B
<1>5. CASE B = NoType
  BY <1>2, <1>3, <1>5, StepKeeps
<1>6. CASE B # NoType
  <2>1. query.next \in SUBSET q.next /\ B \in SUBSET (Vars \X Vars)
    BY <1>2, <1>4, <1>6
  <2>2. Bind(q, query.next, B) \in QueryType /\ Covered(Bind(q, query.next, B))
    BY <1>2, <2>1, BindCovers
  <2>3. QED
    BY <1>3, <1>6, <2>2, StepKeeps
<1>7. QED
  BY <1>5, <1>6

\* The bindings of the parent's state, which is a state: the agent itself is in
\* every plan above it.
LEMMA BindStateKeeps ==
  ASSUME Assumptions, ClimbInv, BindState
  PROVE  ClimbInv'
<1> DEFINE q == [query EXCEPT !.pc = "up"]
           up == query.level + 1
           B == StateBinding[up][place[up][Me]]
<1>1. query \in QueryType /\ Covered(query) /\ query.pc # "take" /\ query.level \in Levels
  BY DEF ClimbInv, QueryType, BindState
<1>2. q \in QueryType /\ Covered(q)
  BY <1>1, MovesOn
<1>3. Step(IF query.level \notin parent THEN q ELSE Bind(q, {}, B))
  BY DEF BindState
<1>4. query.level \in parent => B \in SUBSET (Vars \X Vars)
  <2> SUFFICES ASSUME query.level \in parent PROVE B \in SUBSET (Vars \X Vars)
    OBVIOUS
  <2>1. parent \subseteq 1..(Top - 1)
    BY DEF ClimbInv, PathType
  <2>2. query.level \in 1..(Top - 1) /\ Top \in Nat
    BY <2>1 DEF Assumptions, PathAssumption
  <2>3. up \in Levels
    BY <2>2 DEF Levels
  <2> HIDE DEF up
  <2>4. place[up][Me] \in States
    BY <2>3 DEF ClimbInv, PathType
  <2>5. QED
    BY <2>3, <2>4 DEF Assumptions, BindingAssumption
<1> HIDE DEF q, B
<1>5. CASE query.level \notin parent
  BY <1>2, <1>3, <1>5, StepKeeps
<1>6. CASE query.level \in parent
  <2>1. {} \in SUBSET q.next /\ B \in SUBSET (Vars \X Vars)
    BY <1>4, <1>6
  <2>2. Bind(q, {}, B) \in QueryType /\ Covered(Bind(q, {}, B))
    BY <1>2, <2>1, BindCovers
  <2>3. QED
    BY <1>3, <1>6, <2>2, StepKeeps
<1>7. QED
  BY <1>5, <1>6

-------------------------------------------------------------------------------
(* The engine *)

\* Whatever the engine does to the path, the query's own data are not touched.
LEMMA EngineKeepsQuery ==
  ASSUME ClimbInv, PathType', UNCHANGED <<query, queries>>, quiet' = FALSE
  PROVE  ClimbInv'
BY DEF ClimbInv

\* The changes of the engine (RuleBook.cpp, RunningPlan.cpp) keep the path: stores
\* hold conditions, and the agent itself stays in a state of every plan.
LEMMA EngineKeepsPath ==
  ASSUME Assumptions, ClimbInv,
         \/ \E l \in Levels, s \in States : TakeTransition(l, s) \/ AdaptAssignment(l, s)
         \/ \E l \in Levels, a \in Agents, s \in States \cup {Away} : MoveAgent(l, a, s)
         \/ Leave \/ Enter
  PROVE  ClimbInv'
<1>1. /\ conditions \in [Levels -> SUBSET Conds]
      /\ place \in [Levels -> [Agents -> States \cup {Away}]]
      /\ \A l \in Levels : place[l][Me] \in States
      /\ parent \subseteq 1..(Top - 1)
      /\ engine \in EngineType /\ (engine.stage # "idle" => engine.state \in States)
      /\ changes \in 0..MaxChanges
  BY DEF ClimbInv, PathType
<1>2. ASSUME NEW l \in Levels, NEW s \in States, TakeTransition(l, s) PROVE ClimbInv'
  <2>1. MoveConds[l][s] \subseteq Conds
    BY DEF Assumptions, ConditionAssumption
  <2>2. conditions' \in [Levels -> SUBSET Conds]
    BY <1>1, <1>2, <2>1 DEF TakeTransition
  <2>3. engine' \in EngineType /\ engine'.state \in States
    BY <1>2 DEF TakeTransition, EngineType
  <2>4. changes' \in 0..MaxChanges
    BY <1>1, <1>2 DEF TakeTransition, Assumptions, QuestionAssumption
  <2>5. PathType'
    BY <1>1, <1>2, <2>2, <2>3, <2>4 DEF TakeTransition, PathType
  <2>6. QED
    BY <1>2, <2>5, EngineKeepsQuery DEF TakeTransition
<1>3. ASSUME NEW l \in Levels, NEW s \in States, AdaptAssignment(l, s) PROVE ClimbInv'
  <2>1. engine' \in EngineType /\ engine'.state \in States
    BY <1>3 DEF AdaptAssignment, EngineType
  <2>2. changes' \in 0..MaxChanges
    BY <1>1, <1>3 DEF AdaptAssignment, Assumptions, QuestionAssumption
  <2>3. PathType'
    BY <1>1, <1>3, <2>1, <2>2 DEF AdaptAssignment, PathType
  <2>4. QED
    BY <1>3, <2>3, EngineKeepsQuery DEF AdaptAssignment
<1>4. ASSUME NEW l \in Levels, NEW a \in Agents, NEW s \in States \cup {Away}, MoveAgent(l, a, s)
      PROVE  ClimbInv'
  <2>1. place' = [place EXCEPT ![l][a] = s] /\ a # Me
    BY <1>4 DEF MoveAgent
  <2>2. place' \in [Levels -> [Agents -> States \cup {Away}]]
    BY <1>1, <2>1
  <2>3. \A k \in Levels : place'[k][Me] \in States
    BY <1>1, <2>1
  <2>4. changes' \in 0..MaxChanges
    BY <1>1, <1>4 DEF MoveAgent, Assumptions, QuestionAssumption
  <2>5. PathType'
    BY <1>1, <1>4, <2>2, <2>3, <2>4 DEF MoveAgent, PathType
  <2>6. QED
    BY <1>4, <2>5, EngineKeepsQuery DEF MoveAgent
<1>5. CASE Leave
  <2>1. \E S \in SUBSET Int : conditions' = Revoked(S)
    BY <1>1, <1>5 DEF Leave, EngineType, Levels, Assumptions, PathAssumption
  <2>2. conditions' \in [Levels -> SUBSET Conds]
    BY <1>1, <2>1 DEF Revoked
  <2>3. engine' \in EngineType /\ engine'.state \in States
    BY <1>1, <1>5 DEF Leave, EngineType
  <2>4. parent' \subseteq 1..(Top - 1)
    BY <1>1, <1>5 DEF Leave
  <2>5. PathType'
    BY <1>1, <1>5, <2>2, <2>3, <2>4 DEF Leave, PathType
  <2>6. QED
    BY <1>5, <2>5, EngineKeepsQuery DEF Leave
<1>6. CASE Enter
  <2> DEFINE l == engine.level
             movers == IF engine.locked THEN {a \in Agents : place[l][a] = place[l][Me]} ELSE {Me}
             f == [a \in Agents |-> IF a \in movers THEN engine.state ELSE place[l][a]]
  <2>1. l \in Levels /\ engine.state \in States /\ Me \in Agents
    BY <1>1, <1>6 DEF Enter, EngineType, Assumptions, PathAssumption
  <2>2. place' = [place EXCEPT ![l] = f]
    BY <1>6 DEF Enter
  <2>3. Me \in movers
    BY <2>1
  <2> HIDE DEF movers
  <2>4. f \in [Agents -> States \cup {Away}] /\ f[Me] \in States
    BY <1>1, <2>1, <2>3
  <2> HIDE DEF f, l
  <2>5. place' \in [Levels -> [Agents -> States \cup {Away}]] /\ \A k \in Levels : place'[k][Me] \in States
    BY <1>1, <2>1, <2>2, <2>4
  <2>6. conditions' \in [Levels -> SUBSET Conds]
    <3>1. PlanConds[l] \in SUBSET Conds
      BY <2>1 DEF Assumptions, ConditionAssumption
    <3>2. conditions' = IF engine.locked THEN conditions
                        ELSE [conditions EXCEPT ![l] = @ \cup PlanConds[l]]
      BY <1>6 DEF Enter, l
    <3>3. QED
      BY <1>1, <2>1, <3>1, <3>2
  <2>7. engine' \in EngineType /\ engine'.stage = "idle"
    <3>1. 1 \in Levels
      BY DEF Levels, Assumptions, PathAssumption
    <3>2. QED
      BY <1>6, <3>1 DEF Enter, Idle, EngineType
  <2>8. PathType'
    BY <1>1, <1>6, <2>5, <2>6, <2>7 DEF Enter, PathType
  <2>9. QED
    BY <1>6, <2>8, EngineKeepsQuery DEF Enter
<1>7. QED
  BY <1>2, <1>3, <1>4, <1>5, <1>6

-------------------------------------------------------------------------------
(* The invariant *)

\* No query has been asked, and the agent is in a state of every plan.
LEMMA InitialClimb == Assumptions /\ Init => ClimbInv
<1> SUFFICES ASSUME Assumptions, Init PROVE ClimbInv
  OBVIOUS
<1>1. 1 \in Levels /\ Me \in Agents
  BY DEF Levels, Assumptions, PathAssumption
<1>2. Blank \in QueryType /\ Covered(Blank)
  BY <1>1 DEF Blank, QueryType, QueryPcs, Ended, Groups, PartSet, Covered
<1>3. Idle \in EngineType
  BY <1>1 DEF Idle, EngineType
<1>4. conditions \in [Levels -> SUBSET Conds]
  BY DEF Init, Assumptions, ConditionAssumption
<1>5. place \in [Levels -> [Agents -> States \cup {Away}]] /\ \A l \in Levels : place[l][Me] \in States
  <2>1. PICK s \in States : place = [l \in Levels |-> [a \in Agents |-> s]]
    BY DEF Init
  <2>2. QED
    BY <1>1, <2>1
<1>6. PathType
  BY <1>3, <1>4, <1>5 DEF PathType, Init, Idle, Assumptions, QuestionAssumption
<1>7. QED
  BY <1>2, <1>6 DEF ClimbInv, Init, Assumptions, QuestionAssumption

\* Every step of the two threads keeps the invariant.
LEMMA ClimbStep == Assumptions /\ ClimbInv /\ [Next]_vars => ClimbInv'
<1> SUFFICES ASSUME Assumptions, ClimbInv, [Next]_vars PROVE ClimbInv'
  OBVIOUS
<1>1. CASE QueryStep
  <2>1. CASE LockPlan \/ AcceptQuery \/ MoveUp \/ Solve
    BY <2>1, PassKeeps
  <2>2. CASE WriteBack
    BY <2>2, WriteBackKeeps
  <2>3. CASE BindType
    BY <2>3, BindTypeKeeps
  <2>4. CASE BindState
    BY <2>4, BindStateKeeps
  <2>5. CASE \E x \in Vars : TakeStatic(x)
    BY <2>5, TakeStaticKeeps
  <2>6. CASE \E d \in DomainVars : TakeDomain(d)
    BY <2>6, TakeDomainKeeps
  <2>7. QED
    BY <1>1, <2>1, <2>2, <2>3, <2>4, <2>5, <2>6 DEF QueryStep
<1>2. CASE \E ask \in Questions : Ask(ask)
  BY <1>2, AskKeeps
<1>3. CASE UNCHANGED vars
  BY <1>3 DEF vars, ClimbInv, PathType
<1>4. QED
  BY <1>1, <1>2, <1>3, EngineKeepsPath DEF Next

\* The types of the path, of the engine and of the query, for every path, set of
\* conditions and question.
THEOREM QueryInvariant == Spec => []ClimbInv
<1>1. Assumptions
  BY PathAssumption, ConditionAssumption, BindingAssumption, QuestionAssumption DEF Assumptions
<1>2. Init => ClimbInv
  BY <1>1, InitialClimb
<1>3. ClimbInv /\ [Next]_vars => ClimbInv'
  BY <1>1, ClimbStep
<1>4. QED
  BY <1>2, <1>3, PTL DEF Spec

\* UniqueVarStore::getSolverVariable asserts that it finds a variable: when the
\* descriptors are made, each static variable of each part is in a group and each
\* domain variable in the query's buffer, whatever the engine changed meanwhile.
THEOREM EveryPartHasVariables == Spec => []PartsHaveSolverVariables
<1>1. ClimbInv => PartsHaveSolverVariables
  <2> SUFFICES ASSUME ClimbInv, query.pc = "solved" PROVE PartsHaveSolverVariables
    BY DEF PartsHaveSolverVariables
  <2>1. Covered(query) /\ query.dnext = {}
    BY DEF ClimbInv, Covered
  <2>2. QED
    BY <2>1 DEF Covered, Unified, PartsHaveSolverVariables
<1>2. QED
  BY <1>1, QueryInvariant, PTL

-------------------------------------------------------------------------------
(* The groups of the store stay apart *)

Apart(groups) == \A g, h \in groups : g # h => ToSet(g) \cap ToSet(h) = {}

\* addVarTo (UniqueVarStore.cpp) extends the groups of known variables; when no
\* two of the bindings lead to the same variable, and none to a known one, the
\* groups stay apart.
LEMMA AddVarApart ==
  ASSUME Assumptions, NEW groups \in Groups, Apart(groups), NEW B \in SUBSET (Vars \X Vars),
         \A b \in B : b[1] \in Unified(groups) /\ b[2] \notin Unified(groups),
         \A b, c \in B : b[2] = c[2] => b[1] = c[1]
  PROVE  /\ Apart(AddVarTo(groups, B))
         /\ Unified(AddVarTo(groups, B)) \subseteq Unified(groups) \cup {b[2] : b \in B}
<1> DEFINE S(g) == {b[2] : b \in {p \in B : Contains(g, p[1])}}
           front(g) == SetToSeq(S(g))
<1>1. ASSUME NEW g \in groups
      PROVE  ToSet(front(g) \o g) = S(g) \cup ToSet(g)
  <2>1. S(g) \subseteq Vars
    OBVIOUS
  <2> HIDE DEF S
  <2>2. IsFiniteSet(S(g))
    BY <2>1, FS_Subset DEF Assumptions, BindingAssumption
  <2>3. SetToSeq(S(g)) \in Seq(Vars) /\ ToSet(SetToSeq(S(g))) = S(g)
    BY <2>1, <2>2, SeqOfSet
  <2>4. g \in Seq(Vars) /\ g # << >>
    BY DEF Groups
  <2>5. QED
    BY <2>3, <2>4, FrontJoins
<1>2. ASSUME NEW b \in B PROVE Known(groups, b[1])
  <2>1. PICK g \in groups : b[1] \in ToSet(g)
    BY DEF Unified
  <2>2. Contains(g, b[1])
    BY <2>1 DEF Contains, ToSet
  <2>3. QED
    BY <2>2 DEF Known
<1>3. AddVarTo(groups, B) = {front(g) \o g : g \in groups}
  BY <1>2 DEF AddVarTo
<1>4. ASSUME NEW g \in groups
      PROVE  /\ S(g) \subseteq {b[2] : b \in B} /\ S(g) \cap Unified(groups) = {}
             /\ \A x \in S(g) : \E b \in B : x = b[2] /\ b[1] \in ToSet(g)
  BY DEF Contains, ToSet
<1>5. ASSUME NEW g \in groups, NEW h \in groups, g # h
      PROVE  (S(g) \cup ToSet(g)) \cap (S(h) \cup ToSet(h)) = {}
  <2>1. ToSet(g) \cap ToSet(h) = {}
    BY <1>5 DEF Apart
  <2>2. ToSet(g) \subseteq Unified(groups) /\ ToSet(h) \subseteq Unified(groups)
    BY DEF Unified
  <2>3. S(g) \cap ToSet(h) = {} /\ S(h) \cap ToSet(g) = {}
    BY <1>4, <2>2
  <2>4. ASSUME NEW x \in S(g), x \in S(h) PROVE FALSE
    <3>1. PICK b \in B : x = b[2] /\ b[1] \in ToSet(g)
      BY <1>4
    <3>2. PICK c \in B : x = c[2] /\ c[1] \in ToSet(h)
      BY <1>4, <2>4
    <3>3. b[1] = c[1]
      BY <3>1, <3>2
    <3>4. QED
      BY <2>1, <3>1, <3>2, <3>3
  <2>5. QED
    BY <2>1, <2>3, <2>4
<1>6. ASSUME NEW g \in groups
      PROVE  S(g) \cup ToSet(g) \subseteq Unified(groups) \cup {b[2] : b \in B}
  BY <1>4 DEF Unified
<1> HIDE DEF S, front
<1>7. Apart(AddVarTo(groups, B))
  <2> SUFFICES ASSUME NEW g \in groups, NEW h \in groups, front(g) \o g # front(h) \o h
               PROVE  ToSet(front(g) \o g) \cap ToSet(front(h) \o h) = {}
    BY <1>3 DEF Apart
  <2>1. g # h
    OBVIOUS
  <2>2. QED
    BY <1>1, <1>5, <2>1
<1>8. Unified(AddVarTo(groups, B)) \subseteq Unified(groups) \cup {b[2] : b \in B}
  <2> SUFFICES ASSUME NEW x \in Unified(AddVarTo(groups, B))
               PROVE  x \in Unified(groups) \cup {b[2] : b \in B}
    OBVIOUS
  <2>1. PICK u \in AddVarTo(groups, B) : x \in ToSet(u)
    BY DEF Unified
  <2>2. PICK g \in groups : u = front(g) \o g
    BY <1>3
  <2>3. QED
    BY <1>1, <1>6, <2>1, <2>2
<1>9. QED
  BY <1>7, <1>8

\* add (UniqueVarStore.cpp) makes a group of an unknown variable only.
LEMMA AddCheckedApart ==
  ASSUME NEW groups \in Groups, Apart(groups), NEW S \in SUBSET Vars
  PROVE  /\ Apart(AddChecked(groups, S))
         /\ Unified(AddChecked(groups, S)) \subseteq Unified(groups) \cup S
<1> DEFINE new == {w \in S : ~Known(groups, w)}
<1>1. AddChecked(groups, S) = groups \cup {<<w>> : w \in new}
  BY DEF AddChecked
<1>2. \A w \in new : ToSet(<<w>>) = {w}
  BY DEF ToSet
<1>3. \A w \in new : w \notin Unified(groups)
  BY DEF Known, Contains, ToSet, Unified
<1>4. new \subseteq S
  OBVIOUS
<1> HIDE DEF new
<1>5. \A g \in groups, w \in new : ToSet(g) \cap ToSet(<<w>>) = {}
  BY <1>2, <1>3 DEF Unified
<1>6. \A w, x \in new : <<w>> # <<x>> => ToSet(<<w>>) \cap ToSet(<<x>>) = {}
  BY <1>2
<1>7. Apart(AddChecked(groups, S))
  BY <1>1, <1>5, <1>6 DEF Apart
<1>8. Unified(AddChecked(groups, S)) \subseteq Unified(groups) \cup S
  BY <1>1, <1>2, <1>4 DEF Unified
<1>9. QED
  BY <1>7, <1>8

\* What the store knows belongs to the plans that the climb has reached.
Ceiling(q) == IF q.pc = "state" THEN 2 * q.level
              ELSE IF q.pc = "up" THEN 2 * q.level + 1 ELSE 2 * q.level - 1

Climbing == {"lock", "accept", "take", "type", "state", "up"}

StoreApart(q, Height) ==
  /\ Apart(q.unified)
  /\ q.pc \in Climbing => \A v \in Unified(q.unified) : Height[v] <= Ceiling(q)

\* The stores of the plans hold their own conditions.
OwnStores == \A l \in Levels : conditions[l] \subseteq OwnConds(l)

PartitionInv(Height) ==
  /\ OwnStores
  /\ StoreApart(query, Height)

\* A step of the query that leaves the store alone and raises the ceiling, if
\* anything.
LEMMA StoreStays ==
  ASSUME Assumptions, NEW Height, VariablesOwned(Height), ClimbInv, PartitionInv(Height),
         NEW w, Step(w), w.unified = query.unified,
         w.pc \in Climbing => /\ query.pc \in Climbing /\ Ceiling(w) \in Int
                              /\ Ceiling(query) <= Ceiling(w)
  PROVE  PartitionInv(Height)'
<1>1. Unified(query.unified) \subseteq Vars
  BY DEF ClimbInv, QueryType, Groups, Unified, ToSet
<1>2. query.level \in Int
  BY DEF ClimbInv, QueryType, Levels, Assumptions, PathAssumption
<1>3. Ceiling(query) \in Int
  BY <1>2 DEF Ceiling
<1>4. \A x \in Vars : Height[x] \in Int
  BY DEF VariablesOwned
<1>5. StoreApart(w, Height)
  BY <1>1, <1>3, <1>4 DEF PartitionInv, StoreApart
<1>6. query' = w /\ conditions' = conditions
  BY DEF Step
<1>7. QED
  BY <1>5, <1>6 DEF PartitionInv, OwnStores

\* The lock, the test of the store, the end of a visit and the climb.
LEMMA PassStays ==
  ASSUME Assumptions, NEW Height, VariablesOwned(Height), ClimbInv, PartitionInv(Height),
         LockPlan \/ AcceptQuery \/ MoveUp \/ Solve \/ WriteBack
  PROVE  PartitionInv(Height)'
<1>1. query \in QueryType /\ query.level \in Int
  BY DEF ClimbInv, QueryType, Levels, Assumptions, PathAssumption
<1>2. CASE LockPlan
  <2>1. PICK c \in {"collected", "accept"} : Step([query EXCEPT !.pc = c])
    BY <1>2 DEF LockPlan
  <2> DEFINE w == [query EXCEPT !.pc = c]
  <2>2. w.unified = query.unified /\ w.pc = c /\ w.level = query.level /\ query.pc = "lock"
    BY <1>1, <1>2 DEF QueryType, LockPlan
  <2> HIDE DEF w
  <2>3. w.pc \in Climbing => /\ query.pc \in Climbing /\ Ceiling(w) \in Int
                             /\ Ceiling(query) <= Ceiling(w)
    BY <1>1, <2>2 DEF Ceiling, Climbing
  <2>4. Step(w)
    BY <2>1 DEF w
  <2>5. QED
    BY <2>2, <2>3, <2>4, StoreStays
<1>3. CASE AcceptQuery
  <2>1. PICK c \in {"type", "take"} : Step([query EXCEPT !.pc = c, !.before = query.parts])
    BY <1>3 DEF AcceptQuery
  <2> DEFINE w == [query EXCEPT !.pc = c, !.before = query.parts]
  <2>2. w.unified = query.unified /\ w.pc = c /\ w.level = query.level /\ query.pc = "accept"
    BY <1>1, <1>3 DEF QueryType, AcceptQuery
  <2> HIDE DEF w
  <2>3. w.pc \in Climbing => /\ query.pc \in Climbing /\ Ceiling(w) \in Int
                             /\ Ceiling(query) <= Ceiling(w)
    BY <1>1, <2>2 DEF Ceiling, Climbing
  <2>4. Step(w)
    BY <2>1 DEF w
  <2>5. QED
    BY <2>2, <2>3, <2>4, StoreStays
<1>4. CASE MoveUp
  <2>1. \/ Step([query EXCEPT !.pc = "lock", !.level = query.level + 1])
        \/ Step([query EXCEPT !.pc = "collected"])
    BY <1>4 DEF MoveUp
  <2>2. query.pc = "up"
    BY <1>4 DEF MoveUp
  <2>3. CASE Step([query EXCEPT !.pc = "lock", !.level = query.level + 1])
    <3> DEFINE w == [query EXCEPT !.pc = "lock", !.level = query.level + 1]
    <3>1. w.unified = query.unified /\ w.pc = "lock" /\ w.level = query.level + 1
      BY <1>1 DEF QueryType
    <3> HIDE DEF w
    <3>2. query.pc \in Climbing /\ Ceiling(w) \in Int /\ Ceiling(query) <= Ceiling(w)
      BY <1>1, <2>2, <3>1 DEF Ceiling, Climbing
    <3>3. Step(w)
      BY <2>3 DEF w
    <3>4. QED
      BY <3>1, <3>2, <3>3, StoreStays
  <2>4. CASE Step([query EXCEPT !.pc = "collected"])
    <3> DEFINE w == [query EXCEPT !.pc = "collected"]
    <3>1. w.unified = query.unified /\ w.pc = "collected"
      BY <1>1 DEF QueryType
    <3> HIDE DEF w
    <3>2. w.pc \notin Climbing
      BY <3>1 DEF Climbing
    <3>3. Step(w)
      BY <2>4 DEF w
    <3>4. QED
      BY <3>1, <3>2, <3>3, StoreStays
  <2>5. QED
    BY <2>1, <2>3, <2>4
<1>5. CASE Solve
  <2>1. PICK c \in {"empty", "solved"} : Step([query EXCEPT !.pc = c])
    BY <1>5 DEF Solve
  <2> DEFINE w == [query EXCEPT !.pc = c]
  <2>2. w.unified = query.unified /\ w.pc = c
    BY <1>1 DEF QueryType
  <2> HIDE DEF w
  <2>3. w.pc \notin Climbing
    BY <2>2 DEF Climbing
  <2>4. Step(w)
    BY <2>1 DEF w
  <2>5. QED
    BY <2>2, <2>3, <2>4, StoreStays
<1>6. CASE WriteBack
  <2> DEFINE c1 == query.cur \cup query.next
             d1 == query.dcur \cup query.dnext
             w == [query EXCEPT !.pc = "type", !.cur = c1, !.next = {}, !.dcur = d1, !.dnext = {}]
  <2>1. Step(w) /\ query.pc = "take"
    BY <1>6 DEF WriteBack
  <2> HIDE DEF c1, d1
  <2>2. w.unified = query.unified /\ w.pc = "type" /\ w.level = query.level
    BY <1>1 DEF QueryType
  <2> HIDE DEF w
  <2>3. query.pc \in Climbing /\ Ceiling(w) \in Int /\ Ceiling(query) <= Ceiling(w)
    BY <1>1, <2>1, <2>2 DEF Ceiling, Climbing
  <2>4. QED
    BY <2>1, <2>2, <2>3, StoreStays
<1>7. QED
  BY <1>2, <1>3, <1>4, <1>5, <1>6

\* addProblemPart (Query.cpp): the variables of the conditions of a plan belong to
\* that plan or one below.
LEMMA PartsStay ==
  ASSUME Assumptions, NEW Height, VariablesOwned(Height), ClimbInv, PartitionInv(Height),
         query.pc = "take", NEW q \in QueryType, NEW C \in SUBSET conditions[query.level],
         q.unified = query.unified, q.pc = query.pc, q.level = query.level,
         Step(AddProblemParts(q, C))
  PROVE  PartitionInv(Height)'
<1> DEFINE parts == {[cond |-> c, level |-> q.level, dvars |-> DomainVarsOf(c, q.level)] : c \in C}
           static == (UNION {CondVars[c] : c \in C}) \ (q.cur \cup q.next)
           dvars == UNION {p.dvars : p \in parts}
           w == AddProblemParts(q, C)
<1>1. /\ query.level \in Levels /\ query.level \in Int /\ query.unified \in Groups
      /\ conditions[query.level] \in SUBSET Conds
  BY DEF ClimbInv, PathType, QueryType, Levels, Assumptions, PathAssumption
<1>2. w.pc = "take" /\ w.level = query.level /\ w.unified = AddChecked(query.unified, static)
  <2> DEFINE d1 == q.dcur \cup (dvars \ (q.dcur \cup q.dnext))
             w1 == [q EXCEPT !.parts = q.parts \cup parts, !.dcur = d1, !.cur = q.cur \cup static,
                             !.unified = AddChecked(q.unified, static)]
  <2>1. w = w1
    BY Zenon DEF AddProblemParts
  <2> HIDE DEF w, parts, static, d1
  <2>2. QED
    BY <2>1 DEF QueryType
<1>3. static \in SUBSET Vars
  BY <1>1 DEF Assumptions, ConditionAssumption
<1>4. \A v \in static : Height[v] <= 2 * query.level - 1
  BY <1>1 DEF PartitionInv, OwnStores, VariablesOwned
<1> HIDE DEF static, w
<1>5. Apart(query.unified) /\ \A v \in Unified(query.unified) : Height[v] <= 2 * query.level - 1
  BY DEF PartitionInv, StoreApart, Climbing, Ceiling
<1>6. Apart(w.unified) /\ Unified(w.unified) \subseteq Unified(query.unified) \cup static
  BY <1>1, <1>2, <1>3, <1>5, AddCheckedApart
<1>7. StoreApart(w, Height)
  BY <1>2, <1>4, <1>5, <1>6 DEF StoreApart, Ceiling
<1>8. query' = w /\ conditions' = conditions
  BY DEF Step, w
<1>9. QED
  BY <1>7, <1>8 DEF PartitionInv, OwnStores

\* Both loops of acceptQuery take the conditions from the store of the plan.
LEMMA TakeStays ==
  ASSUME Assumptions, NEW Height, VariablesOwned(Height), ClimbInv, PartitionInv(Height),
         \/ \E x \in Vars : TakeStatic(x)
         \/ \E d \in DomainVars : TakeDomain(d)
  PROVE  PartitionInv(Height)'
<1>1. query \in QueryType
  BY DEF ClimbInv
<1>2. ASSUME NEW x \in Vars, TakeStatic(x) PROVE PartitionInv(Height)'
  <2> DEFINE c1 == query.cur \ {x}
             n1 == query.next \cup {x}
             q == [query EXCEPT !.cur = c1, !.next = n1]
             C == ActiveUnder(query.level, x) \ PartConds(NewParts)
  <2>1. query.pc = "take" /\ Step(AddProblemParts(q, C))
    BY <1>2 DEF TakeStatic
  <2>2. C \in SUBSET conditions[query.level]
    BY DEF ActiveUnder
  <2>3. c1 \in SUBSET Vars /\ n1 \in SUBSET Vars
    BY <1>1 DEF QueryType
  <2> HIDE DEF c1, n1, C
  <2>4. q \in QueryType /\ q.unified = query.unified /\ q.pc = query.pc /\ q.level = query.level
    BY <1>1, <2>3 DEF QueryType
  <2> HIDE DEF q
  <2>5. QED
    BY <2>1, <2>2, <2>4, PartsStay
<1>3. ASSUME NEW d \in DomainVars, TakeDomain(d) PROVE PartitionInv(Height)'
  <2> DEFINE c1 == query.dcur \ {d}
             n1 == query.dnext \cup {d}
             q == [query EXCEPT !.dcur = c1, !.dnext = n1]
  <2>1. query.pc = "take" /\ d \in DomainVars
    BY <1>3 DEF TakeDomain
  <2>2. PICK C \in SUBSET conditions[query.level] : Step(AddProblemParts(q, C))
    <3>1. ActiveUnder(query.level, d[2]) \in SUBSET conditions[query.level]
      BY DEF ActiveUnder
    <3>2. QED
      BY <1>3, <3>1 DEF TakeDomain
  <2>3. c1 \in SUBSET DomainVars /\ n1 \in SUBSET DomainVars
    BY <1>1, <2>1 DEF QueryType
  <2> HIDE DEF c1, n1
  <2>4. q \in QueryType /\ q.unified = query.unified /\ q.pc = query.pc /\ q.level = query.level
    BY <1>1, <2>3 DEF QueryType
  <2> HIDE DEF q
  <2>5. QED
    BY <2>1, <2>2, <2>4, PartsStay
<1>4. QED
  BY <1>2, <1>3

\* Bindings lead one plan or plan type up, where no variable is known yet.
LEMMA BindStays ==
  ASSUME Assumptions, NEW Height, VariablesOwned(Height), ClimbInv, PartitionInv(Height),
         NEW q \in QueryType, q.unified = query.unified, q.cur = query.cur,
         q.pc \in Climbing, query.pc \in Climbing, Ceiling(q) = Ceiling(query) + 1,
         NEW B \in SUBSET (Vars \X Vars), BindsApart(B, Height, Ceiling(q)),
         NEW kept, Step(Bind(q, kept, B))
  PROVE  PartitionInv(Height)'
<1> DEFINE used == {b \in B : b[1] \in q.cur}
           c1 == kept \cup {b[2] : b \in used}
           u1 == AddVarTo(q.unified, used)
           w == [q EXCEPT !.cur = c1, !.next = q.cur, !.unified = u1]
<1>1. w = Bind(q, kept, B)
  BY Zenon DEF Bind
<1>2. used \in SUBSET (Vars \X Vars) /\ used \subseteq B /\ \A b \in used : b[1] \in q.cur
  OBVIOUS
<1> HIDE DEF used, c1, u1
<1>3. w.unified = u1 /\ w.pc = q.pc /\ w.level = q.level
  BY DEF QueryType
<1> HIDE DEF w
<1>4. Ceiling(query) \in Int /\ Ceiling(q) \in Int /\ Ceiling(w) = Ceiling(q)
  <2>1. query.level \in Int /\ q.level \in Int
    BY DEF ClimbInv, QueryType, Levels, Assumptions, PathAssumption
  <2>2. QED
    BY <1>3, <2>1 DEF Ceiling
<1>5. /\ query.unified \in Groups /\ Apart(query.unified)
      /\ \A v \in Unified(query.unified) : Height[v] <= Ceiling(query)
      /\ Unified(query.unified) \subseteq Vars
      /\ query.cur \subseteq Unified(query.unified)
  BY DEF ClimbInv, QueryType, Groups, Unified, ToSet, Covered, PartitionInv, StoreApart
<1>6. \A x \in Vars : Height[x] \in Int
  BY DEF VariablesOwned
<1>7. \A b \in used : /\ b[1] \in Unified(query.unified) /\ Height[b[2]] = Ceiling(q)
                      /\ b[2] \notin Unified(query.unified)
  BY <1>2, <1>4, <1>5 DEF BindsApart
<1>8. \A b, c \in used : b[2] = c[2] => b[1] = c[1]
  BY <1>2 DEF BindsApart
<1>9. Apart(u1) /\ Unified(u1) \subseteq Unified(query.unified) \cup {b[2] : b \in used}
  BY <1>2, <1>5, <1>7, <1>8, AddVarApart DEF u1
<1>10. \A v \in Unified(u1) : Height[v] <= Ceiling(q)
  BY <1>4, <1>5, <1>6, <1>7, <1>9
<1>11. StoreApart(w, Height)
  BY <1>3, <1>4, <1>9, <1>10 DEF StoreApart
<1>12. query' = w /\ conditions' = conditions
  BY <1>1 DEF Step
<1>13. QED
  BY <1>11, <1>12 DEF PartitionInv, OwnStores

\* A plan type's bindings, and those of the parent's state.
LEMMA BindingsStay ==
  ASSUME Assumptions, NEW Height, VariablesOwned(Height), ClimbInv, PartitionInv(Height),
         BindType \/ BindState
  PROVE  PartitionInv(Height)'
<1>1. query \in QueryType /\ query.level \in Levels /\ query.level \in Int
  BY DEF ClimbInv, QueryType, Levels, Assumptions, PathAssumption
<1>2. CASE BindType
  <2> DEFINE q == [query EXCEPT !.pc = "state"]
             B == TypeBinding[query.level]
  <2>1. query.pc = "type" /\ Step(IF B = NoType THEN q ELSE Bind(q, query.next, B))
    BY <1>2 DEF BindType
  <2>2. /\ q \in QueryType /\ q.unified = query.unified /\ q.cur = query.cur
        /\ q.pc = "state" /\ q.level = query.level
    BY <1>1 DEF QueryType, QueryPcs
  <2>3. B # NoType => /\ B \in SUBSET (Vars \X Vars)
                      /\ BindsApart(B, Height, 2 * query.level)
    BY <1>1 DEF Assumptions, BindingAssumption, VariablesOwned
  <2> HIDE DEF q, B
  <2>4. /\ q.pc \in Climbing /\ query.pc \in Climbing
        /\ Ceiling(q) = 2 * query.level /\ Ceiling(query) = 2 * query.level - 1
    BY <2>1, <2>2 DEF Climbing, Ceiling
  <2>5. Ceiling(q) \in Int /\ Ceiling(query) <= Ceiling(q) /\ Ceiling(q) = Ceiling(query) + 1
    BY <1>1, <2>4
  <2>6. CASE B = NoType
    BY <2>1, <2>2, <2>4, <2>5, <2>6, StoreStays
  <2>7. CASE B # NoType
    <3>1. Step(Bind(q, query.next, B)) /\ BindsApart(B, Height, Ceiling(q))
          /\ B \in SUBSET (Vars \X Vars)
      BY <2>1, <2>3, <2>4, <2>7
    <3>2. QED
      BY <2>2, <2>4, <2>5, <3>1, BindStays
  <2>8. QED
    BY <2>6, <2>7
<1>3. CASE BindState
  <2> DEFINE q == [query EXCEPT !.pc = "up"]
             up == query.level + 1
             B == StateBinding[up][place[up][Me]]
  <2>1. query.pc = "state" /\ Step(IF query.level \notin parent THEN q ELSE Bind(q, {}, B))
    BY <1>3 DEF BindState
  <2>2. /\ q \in QueryType /\ q.unified = query.unified /\ q.cur = query.cur
        /\ q.pc = "up" /\ q.level = query.level
    BY <1>1 DEF QueryType, QueryPcs
  <2>3. query.level \in parent => /\ B \in SUBSET (Vars \X Vars)
                                  /\ BindsApart(B, Height, 2 * query.level + 1)
    <3> SUFFICES ASSUME query.level \in parent
                 PROVE  B \in SUBSET (Vars \X Vars) /\ BindsApart(B, Height, 2 * query.level + 1)
      OBVIOUS
    <3>1. parent \subseteq 1..(Top - 1)
      BY DEF ClimbInv, PathType
    <3>2. query.level \in 1..(Top - 1) /\ Top \in Nat
      BY <3>1 DEF Assumptions, PathAssumption
    <3>3. up \in Levels \ {1} /\ 2 * up - 1 = 2 * query.level + 1
      BY <3>2 DEF Levels
    <3> HIDE DEF up
    <3>4. place[up][Me] \in States
      BY <3>3 DEF ClimbInv, PathType
    <3>5. BindsApart(B, Height, 2 * up - 1)
      BY <3>3, <3>4 DEF VariablesOwned
    <3>6. B \in SUBSET (Vars \X Vars)
      BY <3>3, <3>4 DEF Assumptions, BindingAssumption
    <3>7. QED
      BY <3>3, <3>5, <3>6
  <2> HIDE DEF q, B
  <2>4. /\ q.pc \in Climbing /\ query.pc \in Climbing
        /\ Ceiling(q) = 2 * query.level + 1 /\ Ceiling(query) = 2 * query.level
    BY <2>1, <2>2 DEF Climbing, Ceiling
  <2>5. Ceiling(q) \in Int /\ Ceiling(query) <= Ceiling(q) /\ Ceiling(q) = Ceiling(query) + 1
    BY <1>1, <2>4
  <2>6. CASE query.level \notin parent
    BY <2>1, <2>2, <2>4, <2>5, <2>6, StoreStays
  <2>7. CASE query.level \in parent
    <3>1. Step(Bind(q, {}, B)) /\ BindsApart(B, Height, Ceiling(q)) /\ B \in SUBSET (Vars \X Vars)
      BY <2>1, <2>3, <2>4, <2>7
    <3>2. QED
      BY <2>2, <2>4, <2>5, <3>1, BindStays
  <2>8. QED
    BY <2>6, <2>7
<1>4. QED
  BY <1>2, <1>3

\* A new query has a group for each variable it asks for.
LEMMA AskStays ==
  ASSUME Assumptions, NEW Height, VariablesOwned(Height), ClimbInv, PartitionInv(Height),
         NEW ask \in Questions, Ask(ask)
  PROVE  PartitionInv(Height)'
<1> DEFINE st == ask.static
           un == {<<x>> : x \in st}
           w == [Blank EXCEPT !.static = st, !.domain = ask.domain, !.pc = "lock", !.cur = st,
                              !.dcur = ask.domain, !.unified = un]
<1>1. query' = w /\ conditions' = conditions
  BY DEF Ask
<1>2. \A x \in st : ToSet(<<x>>) = {x} /\ Height[x] <= 1
  BY DEF ToSet, VariablesOwned
<1> HIDE DEF st
<1>3. Apart(un) /\ Unified(un) \subseteq st
  BY <1>2 DEF Apart, Unified
<1> HIDE DEF un
<1>4. w.unified = un /\ w.level = 1 /\ w.pc = "lock"
  BY DEF Blank
<1> HIDE DEF w
<1>5. Ceiling(w) = 1
  BY <1>4 DEF Ceiling
<1>6. StoreApart(w, Height)
  BY <1>2, <1>3, <1>4, <1>5 DEF StoreApart
<1>7. QED
  BY <1>1, <1>6 DEF PartitionInv, OwnStores

\* The stores of the plans hold their own conditions only.
LEMMA OwnStoresStay ==
  ASSUME Assumptions, ClimbInv, OwnStores, [Next]_vars
  PROVE  OwnStores'
<1>1. conditions \in [Levels -> SUBSET Conds] /\ engine.level \in Levels
  BY DEF ClimbInv, PathType, EngineType
<1> SUFFICES ASSUME NEW k \in Levels PROVE conditions'[k] \subseteq OwnConds(k)
  BY DEF OwnStores
<1>2. conditions[k] \subseteq OwnConds(k)
  BY DEF OwnStores
<1>3. PlanConds[k] \subseteq OwnConds(k) /\ \A s \in States : MoveConds[k][s] \subseteq OwnConds(k)
  BY DEF OwnConds
<1>4. ASSUME NEW l \in Levels, NEW s \in States, TakeTransition(l, s)
      PROVE  conditions'[k] \subseteq OwnConds(k)
  BY <1>1, <1>2, <1>3, <1>4 DEF TakeTransition
<1>5. CASE Leave
  <2>1. PICK S : conditions' = Revoked(S)
    BY <1>5 DEF Leave
  <2>2. QED
    BY <1>2, <2>1 DEF Revoked
<1>6. CASE Enter
  <2>1. conditions' = IF engine.locked THEN conditions
                      ELSE [conditions EXCEPT ![engine.level] = @ \cup PlanConds[engine.level]]
    BY <1>6 DEF Enter
  <2>2. QED
    BY <1>1, <1>2, <1>3, <2>1
<1>7. CASE conditions' = conditions
  BY <1>2, <1>7
<1>8. QueryStep => conditions' = conditions
  BY DEF QueryStep, LockPlan, AcceptQuery, WriteBack, BindType, BindState, MoveUp, Solve,
         TakeStatic, TakeDomain, Step
<1>9. QED
  BY <1>4, <1>5, <1>6, <1>7, <1>8 DEF Next, AdaptAssignment, MoveAgent, Ask, vars

\* The engine leaves the groups alone.
LEMMA EngineKeepsStore ==
  ASSUME Assumptions, NEW Height, ClimbInv, PartitionInv(Height),
         \/ \E l \in Levels, s \in States : TakeTransition(l, s) \/ AdaptAssignment(l, s)
         \/ \E l \in Levels, a \in Agents, s \in States \cup {Away} : MoveAgent(l, a, s)
         \/ Leave \/ Enter
  PROVE  PartitionInv(Height)'
<1>1. query' = query
  BY DEF TakeTransition, AdaptAssignment, MoveAgent, Leave, Enter
<1>2. OwnStores'
  BY OwnStoresStay DEF PartitionInv, Next
<1>3. QED
  BY <1>1, <1>2 DEF PartitionInv

\* Every step keeps the groups apart.
LEMMA PartitionStep ==
  ASSUME Assumptions, NEW Height, VariablesOwned(Height)
  PROVE  ClimbInv /\ PartitionInv(Height) /\ [Next]_vars => PartitionInv(Height)'
<1> SUFFICES ASSUME ClimbInv, PartitionInv(Height), [Next]_vars PROVE PartitionInv(Height)'
  OBVIOUS
<1>1. CASE QueryStep
  <2>1. CASE LockPlan \/ AcceptQuery \/ MoveUp \/ Solve \/ WriteBack
    BY <2>1, PassStays
  <2>2. CASE BindType \/ BindState
    BY <2>2, BindingsStay
  <2>3. CASE (\E x \in Vars : TakeStatic(x)) \/ \E d \in DomainVars : TakeDomain(d)
    BY <2>3, TakeStays
  <2>4. QED
    BY <1>1, <2>1, <2>2, <2>3 DEF QueryStep
<1>2. CASE \E ask \in Questions : Ask(ask)
  BY <1>2, AskStays
<1>3. CASE UNCHANGED vars
  BY <1>3 DEF vars, PartitionInv, OwnStores
<1>4. QED
  BY <1>1, <1>2, <1>3, EngineKeepsStore DEF Next

\* The groups of UniqueVarStore stay a partition, so that getIndexOf, addVarTo and
\* getSolverVariable, which take the first group they find, mean the same one: if
\* each variable belongs to one plan of the path and no two variables of a child
\* are bound to the same variable of its parent.
THEOREM UnificationsStayApart ==
  ASSUME NEW Height, VariablesOwned(Height)
  PROVE  Spec => []StorePartitioned
<1>1. Assumptions
  BY PathAssumption, ConditionAssumption, BindingAssumption, QuestionAssumption DEF Assumptions
<1>2. Init => PartitionInv(Height)
  <2> SUFFICES ASSUME Init PROVE PartitionInv(Height)
    OBVIOUS
  <2>1. query.unified = {} /\ query.pc = "idle" /\ conditions = PlanConds
    BY DEF Init, Blank
  <2>2. StoreApart(query, Height)
    BY <2>1 DEF StoreApart, Apart, Climbing
  <2>3. QED
    BY <2>1, <2>2 DEF PartitionInv, OwnStores, OwnConds
<1>3. ClimbInv /\ PartitionInv(Height) /\ [Next]_vars => PartitionInv(Height)'
  BY <1>1, PartitionStep
<1>4. ClimbInv /\ PartitionInv(Height) => StorePartitioned
  <2> SUFFICES ASSUME ClimbInv, PartitionInv(Height) PROVE StorePartitioned
    OBVIOUS
  <2>1. GroupsDisjoint
    BY DEF PartitionInv, StoreApart, Apart, GroupsDisjoint
  <2>2. /\ conditions \in [Levels -> SUBSET Conds]
        /\ place \in [Levels -> [Agents -> States \cup {Away}]]
        /\ parent \subseteq 1..(Top - 1)
        /\ engine.stage \in {"idle", "leave", "enter"} /\ engine.level \in Levels
        /\ changes \in 0..MaxChanges /\ queries \in 0..MaxQueries
        /\ quiet \in BOOLEAN
    BY DEF ClimbInv, PathType, EngineType
  <2>3. /\ query.pc \in Ended \cup {"lock", "accept", "take", "type", "state", "up", "collected"}
        /\ query.level \in Levels
        /\ query.cur \cup query.next \cup query.static \subseteq Vars
        /\ query.dcur \cup query.dnext \cup query.domain \subseteq DomainVars
        /\ query.unified \in Groups /\ query.parts \in PartSet
    BY DEF ClimbInv, QueryType, QueryPcs
  <2>4. \A g \in query.unified : g # << >> /\ ToSet(g) \subseteq Vars
    BY <2>3 DEF Groups, ToSet
  <2>5. \A p \in query.parts : p.cond \in Conds /\ p.level \in Levels
    BY <2>3 DEF PartSet
  <2>6. QED
    BY <2>1, <2>2, <2>3, <2>4, <2>5 DEF StorePartitioned, TypeOK
<1>5. QED
  BY <1>2, <1>3, <1>4, QueryInvariant, PTL DEF Spec

-------------------------------------------------------------------------------
(* The problem that is posed *)

\* The conditions whose quantifiers cover the domain variable d.
Covers(c, d, l) == \E q \in Quantifiers[c] : d[2] \in q.vars /\ d[1] \in AgentsInScope(q, l)

Searched(P, l) == \A c \in conditions[l] : Concerned(P, c, l) => c \in P

Least(P) == \A Q \in SUBSET Conds : Closed(Q) => P \subseteq Q

\* A part is of a condition of a plan the climb has reached.
PartsOf(q) ==
  \A p \in q.parts : /\ p.level <= q.level /\ p.cond \in conditions[p.level]
                     /\ p.dvars = DomainVarsOf(p.cond, p.level)

\* The buffers hold what matters at the level, besides what an earlier level left
\* in them.
Buffers(q, P, Height) ==
  LET l == q.level
      h == 2 * l - 1
      rel == RelevantVars(P)[l]
  IN CASE q.pc \in {"lock", "accept"} ->
            /\ q.cur = rel /\ q.dcur = RelevantDomain(P, l)
            /\ \A v \in q.next : Height[v] < h
            /\ \A p \in q.parts : p.level < l
       [] q.pc = "take" ->
            /\ q.cur \subseteq rel /\ rel \subseteq q.cur \cup q.next
            /\ \A v \in q.next : Height[v] < h \/ (v \in rel /\ ActiveUnder(l, v) \subseteq P)
            /\ q.dcur \cup q.dnext = RelevantDomain(P, l)
            /\ \A d \in q.dnext : \A c \in conditions[l] : Covers(c, d, l) => c \in P
            /\ q.before \subseteq q.parts
            /\ \A p \in q.parts : p.level = l <=> p \notin q.before
       [] q.pc = "type" ->
            /\ \A v \in q.cur : Height[v] <= h
            /\ {v \in q.cur : Height[v] = h} = rel
            /\ \A v \in q.next : Height[v] < h
            /\ q.dcur = RelevantDomain(P, l)
       [] q.pc = "state" ->
            /\ \A v \in q.cur : Height[v] <= h + 1
            /\ {v \in q.cur : Height[v] = IF TypeBinding[l] = NoType THEN h ELSE h + 1} = Typed(l, rel)
            /\ q.dcur = RelevantDomain(P, l)
       [] q.pc = "up" ->
            /\ l \in parent => /\ q.cur = Bound(Typed(l, rel), BindingsUp[l + 1])
                               /\ \A v \in q.next : Height[v] < h + 2
            /\ q.dcur = RelevantDomain(P, l)
       [] OTHER -> Closed(P)

\* The levels that have been searched.
Done(q) == 1..(IF q.pc \in {"lock", "accept", "take"} THEN q.level - 1 ELSE q.level)

Posed(q, Height) ==
  LET P == PartConds(q.parts)
  IN /\ PartsOf(q)
     /\ \A v \in q.static : Height[v] = 1
     /\ Least(P)
     /\ \A k \in 1..(q.level - 1) : k \in parent
     /\ q.pc \in Climbing => \A k \in Done(q) : Searched(P, k)
     /\ Buffers(q, P, Height)

PoseInv(Height) == OwnStores /\ (quiet /\ query.pc # "idle" => Posed(query, Height))

-------------------------------------------------------------------------------
(* What matters, level by level *)

\* The recursion of Collect: a level's own variables and those that are bound to.
LEMMA CollectUnfolds ==
  ASSUME Assumptions, NEW own \in [Levels -> SUBSET Vars],
         NEW over \in [Levels -> SUBSET (Vars \X Vars)], NEW asked \in SUBSET Vars
  PROVE  /\ Collect(own, over, asked) \in [Levels -> SUBSET Vars]
         /\ \A l \in Levels :
              Collect(own, over, asked)[l] =
                own[l] \cup IF l = 1 THEN asked
                            ELSE Bound(Typed(l - 1, Collect(own, over, asked)[l - 1]), over[l])
<1> DEFINE S == SUBSET Vars
           At(l, X) == own[l] \cup IF l = 1 THEN asked ELSE Bound(Typed(l - 1, X), over[l])
           F == [l \in 1..Top |-> [X \in S |-> At(l, X)]]
           Rec(rel) == rel = [l \in Levels |-> own[l] \cup IF l = 1 THEN asked
                                  ELSE Bound(Typed(l - 1, rel[l - 1]), over[l])]
<1>1. Top \in Nat /\ Levels = 1..Top
  BY DEF Assumptions, PathAssumption, Levels
<1>2. ASSUME NEW l \in Levels, NEW X \in S PROVE At(l, X) \in S
  <2>1. Bound(Typed(l - 1, X), over[l]) \subseteq Vars
    BY DEF Bound
  <2>2. QED
    BY <2>1
<1>3. F \in StepsOn(S, Top)
  BY <1>1, <1>2 DEF StepsOn
<1>4. PICK f : StaysIn(f, S, Top) /\ Unfolds(f, {}, F, Top)
  <2> HIDE DEF F
  <2>1. {} \in S
    OBVIOUS
  <2> HIDE DEF S
  <2>2. QED
    BY <1>1, <1>3, <2>1, IntervalRecursion
<1>5. f \in [0..Top -> S]
  BY <1>4 DEF StaysIn
<1>6. ASSUME NEW l \in Levels PROVE f[l] = At(l, f[l - 1])
  <2>1. f[l] = F[l][f[l - 1]]
    BY <1>1, <1>4 DEF Unfolds
  <2>2. l - 1 \in 0..Top
    BY <1>1
  <2>3. f[l - 1] \in S
    BY <1>5, <2>2
  <2>4. QED
    BY <1>1, <2>1, <2>3
<1> DEFINE r == [l \in Levels |-> f[l]]
<1>7. ASSUME NEW l \in Levels PROVE r[l] = At(l, r[l - 1])
  <2>1. CASE l = 1
    BY <1>6, <2>1
  <2>2. CASE l # 1
    <3>1. l - 1 \in Levels
      BY <1>1, <2>2
    <3>2. r[l - 1] = f[l - 1]
      BY <3>1
    <3>3. QED
      BY <1>6, <3>2
  <2>3. QED
    BY <2>1, <2>2
<1> DEFINE rr == [l \in Levels |-> At(l, r[l - 1])]
<1>8. r = rr
  <2>1. \A l \in Levels : r[l] = rr[l]
    BY <1>7
  <2> DEFINE r0 == [l \in Levels |-> r[l]]
  <2>2. r = r0
    OBVIOUS
  <2>3. QED
    BY <2>1
<1> HIDE DEF r
<1>9. Rec(r)
  BY <1>8
<1>10. Rec(Collect(own, over, asked))
  <2>1. Collect(own, over, asked) = CHOOSE rel : Rec(rel)
    BY DEF Collect
  <2> HIDE DEF Rec
  <2>2. QED
    BY <1>9, <2>1
<1> DEFINE c == Collect(own, over, asked)
<1> HIDE DEF c
<1>11. Rec(c)
  BY <1>10 DEF c
<1>12. \A l \in Levels : c[l] = At(l, c[l - 1])
  BY <1>11
<1>13. ASSUME NEW l \in Levels PROVE c[l] \in SUBSET Vars
  <2>1. Bound(Typed(l - 1, c[l - 1]), over[l]) \subseteq Vars
    BY DEF Bound
  <2>2. QED
    BY <1>12, <2>1
<1>14. c \in [Levels -> SUBSET Vars]
  <2>1. c = [l \in Levels |-> c[l]]
    <3> DEFINE g == [l \in Levels |-> At(l, c[l - 1])]
    <3>1. c = g
      BY <1>11
    <3>2. \A l \in Levels : g[l] = c[l]
      BY <1>12
    <3>3. QED
      BY <3>1
  <2>2. QED
    BY <1>13, <2>1
<1>15. QED
  BY <1>12, <1>14 DEF c

\* The variables that matter at a level.
LEMMA RelevantUnfolds ==
  ASSUME Assumptions, PathType, query.static \in SUBSET Vars, NEW P
  PROVE  /\ RelevantVars(P) \in [Levels -> SUBSET Vars]
         /\ \A l \in Levels :
              RelevantVars(P)[l] =
                (UNION {CondVars[c] : c \in P \cap conditions[l]})
                \cup IF l = 1 THEN query.static
                     ELSE Bound(Typed(l - 1, RelevantVars(P)[l - 1]), BindingsUp[l])
<1>1. OwnVars(P) \in [Levels -> SUBSET Vars]
  <2>1. ASSUME NEW l \in Levels PROVE UNION {CondVars[c] : c \in P \cap conditions[l]} \in SUBSET Vars
    <3>1. \A c \in conditions[l] : CondVars[c] \subseteq Vars
      BY DEF PathType, Assumptions, ConditionAssumption
    <3>2. QED
      BY <3>1
  <2>2. QED
    BY <2>1 DEF OwnVars
<1>2. BindingsUp \in [Levels -> SUBSET (Vars \X Vars)]
  BY DEF BindingsUp, PathType, Assumptions, BindingAssumption
<1>3. \A l \in Levels : OwnVars(P)[l] = UNION {CondVars[c] : c \in P \cap conditions[l]}
  BY DEF OwnVars
<1> DEFINE own == OwnVars(P)
           over == BindingsUp
           asked == query.static
<1>4. RelevantVars(P) = Collect(own, over, asked)
  BY DEF RelevantVars
<1> HIDE DEF own, over, asked
<1>5. own \in [Levels -> SUBSET Vars] /\ over \in [Levels -> SUBSET (Vars \X Vars)]
      /\ asked \in SUBSET Vars
  BY <1>1, <1>2 DEF own, over, asked
<1>6. /\ RelevantVars(P) \in [Levels -> SUBSET Vars]
      /\ \A l \in Levels :
           RelevantVars(P)[l] =
             own[l] \cup IF l = 1 THEN asked
                         ELSE Bound(Typed(l - 1, RelevantVars(P)[l - 1]), over[l])
  BY <1>4, <1>5, CollectUnfolds
<1>7. \A l \in Levels : own[l] = UNION {CondVars[c] : c \in P \cap conditions[l]}
  BY <1>3 DEF own
<1>8. asked = query.static /\ over = BindingsUp
  BY DEF asked, over
<1>9. ASSUME NEW l \in Levels
      PROVE  RelevantVars(P)[l] =
                (UNION {CondVars[c] : c \in P \cap conditions[l]})
                \cup IF l = 1 THEN query.static
                     ELSE Bound(Typed(l - 1, RelevantVars(P)[l - 1]), BindingsUp[l])
  <2>1. RelevantVars(P)[l] =
          own[l] \cup IF l = 1 THEN asked
                      ELSE Bound(Typed(l - 1, RelevantVars(P)[l - 1]), over[l])
    BY <1>6
  <2>2. own[l] = UNION {CondVars[c] : c \in P \cap conditions[l]}
    BY <1>7
  <2>3. QED
    BY <1>8, <2>1, <2>2
<1>10. QED
  BY <1>6, <1>9

\* Bound and Typed are monotone.
LEMMA BoundGrows ==
  ASSUME NEW S, NEW T, S \subseteq T, NEW l, NEW B
  PROVE  Bound(S, B) \subseteq Bound(T, B) /\ Typed(l, S) \subseteq Typed(l, T)
BY DEF Bound, Typed

\* More conditions make more variables matter.
LEMMA RelevantGrows ==
  ASSUME Assumptions, PathType, query.static \in SUBSET Vars, NEW P, NEW Q, NEW m \in Levels,
         \A k \in 1..m : P \cap conditions[k] \subseteq Q \cap conditions[k]
  PROVE  \A k \in 1..m : RelevantVars(P)[k] \subseteq RelevantVars(Q)[k]
<1> DEFINE S == {k \in 0..m : k = 0 \/ RelevantVars(P)[k] \subseteq RelevantVars(Q)[k]}
<1>1. m \in Nat /\ m <= Top /\ Levels = 1..Top /\ Top \in Nat
  BY DEF Assumptions, PathAssumption, Levels
<1>2. 0 \in S
  BY <1>1
<1>3. ASSUME NEW n \in 0..(m - 1), n \in S PROVE n + 1 \in S
  <2> DEFINE l == n + 1
  <2>1. l \in Levels /\ l \in 1..m /\ l - 1 = n /\ (l = 1 <=> n = 0)
    BY <1>1
  <2> HIDE DEF l
  <2>2. RelevantVars(P)[l] = (UNION {CondVars[c] : c \in P \cap conditions[l]})
          \cup IF l = 1 THEN query.static ELSE Bound(Typed(n, RelevantVars(P)[n]), BindingsUp[l])
    BY <2>1, RelevantUnfolds
  <2>3. RelevantVars(Q)[l] = (UNION {CondVars[c] : c \in Q \cap conditions[l]})
          \cup IF l = 1 THEN query.static ELSE Bound(Typed(n, RelevantVars(Q)[n]), BindingsUp[l])
    BY <2>1, RelevantUnfolds
  <2>4. UNION {CondVars[c] : c \in P \cap conditions[l]} \subseteq UNION {CondVars[c] : c \in Q \cap conditions[l]}
    <3>1. P \cap conditions[l] \subseteq Q \cap conditions[l]
      BY <2>1
    <3> DEFINE X == P \cap conditions[l]
               Y == Q \cap conditions[l]
    <3>2. X \subseteq Y
      BY <3>1
    <3> HIDE DEF X, Y
    <3>3. UNION {CondVars[c] : c \in X} \subseteq UNION {CondVars[c] : c \in Y}
      BY <3>2
    <3>4. QED
      BY <3>3 DEF X, Y
  <2>5. l # 1 => Bound(Typed(n, RelevantVars(P)[n]), BindingsUp[l]) \subseteq
                 Bound(Typed(n, RelevantVars(Q)[n]), BindingsUp[l])
    <3> SUFFICES ASSUME l # 1
                 PROVE  Bound(Typed(n, RelevantVars(P)[n]), BindingsUp[l]) \subseteq
                        Bound(Typed(n, RelevantVars(Q)[n]), BindingsUp[l])
      OBVIOUS
    <3>1. RelevantVars(P)[n] \subseteq RelevantVars(Q)[n]
      BY <1>3, <2>1
    <3>2. Typed(n, RelevantVars(P)[n]) \subseteq Typed(n, RelevantVars(Q)[n])
      BY <3>1, BoundGrows
    <3>3. QED
      BY <3>2, BoundGrows
  <2>6. RelevantVars(P)[l] \subseteq RelevantVars(Q)[l]
    BY <2>2, <2>3, <2>4, <2>5
  <2>7. QED
    BY <2>1, <2>6 DEF l
<1>4. 0..m \subseteq S
  <2> HIDE DEF S
  <2>1. QED
    BY <1>1, <1>2, <1>3, IntervalInduction
<1>5. QED
  BY <1>1, <1>4

LEMMA DomainGrows ==
  ASSUME NEW P, NEW Q, NEW m,
         \A k \in 1..m : P \cap conditions[k] \subseteq Q \cap conditions[k]
  PROVE  RelevantDomain(P, m) \subseteq RelevantDomain(Q, m)
<1>1. ASSUME NEW k \in 1..m
      PROVE  UNION {DomainVarsOf(c, k) : c \in P \cap conditions[k]} \subseteq
             UNION {DomainVarsOf(c, k) : c \in Q \cap conditions[k]}
  <2>1. P \cap conditions[k] \subseteq Q \cap conditions[k]
    OBVIOUS
  <2>2. QED
    BY <2>1
<1>2. QED
  BY <1>1 DEF RelevantDomain

\* A condition that concerns what matters concerns more when more matters; what
\* matters up to a level depends on the conditions up to that level.
LEMMA ConcernedGrows ==
  ASSUME Assumptions, PathType, query.static \in SUBSET Vars, NEW P, NEW Q, NEW m \in Levels,
         \A k \in 1..m : P \cap conditions[k] \subseteq Q \cap conditions[k],
         NEW c, Concerned(P, c, m)
  PROVE  Concerned(Q, c, m)
<1>1. m \in 1..m
  BY DEF Levels, Assumptions, PathAssumption
<1>2. RelevantVars(P)[m] \subseteq RelevantVars(Q)[m]
  BY <1>1, RelevantGrows
<1>3. RelevantDomain(P, m) \subseteq RelevantDomain(Q, m)
  BY DomainGrows
<1>4. QED
  BY <1>2, <1>3 DEF Concerned

-------------------------------------------------------------------------------
(* The parts of the problem *)

\* The invariants on which a step of an undisturbed query rests.
Undisturbed(Height) ==
  /\ Assumptions /\ PlansApart(Height) /\ ClimbInv /\ OwnStores
  /\ Posed(query, Height)

\* A condition of the plan of level k comes from a part of that level.
LEMMA PartLevel ==
  ASSUME Assumptions, NEW Height, PlansApart(Height), OwnStores, NEW q, q.parts \in PartSet,
         PartsOf(q), NEW k \in Levels, NEW c \in PartConds(q.parts) \cap conditions[k]
  PROVE  \E p \in q.parts : p.cond = c /\ p.level = k
<1>1. PICK p \in q.parts : p.cond = c
  BY DEF PartConds
<1>2. p.level \in Levels /\ c \in conditions[p.level]
  BY <1>1 DEF PartsOf, PartSet
<1>3. c \in OwnConds(p.level) /\ c \in OwnConds(k)
  BY <1>2 DEF OwnStores
<1>4. p.level = k
  BY <1>2, <1>3 DEF PlansApart
<1>5. QED
  BY <1>1, <1>4

\* What matters at a level is the plan's own.
LEMMA RelevantHeight ==
  ASSUME Assumptions, NEW Height, PlansApart(Height), PathType, OwnStores,
         query.static \in SUBSET Vars, \A v \in query.static : Height[v] = 1,
         NEW P, NEW k \in Levels, NEW v \in RelevantVars(P)[k]
  PROVE  Height[v] = 2 * k - 1
<1>1. v \in (UNION {CondVars[c] : c \in P \cap conditions[k]})
           \cup IF k = 1 THEN query.static
                ELSE Bound(Typed(k - 1, RelevantVars(P)[k - 1]), BindingsUp[k])
  BY RelevantUnfolds
<1>2. CASE v \in UNION {CondVars[c] : c \in P \cap conditions[k]}
  <2>1. PICK c \in conditions[k] : v \in CondVars[c]
    BY <1>2
  <2>2. QED
    BY <2>1 DEF OwnStores, PlansApart
<1>3. CASE k = 1 /\ v \in query.static
  BY <1>3
<1>4. CASE k # 1 /\ v \in Bound(Typed(k - 1, RelevantVars(P)[k - 1]), BindingsUp[k])
  <2>1. PICK b \in BindingsUp[k] : v = b[2]
    BY <1>4 DEF Bound
  <2>2. b \in StateBinding[k][place[k][Me]] /\ place[k][Me] \in States
    BY <2>1 DEF BindingsUp, PathType
  <2>3. k \in Levels \ {1}
    BY <1>4
  <2>4. QED
    BY <2>1, <2>2, <2>3 DEF PlansApart
<1>5. QED
  BY <1>1, <1>2, <1>3, <1>4

\* What matters below a level does not depend on the conditions of that level.
LEMMA RelevantBelow ==
  ASSUME Assumptions, PathType, query.static \in SUBSET Vars, NEW P, NEW Q, NEW m \in Levels,
         \A k \in 1..m : P \cap conditions[k] = Q \cap conditions[k]
  PROVE  /\ \A k \in 1..m : RelevantVars(P)[k] = RelevantVars(Q)[k]
         /\ \A k \in 1..m : RelevantDomain(P, k) = RelevantDomain(Q, k)
<1>1. \A k \in 1..m : RelevantVars(P)[k] \subseteq RelevantVars(Q)[k]
  BY RelevantGrows
<1>2. \A k \in 1..m : RelevantVars(Q)[k] \subseteq RelevantVars(P)[k]
  BY RelevantGrows
<1>3. ASSUME NEW k \in 1..m
      PROVE  RelevantDomain(P, k) = RelevantDomain(Q, k)
  <2>1. k <= m /\ m \in Nat /\ k \in Nat
    BY DEF Levels, Assumptions, PathAssumption
  <2>2. \A j \in 1..k : P \cap conditions[j] = Q \cap conditions[j]
    BY <2>1
  <2>3. RelevantDomain(P, k) \subseteq RelevantDomain(Q, k)
    BY <2>2, DomainGrows
  <2>4. RelevantDomain(Q, k) \subseteq RelevantDomain(P, k)
    BY <2>2, DomainGrows
  <2>5. QED
    BY <2>3, <2>4
<1>4. QED
  BY <1>1, <1>2, <1>3

StaticOf(C)    == UNION {CondVars[c] : c \in C}
DomainOf(C, l) == UNION {DomainVarsOf(c, l) : c \in C}

\* Q is P with the conditions C of level l, as far as that level.
JoinsAt(P, C, Q, l) ==
  /\ \A k \in 1..(l - 1) : P \cap conditions[k] = Q \cap conditions[k]
  /\ Q \cap conditions[l] = (P \cap conditions[l]) \cup C

\* The conditions of one level bring in their own variables.
LEMMA RelevantJoins ==
  ASSUME Assumptions, PathType, query.static \in SUBSET Vars, NEW P, NEW Q, NEW C,
         NEW l \in Levels, JoinsAt(P, C, Q, l)
  PROVE  /\ RelevantVars(Q)[l] = RelevantVars(P)[l] \cup StaticOf(C)
         /\ RelevantDomain(Q, l) = RelevantDomain(P, l) \cup DomainOf(C, l)
<1>1. l \in Nat /\ l >= 1 /\ (l # 1 => l - 1 \in Levels)
  BY DEF Levels, Assumptions, PathAssumption
<1> DEFINE PC == P \cap conditions[l]
           QC == Q \cap conditions[l]
           over(R) == IF l = 1 THEN query.static
                      ELSE Bound(Typed(l - 1, RelevantVars(R)[l - 1]), BindingsUp[l])
<1>2. over(P) = over(Q)
  <2>1. CASE l = 1
    BY <2>1
  <2>2. CASE l # 1
    <3>1. l - 1 \in Levels /\ l - 1 \in 1..(l - 1)
      BY <1>1, <2>2
    <3>2. RelevantVars(P)[l - 1] = RelevantVars(Q)[l - 1]
      BY <3>1, RelevantBelow DEF JoinsAt
    <3>3. QED
      BY <2>2, <3>2
  <2>3. QED
    BY <2>1, <2>2
<1>3. RelevantVars(P)[l] = (UNION {CondVars[c] : c \in PC}) \cup over(P)
  BY RelevantUnfolds
<1>4. RelevantVars(Q)[l] = (UNION {CondVars[c] : c \in QC}) \cup over(Q)
  BY RelevantUnfolds
<1>5. QC = PC \cup C
  BY DEF JoinsAt
<1>6. RelevantVars(Q)[l] = RelevantVars(P)[l] \cup UNION {CondVars[c] : c \in C}
  <2> HIDE DEF PC, QC, over
  <2>1. UNION {CondVars[c] : c \in QC} =
          (UNION {CondVars[c] : c \in PC}) \cup UNION {CondVars[c] : c \in C}
    BY <1>5
  <2>2. QED
    BY <1>2, <1>3, <1>4, <2>1
<1> DEFINE dom(R, k) == UNION {DomainVarsOf(c, k) : c \in R \cap conditions[k]}
<1>7. \A R : RelevantDomain(R, l) = query.domain \cup UNION {dom(R, k) : k \in 1..l}
  BY DEF RelevantDomain
<1>8. dom(Q, l) = dom(P, l) \cup UNION {DomainVarsOf(c, l) : c \in C}
  <2>1. dom(Q, l) = UNION {DomainVarsOf(c, l) : c \in QC}
    OBVIOUS
  <2>2. dom(P, l) = UNION {DomainVarsOf(c, l) : c \in PC}
    OBVIOUS
  <2> HIDE DEF PC, QC, dom
  <2>3. UNION {DomainVarsOf(c, l) : c \in QC} =
          (UNION {DomainVarsOf(c, l) : c \in PC}) \cup UNION {DomainVarsOf(c, l) : c \in C}
    BY <1>5
  <2>4. QED
    BY <2>1, <2>2, <2>3
<1>9. \A k \in 1..(l - 1) : dom(P, k) = dom(Q, k)
  BY DEF JoinsAt
<1> HIDE DEF dom
<1>10. RelevantDomain(Q, l) = RelevantDomain(P, l) \cup UNION {DomainVarsOf(c, l) : c \in C}
  <2>1. ASSUME NEW R PROVE UNION {dom(R, k) : k \in 1..l} = (UNION {dom(R, k) : k \in 1..(l - 1)}) \cup dom(R, l)
    <3>1. 1..l = 1..(l - 1) \cup {l}
      BY <1>1
    <3>2. QED
      BY <3>1
  <2>2. UNION {dom(P, k) : k \in 1..(l - 1)} = UNION {dom(Q, k) : k \in 1..(l - 1)}
    BY <1>9
  <2>3. QED
    BY <1>7, <1>8, <2>1, <2>2
<1>11. QED
  BY <1>6, <1>10 DEF StaticOf, DomainOf

\* What addProblemPart changes.
PartsFor(C, l) == {[cond |-> c, level |-> l, dvars |-> DomainVarsOf(c, l)] : c \in C}

LEMMA PartsFields ==
  ASSUME NEW q \in QueryType, NEW C, NEW w, w = AddProblemParts(q, C)
  PROVE  /\ w.static = q.static /\ w.domain = q.domain /\ w.pc = q.pc /\ w.level = q.level
         /\ w.next = q.next /\ w.dnext = q.dnext /\ w.before = q.before
         /\ w.parts = q.parts \cup PartsFor(C, q.level)
         /\ w.dcur = q.dcur \cup ((UNION {DomainVarsOf(c, q.level) : c \in C}) \ (q.dcur \cup q.dnext))
         /\ w.cur = q.cur \cup ((UNION {CondVars[c] : c \in C}) \ (q.cur \cup q.next))
         /\ q.unified \subseteq w.unified
<1> DEFINE parts == PartsFor(C, q.level)
           static == (UNION {CondVars[c] : c \in C}) \ (q.cur \cup q.next)
           dvars == UNION {p.dvars : p \in parts}
           d1 == q.dcur \cup (dvars \ (q.dcur \cup q.dnext))
           u1 == AddChecked(q.unified, static)
           w1 == [q EXCEPT !.parts = q.parts \cup parts, !.dcur = d1, !.cur = q.cur \cup static,
                           !.unified = u1]
<1>1. w = w1
  BY Zenon DEF AddProblemParts, PartsFor
<1>2. dvars = UNION {DomainVarsOf(c, q.level) : c \in C}
  <2>1. {p.dvars : p \in parts} = {DomainVarsOf(c, q.level) : c \in C}
    <3>1. \A p \in parts : p.dvars \in {DomainVarsOf(c, q.level) : c \in C}
      BY DEF PartsFor
    <3>2. ASSUME NEW c \in C PROVE DomainVarsOf(c, q.level) \in {p.dvars : p \in parts}
      <4> DEFINE p == [cond |-> c, level |-> q.level, dvars |-> DomainVarsOf(c, q.level)]
      <4>1. p \in parts /\ p.dvars = DomainVarsOf(c, q.level)
        BY DEF PartsFor
      <4> HIDE DEF p
      <4>2. QED
        BY <4>1
    <3>3. QED
      BY <3>1, <3>2
  <2>2. QED
    BY <2>1
<1>3. q.unified \subseteq u1
  BY DEF AddChecked
<1> HIDE DEF parts, static, dvars, u1
<1>4. /\ w.static = q.static /\ w.domain = q.domain /\ w.pc = q.pc /\ w.level = q.level
      /\ w.next = q.next /\ w.dnext = q.dnext /\ w.before = q.before
      /\ w.parts = q.parts \cup parts /\ w.dcur = d1 /\ w.cur = q.cur \cup static
      /\ w.unified = u1
  BY <1>1 DEF QueryType
<1>5. QED
  BY <1>2, <1>3, <1>4 DEF parts, static

\* A condition that concerns what a query has found belongs to each closed set.
LEMMA LeastGrows ==
  ASSUME NEW Height, Undisturbed(Height), NEW P, Least(P), NEW C \in SUBSET conditions[query.level],
         query.level \in Path, \A c \in C : Concerned(P, c, query.level)
  PROVE  Least(P \cup C)
<1> SUFFICES ASSUME NEW Q \in SUBSET Conds, Closed(Q), NEW c \in C PROVE c \in Q
  BY DEF Least
<1>1. P \subseteq Q
  BY DEF Least
<1>2. query.level \in Levels
  BY DEF Path
<1>3. Concerned(Q, c, query.level)
  BY <1>1, <1>2, ConcernedGrows DEF Undisturbed, ClimbInv, QueryType
<1>4. QED
  BY <1>2, <1>3 DEF Closed

\* Taking variables from the buffers and adding the parts they concern keeps what
\* is known of the problem.
LEMMA PartsPose ==
  ASSUME NEW Height, Undisturbed(Height), query.pc = "take",
         NEW q \in QueryType, NEW C \in SUBSET conditions[query.level],
         q.static = query.static, q.pc = "take",
         q.level = query.level, q.parts = query.parts, q.before = query.before,
         q.cur \subseteq query.cur, q.cur \cup q.next = query.cur \cup query.next,
         q.dcur \cup q.dnext = query.dcur \cup query.dnext,
         \A c \in C : Concerned(PartConds(query.parts), c, query.level),
         \A v \in q.next : v \in query.next \/
           (v \in query.cur /\ ActiveUnder(query.level, v) \subseteq PartConds(query.parts) \cup C),
         \A d \in q.dnext : d \in query.dnext \/
           \A c \in conditions[query.level] :
             Covers(c, d, query.level) => c \in PartConds(query.parts) \cup C
  PROVE  Posed(AddProblemParts(q, C), Height)
<1> DEFINE w == AddProblemParts(q, C)
           P == PartConds(query.parts)
           P2 == PartConds(w.parts)
           l == query.level
           h == 2 * l - 1
           st == StaticOf(C)
           dv == DomainOf(C, l)
<1>1. /\ w.static = query.static /\ w.pc = "take" /\ w.level = l
      /\ w.next = q.next /\ w.dnext = q.dnext /\ w.before = query.before
      /\ w.parts = query.parts \cup PartsFor(C, l)
      /\ w.dcur = q.dcur \cup (dv \ (q.dcur \cup q.dnext))
      /\ w.cur = q.cur \cup (st \ (q.cur \cup q.next))
  BY PartsFields DEF StaticOf, DomainOf
<1> HIDE DEF w
<1>2. Assumptions /\ PlansApart(Height) /\ ClimbInv /\ OwnStores /\ PathType
      /\ query \in QueryType /\ query.static \in SUBSET Vars /\ l \in Levels
      /\ query.parts \in PartSet /\ conditions[l] \subseteq Conds
  BY DEF Undisturbed, ClimbInv, QueryType, PathType
<1>3. /\ PartsOf(query) /\ Least(P) /\ \A v \in query.static : Height[v] = 1
      /\ \A k \in 1..(l - 1) : k \in parent
      /\ \A k \in 1..(l - 1) : Searched(P, k)
  BY DEF Undisturbed, Posed, Done, Climbing
<1>4. /\ query.cur \subseteq RelevantVars(P)[l]
      /\ RelevantVars(P)[l] \subseteq query.cur \cup query.next
      /\ \A v \in query.next : Height[v] < h \/ (v \in RelevantVars(P)[l] /\ ActiveUnder(l, v) \subseteq P)
      /\ query.dcur \cup query.dnext = RelevantDomain(P, l)
      /\ \A d \in query.dnext : \A c \in conditions[l] : Covers(c, d, l) => c \in P
      /\ query.before \subseteq query.parts
      /\ \A p \in query.parts : p.level = l <=> p \notin query.before
  BY DEF Undisturbed, Posed, Buffers
<1>5. P2 = P \cup C
  <2>1. PartConds(PartsFor(C, l)) = C
    <3>1. \A p \in PartsFor(C, l) : p.cond \in C
      BY DEF PartsFor
    <3>2. ASSUME NEW c \in C PROVE \E p \in PartsFor(C, l) : p.cond = c
      <4> DEFINE p == [cond |-> c, level |-> l, dvars |-> DomainVarsOf(c, l)]
      <4>1. p \in PartsFor(C, l) /\ p.cond = c
        BY DEF PartsFor
      <4> HIDE DEF p
      <4>2. QED
        BY <4>1
    <3>3. QED
      BY <3>1, <3>2 DEF PartConds
  <2>2. QED
    BY <1>1, <2>1 DEF PartConds
<1>6. l \in Nat /\ l >= 1
  BY <1>2 DEF Levels, Assumptions, PathAssumption
<1>7. \A k \in 1..(l - 1) : P \cap conditions[k] = P2 \cap conditions[k]
  <2> SUFFICES ASSUME NEW k \in 1..(l - 1), NEW c \in C, c \in conditions[k] PROVE FALSE
    BY <1>5
  <2>1. k \in Levels /\ k # l
    BY <1>2, <1>6 DEF Levels, Assumptions, PathAssumption
  <2>2. c \in OwnConds(k) /\ c \in OwnConds(l)
    BY <1>2, <2>1 DEF OwnStores
  <2>3. QED
    BY <1>2, <2>1, <2>2 DEF PlansApart
<1>8. P2 \cap conditions[l] = (P \cap conditions[l]) \cup C
  BY <1>5
<1> HIDE DEF P, P2, st, dv
<1>9. RelevantVars(P2)[l] = RelevantVars(P)[l] \cup st /\ RelevantDomain(P2, l) = RelevantDomain(P, l) \cup dv
  <2>1. JoinsAt(P, C, P2, l)
    BY <1>7, <1>8 DEF JoinsAt
  <2>2. QED
    BY <1>2, <2>1, RelevantJoins DEF st, dv
<1>10. l \in Path
  BY <1>2, <1>3 DEF Path
<1>11. Least(P2)
  <2>1. \A c \in C : Concerned(P, c, query.level)
    BY DEF P
  <2>2. Least(P \cup C)
    BY <1>3, <1>10, <2>1, LeastGrows
  <2>3. QED
    BY <1>5, <2>2
<1>12. ASSUME NEW k \in 1..(l - 1) PROVE Searched(P2, k)
  <2>1. k \in Levels /\ \A j \in 1..k : P2 \cap conditions[j] = P \cap conditions[j]
    BY <1>2, <1>6, <1>7 DEF Levels, Assumptions, PathAssumption
  <2>2. ASSUME NEW c \in conditions[k], Concerned(P2, c, k) PROVE c \in P2
    <3>1. Concerned(P, c, k)
      BY <1>2, <2>1, <2>2, ConcernedGrows
    <3>2. QED
      BY <1>3, <1>5, <3>1 DEF Searched
  <2>3. QED
    BY <2>2 DEF Searched
<1>13. PartsOf(w)
  <2>1. ASSUME NEW p \in query.parts
        PROVE  p.level <= l /\ p.cond \in conditions[p.level] /\ p.dvars = DomainVarsOf(p.cond, p.level)
    BY <1>3 DEF PartsOf
  <2>2. ASSUME NEW p \in PartsFor(C, l)
        PROVE  p.level <= l /\ p.cond \in conditions[p.level] /\ p.dvars = DomainVarsOf(p.cond, p.level)
    BY <1>6 DEF PartsFor
  <2>3. QED
    BY <1>1, <2>1, <2>2 DEF PartsOf
<1>14. w.cur \subseteq RelevantVars(P2)[l] /\ RelevantVars(P2)[l] \subseteq w.cur \cup w.next
  BY <1>1, <1>4, <1>9
<1>15. ASSUME NEW v \in w.next
       PROVE  Height[v] < h \/ (v \in RelevantVars(P2)[l] /\ ActiveUnder(l, v) \subseteq P2)
  <2>1. CASE v \in query.next
    BY <1>4, <1>5, <1>9, <2>1
  <2>2. CASE v \in query.cur /\ ActiveUnder(l, v) \subseteq P \cup C
    BY <1>4, <1>5, <1>9, <2>2
  <2>3. QED
    BY <1>1, <2>1, <2>2 DEF P
<1>16. w.dcur \cup w.dnext = RelevantDomain(P2, l)
  BY <1>1, <1>4, <1>9
<1>17. \A d \in w.dnext : \A c \in conditions[l] : Covers(c, d, l) => c \in P2
  <2>1. \A d \in q.dnext : d \in query.dnext \/ \A c \in conditions[l] : Covers(c, d, l) => c \in P \cup C
    BY DEF P
  <2>2. QED
    BY <1>1, <1>4, <1>5, <2>1
<1>18. w.before \subseteq w.parts /\ \A p \in w.parts : p.level = l <=> p \notin w.before
  <2>1. \A p \in PartsFor(C, l) : p.level = l
    BY DEF PartsFor
  <2>2. QED
    BY <1>1, <1>4, <2>1
<1>19. Buffers(w, P2, Height)
  BY <1>1, <1>14, <1>15, <1>16, <1>17, <1>18 DEF Buffers
<1>20. Done(w) = 1..(l - 1)
  BY <1>1 DEF Done
<1>21. QED
  BY <1>1, <1>3, <1>11, <1>12, <1>13, <1>19, <1>20 DEF Posed, w, P2

\* acceptQuery takes a static variable, or a domain variable when none is left.
LEMMA TakesPose ==
  ASSUME NEW Height, Undisturbed(Height),
         \/ \E x \in Vars : TakeStatic(x)
         \/ \E d \in DomainVars : TakeDomain(d)
  PROVE  Posed(query', Height)
<1>1. Assumptions /\ ClimbInv /\ query \in QueryType /\ query.level \in Levels
  BY DEF Undisturbed, ClimbInv, QueryType
<1> DEFINE P == PartConds(query.parts)
           l == query.level
<1>2. PartConds(NewParts) \subseteq P
  BY DEF NewParts, PartConds
<1>3. ASSUME NEW x \in Vars, TakeStatic(x) PROVE Posed(query', Height)
  <2> DEFINE c1 == query.cur \ {x}
             n1 == query.next \cup {x}
             q == [query EXCEPT !.cur = c1, !.next = n1]
             C == ActiveUnder(l, x) \ PartConds(NewParts)
  <2>1. query.pc = "take" /\ x \in query.cur /\ query' = AddProblemParts(q, C)
    BY <1>3 DEF TakeStatic, Step
  <2>2. c1 \in SUBSET Vars /\ n1 \in SUBSET Vars
    BY <1>1 DEF QueryType
  <2>3. C \in SUBSET conditions[l] /\ ActiveUnder(l, x) \subseteq P \cup C
    BY <1>2 DEF ActiveUnder
  <2>4. c1 \subseteq query.cur /\ c1 \cup n1 = query.cur \cup query.next
    BY <2>1
  <2>5. \A v \in n1 : v \in query.next \/ (v \in query.cur /\ ActiveUnder(l, v) \subseteq P \cup C)
    BY <2>1, <2>3
  <2>6. ASSUME NEW c \in C PROVE Concerned(P, c, l)
    <3>1. x \in RelevantVars(P)[l]
      BY <2>1 DEF Undisturbed, Posed, Buffers
    <3>2. x \in CondVars[c] \cup TemplateVars(c)
      BY <2>6 DEF ActiveUnder
    <3>3. QED
      BY <3>1, <3>2 DEF Concerned
  <2> HIDE DEF c1, n1, C
  <2>7. /\ q \in QueryType /\ q.static = query.static /\ q.pc = "take" /\ q.level = l
        /\ q.parts = query.parts /\ q.before = query.before /\ q.cur = c1 /\ q.next = n1
        /\ q.dcur = query.dcur /\ q.dnext = query.dnext
    BY <1>1, <2>1, <2>2 DEF QueryType
  <2> HIDE DEF q
  <2>8. Posed(AddProblemParts(q, C), Height)
    BY <2>1, <2>3, <2>4, <2>5, <2>6, <2>7, PartsPose
  <2>9. QED
    BY <2>1, <2>8
<1>4. ASSUME NEW d \in DomainVars, TakeDomain(d) PROVE Posed(query', Height)
  <2> DEFINE c1 == query.dcur \ {d}
             n1 == query.dnext \cup {d}
             q == [query EXCEPT !.dcur = c1, !.dnext = n1]
             C == {c \in ActiveUnder(l, d[2]) \ PartConds(NewParts) : Covers(c, d, l)}
  <2>1. query.pc = "take" /\ d \in query.dcur /\ query' = AddProblemParts(q, C)
    BY <1>4 DEF TakeDomain, Step, Covers
  <2>2. c1 \in SUBSET DomainVars /\ n1 \in SUBSET DomainVars
    BY <1>1 DEF QueryType
  <2>3. C \in SUBSET conditions[l]
    BY DEF ActiveUnder
  <2>4. c1 \cup n1 = query.dcur \cup query.dnext
    BY <2>1
  <2>5. ASSUME NEW c \in conditions[l], Covers(c, d, l) PROVE c \in P \cup C
    <3>1. d[2] \in TemplateVars(c)
      BY <2>5 DEF Covers, TemplateVars
    <3>2. c \in ActiveUnder(l, d[2])
      BY <3>1 DEF ActiveUnder
    <3>3. QED
      BY <1>2, <2>5, <3>2
  <2>6. ASSUME NEW c \in C PROVE Concerned(P, c, l)
    <3>1. d \in RelevantDomain(P, l)
      BY <2>1 DEF Undisturbed, Posed, Buffers
    <3>2. Covers(c, d, l)
      BY <2>6
    <3>3. QED
      BY <3>1, <3>2 DEF Concerned, Covers
  <2>7. \A e \in n1 : e \in query.dnext \/ \A c \in conditions[l] : Covers(c, e, l) => c \in P \cup C
    BY <2>5
  <2> HIDE DEF c1, n1, C
  <2>8. /\ q \in QueryType /\ q.static = query.static /\ q.pc = "take" /\ q.level = l
        /\ q.parts = query.parts /\ q.before = query.before /\ q.cur = query.cur
        /\ q.next = query.next /\ q.dcur = c1 /\ q.dnext = n1
    BY <1>1, <2>1, <2>2 DEF QueryType
  <2> HIDE DEF q
  <2>9. Posed(AddProblemParts(q, C), Height)
    BY <2>1, <2>3, <2>4, <2>6, <2>7, <2>8, PartsPose
  <2>10. QED
    BY <2>1, <2>9
<1>5. QED
  BY <1>3, <1>4

\* The facts about an undisturbed query that its steps use.
LEMMA UndisturbedFacts ==
  ASSUME NEW Height, Undisturbed(Height), NEW P, P = PartConds(query.parts)
  PROVE  /\ Assumptions /\ PlansApart(Height) /\ ClimbInv /\ OwnStores /\ PathType
         /\ query \in QueryType /\ query.static \in SUBSET Vars
         /\ query.level \in Levels /\ query.level \in Nat /\ query.level >= 1
         /\ query.parts \in PartSet /\ \A x \in Vars : Height[x] \in Int
         /\ PartsOf(query) /\ Least(P) /\ \A v \in query.static : Height[v] = 1
         /\ \A k \in 1..(query.level - 1) : k \in parent
         /\ query.pc \in Climbing => \A k \in Done(query) : Searched(P, k)
         /\ Buffers(query, P, Height)
<1>1. query.level \in Levels /\ query.level \in Nat /\ query.level >= 1
  BY DEF Undisturbed, ClimbInv, QueryType, Levels, Assumptions, PathAssumption
<1>2. \A x \in Vars : Height[x] \in Int
  BY DEF Undisturbed, PlansApart
<1>3. QED
  BY <1>1, <1>2 DEF Undisturbed, ClimbInv, QueryType, Posed

\* A step that finds no part.
LEMMA PosedAgain ==
  ASSUME NEW Height, Undisturbed(Height), NEW w, NEW P, P = PartConds(query.parts),
         w.static = query.static, w.parts = query.parts,
         w.level \in Levels, query.level <= w.level,
         \A k \in 1..(w.level - 1) : k \in parent,
         w.pc \in Climbing => \A k \in Done(w) : Searched(P, k),
         Buffers(w, P, Height)
  PROVE  Posed(w, Height)
<1>1. /\ PartsOf(query) /\ Least(P) /\ \A v \in query.static : Height[v] = 1
      /\ query.level \in Nat /\ query.parts \in PartSet /\ Assumptions
  BY UndisturbedFacts
<1>2. PartsOf(w)
  <2>1. Levels \subseteq Nat
    BY <1>1 DEF Levels, Assumptions, PathAssumption
  <2>2. \A p \in query.parts : p.level \in Levels
    BY <1>1 DEF PartSet
  <2>3. ASSUME NEW p \in query.parts PROVE p.level <= w.level
    <3>1. p.level <= query.level
      BY <1>1 DEF PartsOf
    <3>2. p.level \in Nat /\ query.level \in Nat /\ w.level \in Nat
      BY <1>1, <2>1, <2>2
    <3>3. QED
      BY <3>1, <3>2
  <2>4. QED
    BY <1>1, <2>3 DEF PartsOf
<1>3. QED
  BY <1>1, <1>2 DEF Posed

\* When a level has as many parts as conditions, each of its conditions has one.
LEMMA AllTaken ==
  ASSUME NEW C, IsFiniteSet(C), NEW N, PartConds(N) \subseteq C,
         \A p, r \in N : p.cond = r.cond => p = r, ~(Cardinality(N) < Cardinality(C))
  PROVE  C \subseteq PartConds(N)
<1> DEFINE f == [p \in N |-> p.cond]
<1>1. f \in [N -> C] /\ \A p, r \in N : f[p] = f[r] => p = r
  BY DEF PartConds
<1>2. f \in Injection(N, C)
  <2> HIDE DEF f
  <2>1. QED
    BY <1>1 DEF Injection, IsInjective
<1>3. IsFiniteSet(N) /\ Cardinality(N) <= Cardinality(C)
      /\ (Cardinality(N) = Cardinality(C) <=> f \in Surjection(N, C))
  <2> HIDE DEF f
  <2>1. QED
    BY <1>2, FS_Injection
<1>4. Cardinality(N) \in Nat /\ Cardinality(C) \in Nat
  BY <1>3, FS_CardinalityType
<1>5. f \in Surjection(N, C)
  BY <1>3, <1>4
<1>6. \A c \in C : \E p \in N : f[p] = c
  <2> HIDE DEF f
  <2>1. QED
    BY <1>5 DEF Surjection
<1>7. QED
  BY <1>6 DEF PartConds

\* No variable matters above a level where none does, when no part is above it.
LEMMA NothingAbove ==
  ASSUME Assumptions, PathType, query.static \in SUBSET Vars, NEW P, NEW m \in Levels,
         \A k \in Levels : k >= m => P \cap conditions[k] = {},
         RelevantVars(P)[m] = {}, RelevantDomain(P, m) = {}
  PROVE  \A k \in Levels : k >= m => RelevantVars(P)[k] = {} /\ RelevantDomain(P, k) = {}
<1> DEFINE S == {n \in 0..(Top - m) : RelevantVars(P)[m + n] = {}}
<1>1. Top \in Nat /\ Levels = 1..Top /\ m \in Nat /\ m >= 1 /\ Top - m \in Nat
  BY DEF Levels, Assumptions, PathAssumption
<1>2. 0 \in S
  BY <1>1
<1>3. ASSUME NEW n \in 0..(Top - m - 1), n \in S PROVE n + 1 \in S
  <2> DEFINE l == m + (n + 1)
  <2>1. l \in Levels /\ l # 1 /\ l - 1 = m + n /\ l >= m
    BY <1>1
  <2> HIDE DEF l
  <2>2. RelevantVars(P)[l] = (UNION {CondVars[c] : c \in P \cap conditions[l]})
          \cup IF l = 1 THEN query.static
               ELSE Bound(Typed(l - 1, RelevantVars(P)[l - 1]), BindingsUp[l])
    BY <2>1, RelevantUnfolds
  <2>3. RelevantVars(P)[l - 1] = {}
    BY <1>3, <2>1
  <2>4. Typed(l - 1, {}) = {}
    BY DEF Typed, Bound
  <2>5. Bound({}, BindingsUp[l]) = {}
    BY DEF Bound
  <2>6. UNION {CondVars[c] : c \in P \cap conditions[l]} = {}
    BY <2>1
  <2>7. RelevantVars(P)[l] = {}
    BY <2>1, <2>2, <2>3, <2>4, <2>5, <2>6
  <2>8. QED
    BY <1>1, <2>7 DEF l
<1>4. 0..(Top - m) \subseteq S
  <2> HIDE DEF S
  <2>1. QED
    BY <1>1, <1>2, <1>3, IntervalInduction
<1>5. ASSUME NEW k \in Levels, k >= m PROVE RelevantVars(P)[k] = {}
  <2>1. k - m \in 0..(Top - m) /\ m + (k - m) = k
    BY <1>1, <1>5
  <2>2. QED
    BY <1>4, <2>1
<1>6. ASSUME NEW k \in Levels, k >= m PROVE RelevantDomain(P, k) = {}
  <2>1. ASSUME NEW x \in RelevantDomain(P, k) PROVE x \in RelevantDomain(P, m)
    <3>1. CASE x \in query.domain
      BY <3>1 DEF RelevantDomain
    <3>2. ASSUME NEW j \in 1..k, x \in UNION {DomainVarsOf(c, j) : c \in P \cap conditions[j]}
          PROVE  x \in RelevantDomain(P, m)
      <4>1. P \cap conditions[j] # {}
        BY <3>2
      <4>2. j \in Levels
        BY <1>1
      <4>3. j \in 1..m
        BY <1>1, <4>1, <4>2
      <4>4. QED
        BY <3>2, <4>3 DEF RelevantDomain
    <3>3. QED
      BY <2>1, <3>1, <3>2 DEF RelevantDomain
  <2>2. QED
    BY <2>1
<1>7. QED
  BY <1>5, <1>6

\* The lock of a plan, the test of its store, the end of a visit and the answer.
LEMMA LockPoses ==
  ASSUME NEW Height, Undisturbed(Height), LockPlan
  PROVE  Posed(query', Height)
<1> DEFINE P == PartConds(query.parts)
           l == query.level
<1>1. /\ Assumptions /\ PlansApart(Height) /\ OwnStores /\ PathType
      /\ query \in QueryType /\ query.static \in SUBSET Vars
      /\ l \in Levels /\ l \in Nat /\ l >= 1 /\ query.parts \in PartSet /\ PartsOf(query)
      /\ \A k \in 1..(l - 1) : k \in parent
      /\ query.pc \in Climbing => \A k \in Done(query) : Searched(P, k)
      /\ Buffers(query, P, Height)
  BY UndisturbedFacts
<1> HIDE DEF P
<1>2. query.pc = "lock" /\ \A k \in 1..(l - 1) : Searched(P, k)
  BY <1>1 DEF LockPlan, Done, Climbing
<1>3. /\ query.cur = RelevantVars(P)[l] /\ query.dcur = RelevantDomain(P, l)
      /\ \A v \in query.next : Height[v] < 2 * l - 1
      /\ \A p \in query.parts : p.level < l
  BY <1>1, <1>2 DEF Buffers
<1>4. CASE query.cur = {} /\ query.dcur = {}
  <2>1. query' = [query EXCEPT !.pc = "collected"]
    BY <1>4 DEF LockPlan, Step
  <2>2. ASSUME NEW k \in Levels, k >= l PROVE P \cap conditions[k] = {}
    <3> SUFFICES ASSUME NEW c \in P \cap conditions[k] PROVE FALSE
      OBVIOUS
    <3>1. PICK p \in query.parts : p.cond = c /\ p.level = k
      BY <1>1, PartLevel DEF P
    <3>2. k \in Nat
      BY <1>1 DEF Levels, Assumptions, PathAssumption
    <3>3. QED
      BY <1>1, <1>3, <2>2, <3>1, <3>2
  <2>3. \A k \in Levels : k >= l => RelevantVars(P)[k] = {} /\ RelevantDomain(P, k) = {}
    BY <1>1, <1>3, <1>4, <2>2, NothingAbove
  <2>4. Closed(P)
    <3> SUFFICES ASSUME NEW k \in Path, NEW c \in conditions[k], Concerned(P, c, k) PROVE c \in P
      BY DEF Closed
    <3>1. k \in Levels /\ k \in Nat /\ k >= 1
      BY <1>1 DEF Path, Levels, Assumptions, PathAssumption
    <3>2. CASE k < l
      BY <1>1, <1>2, <3>1, <3>2 DEF Searched
    <3>3. CASE k >= l
      BY <2>3, <3>1, <3>3 DEF Concerned
    <3>4. QED
      BY <1>1, <3>1, <3>2, <3>3
  <2> DEFINE w == [query EXCEPT !.pc = "collected"]
  <2>5. w.pc = "collected" /\ w.static = query.static /\ w.parts = query.parts /\ w.level = l
    BY <1>1 DEF QueryType
  <2> HIDE DEF w
  <2>6. Buffers(w, P, Height) /\ w.pc \notin Climbing
    BY <2>4, <2>5 DEF Buffers, Climbing
  <2>7. Posed(w, Height)
    BY <1>1, <2>5, <2>6, PosedAgain DEF P
  <2>8. QED
    BY <2>1, <2>7 DEF w
<1>5. CASE ~(query.cur = {} /\ query.dcur = {})
  <2> DEFINE w == [query EXCEPT !.pc = "accept"]
  <2>1. query' = w
    BY <1>5 DEF LockPlan, Step
  <2>2. /\ w.pc = "accept" /\ w.static = query.static /\ w.parts = query.parts /\ w.level = l
        /\ w.cur = query.cur /\ w.next = query.next /\ w.dcur = query.dcur
    BY <1>1 DEF QueryType
  <2> HIDE DEF w
  <2>3. Buffers(w, P, Height) /\ \A k \in Done(w) : Searched(P, k)
    BY <1>2, <1>3, <2>2 DEF Buffers, Done
  <2>4. Posed(w, Height)
    BY <1>1, <2>2, <2>3, PosedAgain DEF P
  <2>5. QED
    BY <2>1, <2>4
<1>6. QED
  BY <1>4, <1>5

LEMMA AcceptPoses ==
  ASSUME NEW Height, Undisturbed(Height), AcceptQuery
  PROVE  Posed(query', Height)
<1> DEFINE P == PartConds(query.parts)
           l == query.level
           c == IF conditions[l] = {} THEN "type" ELSE "take"
           w == [query EXCEPT !.pc = c, !.before = query.parts]
<1>1. /\ Assumptions /\ PlansApart(Height) /\ ClimbInv /\ OwnStores /\ PathType
      /\ query \in QueryType /\ query.static \in SUBSET Vars
      /\ l \in Levels /\ l \in Nat /\ l >= 1 /\ query.parts \in PartSet /\ PartsOf(query)
      /\ \A v \in query.static : Height[v] = 1
      /\ \A x \in Vars : Height[x] \in Int
      /\ \A k \in 1..(l - 1) : k \in parent
      /\ query.pc \in Climbing => \A k \in Done(query) : Searched(P, k)
      /\ Buffers(query, P, Height)
  BY UndisturbedFacts
<1> HIDE DEF P
<1>2. query.pc = "accept" /\ \A k \in 1..(l - 1) : Searched(P, k)
  BY <1>1 DEF AcceptQuery, Done, Climbing
<1>3. /\ query.cur = RelevantVars(P)[l] /\ query.dcur = RelevantDomain(P, l)
      /\ \A v \in query.next : Height[v] < 2 * l - 1
      /\ \A p \in query.parts : p.level < l
  BY <1>1, <1>2 DEF Buffers
<1>4. query' = w /\ c \in {"type", "take"} /\ (c = "type" => conditions[l] = {})
  BY DEF AcceptQuery, Step
<1>5. query.dnext = {}
  BY <1>1, <1>2 DEF ClimbInv, Covered
<1> HIDE DEF c
<1>6. /\ w.pc = c /\ w.static = query.static /\ w.parts = query.parts /\ w.level = l
      /\ w.cur = query.cur /\ w.next = query.next /\ w.dcur = query.dcur /\ w.dnext = {}
      /\ w.before = query.parts
  BY <1>1, <1>4, <1>5 DEF QueryType
<1> HIDE DEF w
<1>7. \A v \in RelevantVars(P)[l] : Height[v] = 2 * l - 1
  BY <1>1, RelevantHeight
<1>8. CASE c = "take"
  <2>1. \A p \in w.parts : p.level = l <=> p \notin w.before
    BY <1>1, <1>3, <1>6
  <2>2. Buffers(w, P, Height)
    BY <1>3, <1>6, <1>8, <2>1 DEF Buffers
  <2>3. \A k \in Done(w) : Searched(P, k)
    BY <1>2, <1>6, <1>8 DEF Done
  <2>4. QED
    BY <1>1, <1>4, <1>6, <2>2, <2>3, PosedAgain DEF P
<1>9. CASE c = "type"
  <2>1. Buffers(w, P, Height)
    BY <1>1, <1>3, <1>6, <1>7, <1>9 DEF Buffers
  <2>2. Searched(P, l)
    BY <1>4, <1>9 DEF Searched
  <2>3. \A k \in Done(w) : Searched(P, k)
    BY <1>1, <1>2, <1>6, <1>9, <2>2 DEF Done
  <2>4. QED
    BY <1>1, <1>4, <1>6, <2>1, <2>3, PosedAgain DEF P
<1>10. QED
  BY <1>4, <1>8, <1>9

LEMMA WriteBackPoses ==
  ASSUME NEW Height, Undisturbed(Height), WriteBack
  PROVE  Posed(query', Height)
<1> DEFINE P == PartConds(query.parts)
           l == query.level
           h == 2 * l - 1
           c1 == query.cur \cup query.next
           d1 == query.dcur \cup query.dnext
           w == [query EXCEPT !.pc = "type", !.cur = c1, !.next = {}, !.dcur = d1, !.dnext = {}]
<1>1. /\ Assumptions /\ PlansApart(Height) /\ OwnStores /\ PathType
      /\ query \in QueryType /\ query.static \in SUBSET Vars
      /\ l \in Levels /\ l \in Nat /\ l >= 1 /\ query.parts \in PartSet /\ PartsOf(query)
      /\ \A v \in query.static : Height[v] = 1
      /\ \A x \in Vars : Height[x] \in Int
      /\ \A k \in 1..(l - 1) : k \in parent
      /\ query.pc \in Climbing => \A k \in Done(query) : Searched(P, k)
      /\ Buffers(query, P, Height)
  BY UndisturbedFacts
<1> HIDE DEF P
<1>2. query.pc = "take" /\ \A k \in 1..(l - 1) : Searched(P, k)
  BY <1>1 DEF WriteBack, Done, Climbing
<1>3. /\ query.cur \subseteq RelevantVars(P)[l]
      /\ RelevantVars(P)[l] \subseteq query.cur \cup query.next
      /\ \A v \in query.next : Height[v] < h \/ (v \in RelevantVars(P)[l] /\ ActiveUnder(l, v) \subseteq P)
      /\ query.dcur \cup query.dnext = RelevantDomain(P, l)
      /\ \A d \in query.dnext : \A c \in conditions[l] : Covers(c, d, l) => c \in P
      /\ query.before \subseteq query.parts
      /\ \A p \in query.parts : p.level = l <=> p \notin query.before
  BY <1>1, <1>2 DEF Buffers
<1>4. \A v \in RelevantVars(P)[l] : Height[v] = h
  BY <1>1, RelevantHeight
<1>5. Searched(P, l)
  <2>1. CASE query.cur \cup query.dcur = {}
    <3> SUFFICES ASSUME NEW c \in conditions[l], Concerned(P, c, l) PROVE c \in P
      BY DEF Searched
    <3>1. CASE \E v \in RelevantVars(P)[l] : v \in CondVars[c] \cup TemplateVars(c)
      <4>1. PICK v \in RelevantVars(P)[l] : v \in CondVars[c] \cup TemplateVars(c)
        BY <3>1
      <4>2. v \in query.next /\ Height[v] = h
        BY <1>3, <1>4, <2>1
      <4>3. ActiveUnder(l, v) \subseteq P
        BY <1>1, <1>3, <4>2
      <4>4. QED
        BY <4>1, <4>3 DEF ActiveUnder
    <3>2. CASE \E q \in Quantifiers[c] : \E d \in RelevantDomain(P, l) :
                 d[2] \in q.vars /\ d[1] \in AgentsInScope(q, l)
      <4>1. PICK d \in RelevantDomain(P, l) : Covers(c, d, l)
        BY <3>2 DEF Covers
      <4>2. d \in query.dnext
        BY <1>3, <2>1
      <4>3. QED
        BY <1>3, <4>1, <4>2
    <3>3. QED
      BY <3>1, <3>2 DEF Concerned
  <2>2. CASE ~TakesMore
    <3> DEFINE N == query.parts \ query.before
    <3>1. N = NewParts
      BY DEF NewParts
    <3>2. ~(Cardinality(N) < Cardinality(conditions[l]))
      BY <2>2, <3>1 DEF TakesMore
    <3>3. IsFiniteSet(conditions[l])
      <4>1. conditions[l] \in SUBSET Conds /\ IsFiniteSet(Conds)
        BY <1>1 DEF PathType, Assumptions, ConditionAssumption
      <4>2. QED
        BY <4>1, FS_Subset
    <3>4. \A p \in N : p.level = l /\ p.cond \in conditions[l] /\ p.dvars = DomainVarsOf(p.cond, l)
      BY <1>1, <1>3 DEF PartsOf
    <3>5. PartConds(N) \subseteq conditions[l]
      BY <3>4 DEF PartConds
    <3>6. ASSUME NEW p \in N, NEW r \in N, p.cond = r.cond PROVE p = r
      <4>1. p \in [cond : Conds, level : Levels, dvars : SUBSET DomainVars]
            /\ r \in [cond : Conds, level : Levels, dvars : SUBSET DomainVars]
        BY <1>1 DEF PartSet
      <4>2. p.level = r.level /\ p.dvars = r.dvars
        BY <3>4, <3>6
      <4>3. QED
        BY <3>6, <4>1, <4>2
    <3> HIDE DEF N
    <3>7. conditions[l] \subseteq PartConds(N)
      BY <3>2, <3>3, <3>5, <3>6, AllTaken
    <3>8. PartConds(N) \subseteq P
      BY DEF N, P, PartConds
    <3>9. QED
      BY <3>7, <3>8 DEF Searched
  <2>3. QED
    BY <2>1, <2>2 DEF WriteBack
<1>6. query' = w
  BY DEF WriteBack, Step
<1> HIDE DEF c1, d1
<1>7. /\ w.pc = "type" /\ w.static = query.static /\ w.parts = query.parts /\ w.level = l
      /\ w.cur = c1 /\ w.next = {} /\ w.dcur = d1
  BY <1>1 DEF QueryType
<1> HIDE DEF w
<1>8. ASSUME NEW v \in c1 PROVE Height[v] <= h
  <2>1. Height[v] \in Int /\ h \in Int
    <3>1. query.cur \in SUBSET Vars /\ query.next \in SUBSET Vars
      BY <1>1 DEF QueryType
    <3>2. v \in Vars
      BY <3>1 DEF c1
    <3>3. Height[v] \in Int
      BY <1>1, <3>2
    <3>4. h \in Int
      BY <1>1
    <3>5. QED
      BY <3>3, <3>4
  <2>2. v \in RelevantVars(P)[l] \/ Height[v] < h
    BY <1>3 DEF c1
  <2>3. QED
    BY <1>4, <2>1, <2>2
<1>9. {v \in c1 : Height[v] = h} = RelevantVars(P)[l]
  <2>1. ASSUME NEW v \in c1, Height[v] = h PROVE v \in RelevantVars(P)[l]
    <3>1. CASE v \in query.cur
      BY <1>3, <3>1
    <3>2. CASE v \in query.next
      BY <1>1, <1>3, <2>1, <3>2
    <3>3. QED
      BY <3>1, <3>2 DEF c1
  <2>2. QED
    BY <1>3, <1>4, <2>1 DEF c1
<1>10. Buffers(w, P, Height)
  BY <1>3, <1>7, <1>8, <1>9 DEF Buffers, d1
<1>11. \A k \in Done(w) : Searched(P, k)
  BY <1>1, <1>2, <1>5, <1>7 DEF Done
<1>12. QED
  BY <1>1, <1>6, <1>7, <1>10, <1>11, PosedAgain DEF P

\* T has the variables of S that can be bound by B: those of one height.
Fresh(S, T, B, Height, h) ==
  T = {v \in S : Height[v] = h} /\ \A b \in B : Height[b[1]] = h

LEMMA BoundFresh ==
  ASSUME NEW S, NEW T, NEW B, NEW Height, NEW h, Fresh(S, T, B, Height, h)
  PROVE  Bound(S, B) = Bound(T, B)
<1>1. \A b \in B : b[1] \in S <=> b[1] \in T
  BY DEF Fresh
<1>2. QED
  BY <1>1 DEF Bound

\* The bindings of the variables in a buffer.
Used(B, cur) == {b \in B : b[1] \in cur}

\* What addVarTo's caller does to the buffers.
LEMMA BindFields ==
  ASSUME NEW q \in QueryType, NEW kept, NEW B, NEW w, w = Bind(q, kept, B)
  PROVE  /\ w.static = q.static /\ w.domain = q.domain
         /\ w.parts = q.parts /\ w.level = q.level /\ w.pc = q.pc
         /\ w.dcur = q.dcur /\ w.next = q.cur /\ w.cur = kept \cup Bound(q.cur, B)
         /\ w.unified = AddVarTo(q.unified, Used(B, q.cur))
<1> DEFINE used == {b \in B : b[1] \in q.cur}
           c1 == kept \cup {b[2] : b \in used}
           u1 == AddVarTo(q.unified, used)
           w1 == [q EXCEPT !.cur = c1, !.next = q.cur, !.unified = u1]
<1>1. w = w1
  BY Zenon DEF Bind
<1>2. c1 = kept \cup Bound(q.cur, B)
  BY DEF Bound
<1> HIDE DEF used, c1, u1
<1>3. /\ w.static = q.static /\ w.domain = q.domain
      /\ w.parts = q.parts /\ w.level = q.level /\ w.pc = q.pc
      /\ w.dcur = q.dcur /\ w.next = q.cur /\ w.cur = c1 /\ w.unified = u1
  BY <1>1 DEF QueryType
<1>4. QED
  BY <1>2, <1>3 DEF used, u1, Used

LEMMA BindTypePoses ==
  ASSUME NEW Height, Undisturbed(Height), BindType
  PROVE  Posed(query', Height)
<1> DEFINE P == PartConds(query.parts)
           l == query.level
           h == 2 * l - 1
           rel == RelevantVars(P)[l]
           B == TypeBinding[l]
           q == [query EXCEPT !.pc = "state"]
<1>1. /\ Assumptions /\ PlansApart(Height) /\ query \in QueryType
      /\ l \in Levels /\ l \in Nat /\ l >= 1 /\ \A x \in Vars : Height[x] \in Int
      /\ \A k \in 1..(l - 1) : k \in parent
      /\ query.pc \in Climbing => \A k \in Done(query) : Searched(P, k)
      /\ Buffers(query, P, Height)
  BY UndisturbedFacts
<1> HIDE DEF P
<1>2. query.pc = "type" /\ \A k \in 1..l : Searched(P, k)
  BY <1>1 DEF BindType, Done, Climbing
<1>3. /\ \A v \in query.cur : Height[v] <= h
      /\ {v \in query.cur : Height[v] = h} = rel
      /\ \A v \in query.next : Height[v] < h
      /\ query.dcur = RelevantDomain(P, l)
  BY <1>1, <1>2 DEF Buffers
<1>4. query' = IF B = NoType THEN q ELSE Bind(q, query.next, B)
  BY DEF BindType, Step
<1>5. /\ q \in QueryType /\ q.pc = "state" /\ q.static = query.static /\ q.parts = query.parts
      /\ q.level = l /\ q.cur = query.cur /\ q.dcur = query.dcur
  BY <1>1 DEF QueryType, QueryPcs
<1>6. query.cur \subseteq Vars /\ query.next \subseteq Vars
  BY <1>1 DEF QueryType
<1> HIDE DEF q, rel
<1>7. CASE B = NoType
  <2>1. Typed(l, rel) = rel
    BY <1>7 DEF Typed
  <2>2. \A v \in q.cur : Height[v] <= h + 1
    BY <1>1, <1>3, <1>5, <1>6
  <2>3. Buffers(q, P, Height)
    BY <1>3, <1>5, <1>7, <2>1, <2>2 DEF Buffers, rel
  <2>4. \A k \in Done(q) : Searched(P, k)
    BY <1>2, <1>5 DEF Done
  <2>5. Posed(q, Height)
    BY <1>1, <1>5, <2>3, <2>4, PosedAgain DEF P
  <2>6. QED
    BY <1>4, <1>7, <2>5
<1>8. CASE B # NoType
  <2> DEFINE w == Bind(q, query.next, B)
  <2>1. /\ w.static = query.static /\ w.parts = query.parts /\ w.level = l /\ w.pc = "state"
        /\ w.dcur = query.dcur /\ w.cur = query.next \cup Bound(query.cur, B)
    BY <1>5, BindFields
  <2> HIDE DEF w
  <2>2. \A b \in B : Height[b[1]] = h /\ Height[b[2]] = h + 1
    BY <1>1, <1>8 DEF PlansApart
  <2>3. Bound(query.cur, B) = Bound(rel, B)
    <3>1. Fresh(query.cur, rel, B, Height, h)
      BY <1>3, <2>2 DEF Fresh
    <3>2. QED
      BY <3>1, BoundFresh
  <2>4. Typed(l, rel) = Bound(rel, B)
    BY <1>8 DEF Typed
  <2>5. \A v \in Bound(rel, B) : Height[v] = h + 1
    BY <2>2 DEF Bound
  <2>6. \A v \in w.cur : Height[v] <= h + 1
    BY <1>1, <1>3, <1>6, <2>1, <2>3, <2>5
  <2>7. {v \in w.cur : Height[v] = h + 1} = Typed(l, rel)
    BY <1>1, <1>3, <1>6, <2>1, <2>3, <2>4, <2>5
  <2>8. Buffers(w, P, Height)
    BY <1>3, <1>8, <2>1, <2>6, <2>7 DEF Buffers, rel
  <2>9. \A k \in Done(w) : Searched(P, k)
    BY <1>2, <2>1 DEF Done
  <2>10. Posed(w, Height)
    BY <1>1, <2>1, <2>8, <2>9, PosedAgain DEF P
  <2>11. QED
    BY <1>4, <1>8, <2>10 DEF w
<1>9. QED
  BY <1>7, <1>8

LEMMA BindStatePoses ==
  ASSUME NEW Height, Undisturbed(Height), BindState
  PROVE  Posed(query', Height)
<1> DEFINE P == PartConds(query.parts)
           l == query.level
           h == 2 * l - 1
           rel == RelevantVars(P)[l]
           B == BindingsUp[l + 1]
           src == IF TypeBinding[l] = NoType THEN h ELSE h + 1
           q == [query EXCEPT !.pc = "up"]
<1>1. /\ Assumptions /\ PlansApart(Height) /\ query \in QueryType /\ PathType
      /\ l \in Levels /\ l \in Nat /\ l >= 1 /\ \A x \in Vars : Height[x] \in Int
      /\ \A k \in 1..(l - 1) : k \in parent
      /\ query.pc \in Climbing => \A k \in Done(query) : Searched(P, k)
      /\ Buffers(query, P, Height)
  BY UndisturbedFacts
<1> HIDE DEF P
<1>2. query.pc = "state" /\ \A k \in 1..l : Searched(P, k)
  BY <1>1 DEF BindState, Done, Climbing
<1>3. /\ \A v \in query.cur : Height[v] <= h + 1
      /\ {v \in query.cur : Height[v] = src} = Typed(l, rel)
      /\ query.dcur = RelevantDomain(P, l)
  BY <1>1, <1>2 DEF Buffers
<1>4. /\ q \in QueryType /\ q.pc = "up" /\ q.static = query.static /\ q.parts = query.parts
      /\ q.level = l /\ q.cur = query.cur /\ q.dcur = query.dcur
  BY <1>1 DEF QueryType, QueryPcs
<1>5. query.cur \subseteq Vars
  BY <1>1 DEF QueryType
<1>6. CASE l \notin parent
  <2>1. query' = q
    BY <1>6 DEF BindState, Step
  <2> HIDE DEF q
  <2>2. Buffers(q, P, Height)
    BY <1>3, <1>4, <1>6 DEF Buffers
  <2>3. \A k \in Done(q) : Searched(P, k)
    BY <1>2, <1>4 DEF Done
  <2>4. Posed(q, Height)
    BY <1>1, <1>4, <2>2, <2>3, PosedAgain DEF P
  <2>5. QED
    BY <2>1, <2>4
<1>7. CASE l \in parent
  <2>1. l + 1 \in Levels \ {1} /\ (l + 1) - 1 = l
    BY <1>1, <1>7 DEF PathType, Levels, Assumptions, PathAssumption
  <2>2. B = StateBinding[l + 1][place[l + 1][Me]] /\ place[l + 1][Me] \in States
    BY <1>1, <2>1 DEF BindingsUp, PathType
  <2>3. query' = Bind(q, {}, B)
    BY <1>7, <2>2 DEF BindState, Step
  <2> DEFINE none == {}
             w == Bind(q, none, B)
  <2> HIDE DEF q
  <2>4. \A b \in B : Height[b[1]] = src
    <3>1. ASSUME NEW b \in B PROVE Height[b[1]] = IF TypeBinding[l] = NoType THEN 2 * (l + 1) - 3
                                                  ELSE 2 * (l + 1) - 2
      BY <1>1, <2>1, <2>2 DEF PlansApart
    <3>2. 2 * (l + 1) - 3 = h /\ 2 * (l + 1) - 2 = h + 1
      BY <1>1
    <3>3. QED
      BY <3>1, <3>2
  <2> HIDE DEF B, src, none, rel
  <2>5. /\ w.static = query.static /\ w.parts = query.parts /\ w.level = l /\ w.pc = "up"
        /\ w.dcur = query.dcur /\ w.next = query.cur /\ w.cur = none \cup Bound(query.cur, B)
    BY <1>4, BindFields
  <2> HIDE DEF w
  <2>6. Bound(query.cur, B) = Bound(Typed(l, rel), B)
    <3> DEFINE T == Typed(l, rel)
    <3>1. Fresh(query.cur, T, B, Height, src)
      BY <1>3, <2>4 DEF Fresh
    <3> HIDE DEF T
    <3>2. Bound(query.cur, B) = Bound(T, B)
      BY <3>1, BoundFresh
    <3>3. QED
      BY <3>2 DEF T
  <2>7. \A v \in w.next : Height[v] < h + 2
    BY <1>1, <1>3, <1>5, <2>5
  <2>8. Buffers(w, P, Height)
    BY <1>3, <2>5, <2>6, <2>7 DEF Buffers, rel, B, none
  <2>9. \A k \in Done(w) : Searched(P, k)
    BY <1>2, <2>5 DEF Done
  <2>10. Posed(w, Height)
    BY <1>1, <2>5, <2>8, <2>9, PosedAgain DEF P
  <2>11. QED
    BY <2>3, <2>10 DEF w, none
<1>8. QED
  BY <1>6, <1>7

\* The climb goes on to the parent, or the path ends and the problem is whole.
LEMMA MoveUpPoses ==
  ASSUME NEW Height, Undisturbed(Height), MoveUp
  PROVE  Posed(query', Height)
<1> DEFINE P == PartConds(query.parts)
           l == query.level
           up == l + 1
           rel == RelevantVars(P)[l]
<1>1. /\ Assumptions /\ PlansApart(Height) /\ OwnStores /\ PathType
      /\ query \in QueryType /\ query.static \in SUBSET Vars
      /\ l \in Levels /\ l \in Nat /\ l >= 1 /\ query.parts \in PartSet /\ PartsOf(query)
      /\ \A k \in 1..(l - 1) : k \in parent
      /\ query.pc \in Climbing => \A k \in Done(query) : Searched(P, k)
      /\ Buffers(query, P, Height)
  BY UndisturbedFacts
<1> HIDE DEF P
<1>2. query.pc = "up" /\ \A k \in 1..l : Searched(P, k)
  BY <1>1 DEF MoveUp, Done, Climbing
<1>3. /\ l \in parent => /\ query.cur = Bound(Typed(l, rel), BindingsUp[up])
                         /\ \A v \in query.next : Height[v] < 2 * l - 1 + 2
      /\ query.dcur = RelevantDomain(P, l)
  BY <1>1, <1>2 DEF Buffers
<1>4. CASE l \notin parent
  <2> DEFINE w == [query EXCEPT !.pc = "collected"]
  <2>1. query' = w
    BY <1>4 DEF MoveUp, Step
  <2>2. w.pc = "collected" /\ w.static = query.static /\ w.parts = query.parts /\ w.level = l
    BY <1>1 DEF QueryType
  <2> HIDE DEF w
  <2>3. ASSUME NEW k \in Path PROVE k \in 1..l
    <3>1. k \in Levels /\ k \in Nat /\ k >= 1 /\ \A j \in 1..(k - 1) : j \in parent
      BY <1>1 DEF Path, Levels, Assumptions, PathAssumption
    <3>2. l \notin 1..(k - 1)
      BY <1>4, <3>1
    <3>3. QED
      BY <1>1, <3>1, <3>2
  <2>4. Closed(P)
    BY <1>2, <2>3 DEF Closed, Searched
  <2>5. Buffers(w, P, Height) /\ w.pc \notin Climbing
    BY <2>2, <2>4 DEF Buffers, Climbing
  <2>6. Posed(w, Height)
    BY <1>1, <2>2, <2>5, PosedAgain DEF P
  <2>7. QED
    BY <2>1, <2>6
<1>5. CASE l \in parent
  <2> DEFINE w == [query EXCEPT !.pc = "lock", !.level = up]
  <2>1. query' = w
    BY <1>5 DEF MoveUp, Step
  <2>2. up \in Levels /\ up \in Nat /\ up # 1 /\ up - 1 = l /\ l <= up
    BY <1>1, <1>5 DEF PathType, Levels, Assumptions, PathAssumption
  <2> HIDE DEF up
  <2>3. /\ w.pc = "lock" /\ w.static = query.static /\ w.parts = query.parts /\ w.level = up
        /\ w.cur = query.cur /\ w.next = query.next /\ w.dcur = query.dcur
    BY <1>1, <2>2 DEF QueryType
  <2> HIDE DEF w
  <2>4. ASSUME NEW p \in query.parts PROVE p.level < up
    <3>1. p.level <= l /\ p.level \in Nat
      BY <1>1 DEF PartsOf, PartSet, Levels, Assumptions, PathAssumption
    <3>2. QED
      BY <1>1, <2>2, <3>1
  <2>5. P \cap conditions[up] = {}
    <3> SUFFICES ASSUME NEW c \in P \cap conditions[up] PROVE FALSE
      OBVIOUS
    <3>1. PICK p \in query.parts : p.cond = c /\ p.level = up
      BY <1>1, <2>2, PartLevel DEF P
    <3>2. QED
      BY <2>2, <2>4, <3>1
  <2>6. query.cur = RelevantVars(P)[up]
    <3>1. RelevantVars(P)[up] = (UNION {CondVars[c] : c \in P \cap conditions[up]})
             \cup IF up = 1 THEN query.static
                  ELSE Bound(Typed(up - 1, RelevantVars(P)[up - 1]), BindingsUp[up])
      BY <1>1, <2>2, RelevantUnfolds
    <3>2. UNION {CondVars[c] : c \in P \cap conditions[up]} = {}
      BY <2>5
    <3>3. RelevantVars(P)[up] = Bound(Typed(l, rel), BindingsUp[up])
      BY <2>2, <3>1, <3>2
    <3>4. QED
      BY <1>3, <1>5, <3>3
  <2>7. query.dcur = RelevantDomain(P, up)
    <3> DEFINE dom(k) == UNION {DomainVarsOf(c, k) : c \in P \cap conditions[k]}
    <3>1. dom(up) = {}
      BY <2>5
    <3>2. \A k : RelevantDomain(P, k) = query.domain \cup UNION {dom(j) : j \in 1..k}
      BY DEF RelevantDomain
    <3> HIDE DEF dom
    <3>3. 1..up = 1..l \cup {up}
      BY <1>1, <2>2
    <3>4. UNION {dom(j) : j \in 1..up} = UNION {dom(j) : j \in 1..l}
      BY <3>1, <3>3
    <3>5. QED
      BY <1>3, <3>2, <3>4
  <2>8. \A v \in query.next : Height[v] < 2 * up - 1
    <3>1. 2 * up - 1 = 2 * l - 1 + 2
      BY <1>1, <2>2
    <3>2. QED
      BY <1>3, <1>5, <3>1
  <2>9. Buffers(w, P, Height)
    BY <2>3, <2>4, <2>6, <2>7, <2>8 DEF Buffers
  <2>10. \A k \in Done(w) : Searched(P, k)
    BY <1>2, <2>2, <2>3 DEF Done
  <2>11. \A k \in 1..(up - 1) : k \in parent
    <3>1. 1..(up - 1) = 1..(l - 1) \cup {l}
      BY <1>1, <2>2
    <3>2. QED
      BY <1>1, <1>5, <3>1
  <2>12. Posed(w, Height)
    BY <1>1, <2>2, <2>3, <2>9, <2>10, <2>11, PosedAgain DEF P
  <2>13. QED
    BY <2>1, <2>12
<1>6. QED
  BY <1>4, <1>5

\* The answer changes nothing of the problem.
LEMMA SolvePoses ==
  ASSUME NEW Height, Undisturbed(Height), Solve
  PROVE  Posed(query', Height)
<1> DEFINE P == PartConds(query.parts)
           l == query.level
           c == IF query.parts = {} THEN "empty" ELSE "solved"
           w == [query EXCEPT !.pc = c]
<1>1. /\ Assumptions /\ query \in QueryType /\ l \in Levels /\ l \in Nat
      /\ \A k \in 1..(l - 1) : k \in parent
      /\ Buffers(query, P, Height)
  BY UndisturbedFacts
<1>2. query.pc = "collected" /\ query' = w
  BY DEF Solve, Step
<1> HIDE DEF P
<1>3. Closed(P)
  BY <1>1, <1>2 DEF Buffers
<1>4. c \in {"empty", "solved"}
  OBVIOUS
<1> HIDE DEF c
<1>5. w.pc = c /\ w.static = query.static /\ w.parts = query.parts /\ w.level = l
  BY <1>1 DEF QueryType
<1> HIDE DEF w
<1>6. Buffers(w, P, Height) /\ w.pc \notin Climbing
  BY <1>3, <1>4, <1>5 DEF Buffers, Climbing
<1>7. Posed(w, Height)
  BY <1>1, <1>5, <1>6, PosedAgain DEF P
<1>8. QED
  BY <1>2, <1>7

\* The problem depends on the tree and on what was asked.
LEMMA SameProblem ==
  ASSUME UNCHANGED tree, query'.static = query.static, query'.domain = query.domain,
         NEW P
  PROVE  /\ RelevantVars(P)' = RelevantVars(P)
         /\ \A l : RelevantDomain(P, l)' = RelevantDomain(P, l)
<1>1. conditions' = conditions /\ place' = place
  BY DEF tree
<1>2. OwnVars(P)' = OwnVars(P)
  BY <1>1 DEF OwnVars
<1>3. BindingsUp' = BindingsUp
  BY <1>1 DEF BindingsUp
<1>4. RelevantVars(P)' = RelevantVars(P)
  BY <1>2, <1>3 DEF RelevantVars
<1>5. \A c, l : DomainVarsOf(c, l)' = DomainVarsOf(c, l)
  BY <1>1 DEF DomainVarsOf, AgentsInScope
<1>6. \A l : RelevantDomain(P, l)' = RelevantDomain(P, l)
  BY <1>1, <1>5 DEF RelevantDomain
<1>7. QED
  BY <1>4, <1>6

LEMMA SameConcerns ==
  ASSUME UNCHANGED tree, query'.static = query.static, query'.domain = query.domain,
         NEW P
  PROVE  /\ \A c, l : Concerned(P, c, l)' = Concerned(P, c, l)
         /\ \A c, d, l : Covers(c, d, l)' = Covers(c, d, l)
         /\ \A l, v : ActiveUnder(l, v)' = ActiveUnder(l, v)
         /\ \A l : Searched(P, l)' = Searched(P, l)
         /\ Closed(P)' = Closed(P)
<1>1. conditions' = conditions /\ place' = place /\ parent' = parent
  BY DEF tree
<1>2. \A q, l : AgentsInScope(q, l)' = AgentsInScope(q, l)
  BY <1>1 DEF AgentsInScope
<1>3. /\ RelevantVars(P)' = RelevantVars(P)
      /\ \A l : RelevantDomain(P, l)' = RelevantDomain(P, l)
  BY SameProblem
<1>4. \A c, l : Concerned(P, c, l)' = Concerned(P, c, l)
  BY <1>2, <1>3 DEF Concerned
<1>5. \A c, d, l : Covers(c, d, l)' = Covers(c, d, l)
  BY <1>2 DEF Covers
<1>6. \A l, v : ActiveUnder(l, v)' = ActiveUnder(l, v)
  BY <1>1 DEF ActiveUnder
<1>7. \A l : Searched(P, l)' = Searched(P, l)
  BY <1>1, <1>4 DEF Searched
<1>8. Path' = Path
  BY <1>1 DEF Path
<1>9. Closed(P)' = Closed(P)
  BY <1>1, <1>4, <1>8 DEF Closed
<1>10. QED
  BY <1>4, <1>5, <1>6, <1>7, <1>9

\* What is known of the query after a step that leaves the tree alone holds in the
\* state it leads to.
LEMMA PosedNext ==
  ASSUME NEW Height, UNCHANGED tree, query'.static = query.static, query'.domain = query.domain,
         Posed(query', Height)
  PROVE  Posed(query, Height)'
<1> DEFINE P == PartConds(query'.parts)
<1>1. conditions' = conditions /\ place' = place /\ parent' = parent
  BY DEF tree
<1>2. PartsOf(query)'
  <2>1. \A c, l : DomainVarsOf(c, l)' = DomainVarsOf(c, l)
    BY <1>1 DEF DomainVarsOf, AgentsInScope
  <2>2. PartsOf(query')
    BY DEF Posed
  <2>3. QED
    BY <1>1, <2>1, <2>2 DEF PartsOf
<1>3. Least(PartConds(query.parts))'
  <2>1. \A Q : Closed(Q)' = Closed(Q)
    BY SameConcerns
  <2>2. Least(P)
    BY DEF Posed
  <2>3. QED
    BY <2>1, <2>2 DEF Least
<1>4. \A k \in 1..(query'.level - 1) : k \in parent'
  BY <1>1 DEF Posed
<1>5. query'.pc \in Climbing => \A k \in Done(query') : Searched(PartConds(query.parts), k)'
  <2>1. \A Q, l : Searched(Q, l)' = Searched(Q, l)
    BY SameConcerns
  <2>2. QED
    BY <2>1 DEF Posed
<1>6. Buffers(query, PartConds(query.parts), Height)'
  <2>1. \A Q : /\ RelevantVars(Q)' = RelevantVars(Q)
               /\ \A l : RelevantDomain(Q, l)' = RelevantDomain(Q, l)
               /\ Closed(Q)' = Closed(Q)
               /\ \A c, d, l : Covers(c, d, l)' = Covers(c, d, l)
               /\ \A l, v : ActiveUnder(l, v)' = ActiveUnder(l, v)
    BY SameProblem, SameConcerns
  <2>2. BindingsUp' = BindingsUp
    BY <1>1 DEF BindingsUp
  <2>3. Buffers(query', P, Height)
    BY DEF Posed
  <2>4. QED
    BY <1>1, <2>1, <2>2, <2>3 DEF Buffers
<1>7. QED
  BY <1>2, <1>3, <1>4, <1>5, <1>6 DEF Posed

\* A new query knows no condition yet; what was asked for matters.
LEMMA AskPoses ==
  ASSUME Assumptions, NEW Height, PlansApart(Height), PathType, NEW ask \in Questions, Ask(ask)
  PROVE  Posed(query, Height)'
<1> DEFINE st == ask.static
           dm == ask.domain
           un == {<<x>> : x \in st}
           w == [Blank EXCEPT !.static = st, !.domain = dm, !.pc = "lock", !.cur = st,
                              !.dcur = dm, !.unified = un]
<1>1. query' = w /\ conditions' = conditions /\ place' = place /\ parent' = parent
  BY DEF Ask
<1>2. st \in SUBSET Vars /\ \A v \in st : Height[v] = 1
  BY DEF Assumptions, QuestionAssumption, PlansApart
<1> HIDE DEF st, dm, un
<1>3. /\ w.static = st /\ w.domain = dm /\ w.pc = "lock" /\ w.level = 1 /\ w.parts = {}
      /\ w.cur = st /\ w.dcur = dm /\ w.next = {}
  BY DEF Blank
<1> HIDE DEF w
<1>4. /\ query'.static = st /\ query'.domain = dm /\ query'.pc = "lock" /\ query'.level = 1
      /\ query'.parts = {} /\ query'.cur = st /\ query'.dcur = dm /\ query'.next = {}
  BY <1>1, <1>3
<1>5. PartConds(query'.parts) = {}
  BY <1>4 DEF PartConds
<1>6. RelevantVars({})'[1] = st
  <2> DEFINE own == [l \in Levels |-> {}]
             over == BindingsUp
  <2>1. OwnVars({})' = own
    BY DEF OwnVars
  <2>2. BindingsUp' = over
    BY <1>1 DEF BindingsUp
  <2>3. RelevantVars({})' = Collect(own, over, st)
    BY <1>4, <2>1, <2>2 DEF RelevantVars
  <2>4. own \in [Levels -> SUBSET Vars] /\ over \in [Levels -> SUBSET (Vars \X Vars)]
    BY DEF BindingsUp, PathType, Assumptions, BindingAssumption
  <2>5. 1 \in Levels /\ own[1] = {}
    BY DEF Levels, Assumptions, PathAssumption
  <2> HIDE DEF own, over
  <2>6. Collect(own, over, st)[1] = own[1] \cup st
    <3>1. \A l \in Levels :
              Collect(own, over, st)[l] =
                own[l] \cup IF l = 1 THEN st
                            ELSE Bound(Typed(l - 1, Collect(own, over, st)[l - 1]), over[l])
      BY <1>2, <2>4, CollectUnfolds
    <3>2. QED
      BY <2>5, <3>1
  <2>7. QED
    BY <2>3, <2>5, <2>6
<1>7. RelevantDomain({}, 1)' = dm
  BY <1>4 DEF RelevantDomain
<1>8. Buffers(query, {}, Height)'
  BY <1>4, <1>6, <1>7 DEF Buffers
<1>9. PartsOf(query)' /\ Least({})' /\ Done(query') = 1..0
  BY <1>4 DEF PartsOf, Least, Done
<1>10. \A k \in Done(query') : FALSE
  BY <1>9
<1>11. QED
  BY <1>2, <1>4, <1>5, <1>8, <1>9, <1>10 DEF Posed

-------------------------------------------------------------------------------
(* The invariant *)

\* A step of the query changes neither the tree nor the question.
LEMMA QuestionStays ==
  ASSUME ClimbInv, QueryStep
  PROVE  /\ UNCHANGED tree /\ quiet' = quiet /\ query.pc # "idle"
         /\ query'.static = query.static /\ query'.domain = query.domain
<1>1. query \in QueryType
  BY DEF ClimbInv
<1>2. \E q : Step(q)
  BY DEF QueryStep, LockPlan, AcceptQuery, WriteBack, BindType, BindState, MoveUp, Solve,
         TakeStatic, TakeDomain
<1>3. UNCHANGED tree /\ quiet' = quiet
  BY <1>2 DEF Step, tree
<1>4. query.pc # "idle"
  BY DEF QueryStep, LockPlan, AcceptQuery, WriteBack, BindType, BindState, MoveUp, Solve,
         TakeStatic, TakeDomain
<1> SUFFICES query'.static = query.static /\ query'.domain = query.domain
  BY <1>3, <1>4
<1>5. CASE LockPlan \/ AcceptQuery \/ MoveUp \/ Solve
  <2>1. PICK c, l, b : \/ query' = [query EXCEPT !.pc = c]
                       \/ query' = [query EXCEPT !.pc = c, !.level = l]
                       \/ query' = [query EXCEPT !.pc = c, !.before = b]
    <3>1. CASE LockPlan \/ Solve
      <4>1. \E c : query' = [query EXCEPT !.pc = c]
        BY <3>1 DEF LockPlan, Solve, Step
      <4>2. QED
        BY <4>1
    <3>2. CASE AcceptQuery
      <4>1. \E c, b : query' = [query EXCEPT !.pc = c, !.before = b]
        BY <3>2 DEF AcceptQuery, Step
      <4>2. QED
        BY <4>1
    <3>3. CASE MoveUp
      <4>1. (\E c : query' = [query EXCEPT !.pc = c])
            \/ \E c, l : query' = [query EXCEPT !.pc = c, !.level = l]
        BY <3>3 DEF MoveUp, Step
      <4>2. QED
        BY <4>1
    <3>4. QED
      BY <1>5, <3>1, <3>2, <3>3
  <2>2. QED
    BY <1>1, <2>1 DEF QueryType
<1>6. CASE WriteBack
  <2> DEFINE c1 == query.cur \cup query.next
             d1 == query.dcur \cup query.dnext
             w == [query EXCEPT !.pc = "type", !.cur = c1, !.next = {}, !.dcur = d1, !.dnext = {}]
  <2>1. query' = w
    BY <1>6 DEF WriteBack, Step
  <2> HIDE DEF c1, d1
  <2>2. w.static = query.static /\ w.domain = query.domain
    BY <1>1 DEF QueryType
  <2>3. QED
    BY <2>1, <2>2
<1>7. CASE BindType \/ BindState
  <2>1. PICK c, kept, B : c \in QueryPcs /\
          query' \in {[query EXCEPT !.pc = c], Bind([query EXCEPT !.pc = c], kept, B)}
    <3>1. CASE BindType
      BY <3>1 DEF BindType, Step, QueryPcs
    <3>2. CASE BindState
      BY <3>2 DEF BindState, Step, QueryPcs
    <3>3. QED
      BY <1>7, <3>1, <3>2
  <2> DEFINE q == [query EXCEPT !.pc = c]
  <2>2. q \in QueryType /\ q.static = query.static /\ q.domain = query.domain
    BY <1>1, <2>1 DEF QueryType
  <2> HIDE DEF q
  <2>3. Bind(q, kept, B).static = q.static /\ Bind(q, kept, B).domain = q.domain
    BY <2>2, BindFields
  <2>4. QED
    BY <2>1, <2>2, <2>3 DEF q
<1>8. CASE (\E v \in Vars : TakeStatic(v)) \/ \E d \in DomainVars : TakeDomain(d)
  <2>1. ASSUME NEW v \in Vars, TakeStatic(v)
        PROVE  query'.static = query.static /\ query'.domain = query.domain
    <3> DEFINE c1 == query.cur \ {v}
               n1 == query.next \cup {v}
               q == [query EXCEPT !.cur = c1, !.next = n1]
               C == ActiveUnder(query.level, v) \ PartConds(NewParts)
    <3>1. query' = AddProblemParts(q, C)
      BY <2>1 DEF TakeStatic, Step
    <3>2. c1 \in SUBSET Vars /\ n1 \in SUBSET Vars
      BY <1>1 DEF QueryType
    <3> HIDE DEF c1, n1, C
    <3>3. q \in QueryType /\ q.static = query.static /\ q.domain = query.domain
      BY <1>1, <3>2 DEF QueryType
    <3> HIDE DEF q
    <3>4. QED
      BY <3>1, <3>3, PartsFields
  <2>2. ASSUME NEW d \in DomainVars, TakeDomain(d)
        PROVE  query'.static = query.static /\ query'.domain = query.domain
    <3> DEFINE c1 == query.dcur \ {d}
               n1 == query.dnext \cup {d}
               q == [query EXCEPT !.dcur = c1, !.dnext = n1]
               C == {c \in ActiveUnder(query.level, d[2]) \ PartConds(NewParts) : Covers(c, d, query.level)}
    <3>1. query' = AddProblemParts(q, C)
      BY <2>2 DEF TakeDomain, Step, Covers
    <3>2. c1 \in SUBSET DomainVars /\ n1 \in SUBSET DomainVars
      BY <1>1 DEF QueryType
    <3> HIDE DEF c1, n1, C
    <3>3. q \in QueryType /\ q.static = query.static /\ q.domain = query.domain
      BY <1>1, <3>2 DEF QueryType
    <3> HIDE DEF q
    <3>4. QED
      BY <3>1, <3>3, PartsFields
  <2>3. QED
    BY <1>8, <2>1, <2>2
<1>9. QED
  BY <1>5, <1>6, <1>7, <1>8 DEF QueryStep

\* What is known of an undisturbed query stays true of it.
LEMMA PoseStep ==
  ASSUME Assumptions, NEW Height, PlansApart(Height)
  PROVE  ClimbInv /\ PoseInv(Height) /\ [Next]_vars => PoseInv(Height)'
<1> SUFFICES ASSUME ClimbInv, PoseInv(Height), [Next]_vars PROVE PoseInv(Height)'
  OBVIOUS
<1>1. OwnStores /\ (quiet /\ query.pc # "idle" => Posed(query, Height))
  BY DEF PoseInv
<1>2. OwnStores'
  BY <1>1, OwnStoresStay
<1>3. CASE QueryStep
  <2> SUFFICES ASSUME quiet' PROVE Posed(query, Height)'
    BY <1>2 DEF PoseInv
  <2>1. /\ UNCHANGED tree /\ quiet' = quiet /\ query.pc # "idle"
        /\ query'.static = query.static /\ query'.domain = query.domain
    BY <1>3, QuestionStays
  <2>2. Undisturbed(Height)
    BY <1>1, <2>1 DEF Undisturbed
  <2>3. Posed(query', Height)
    BY <1>3, <2>2, LockPoses, AcceptPoses, WriteBackPoses, BindTypePoses, BindStatePoses,
       MoveUpPoses, SolvePoses, TakesPose DEF QueryStep
  <2>4. QED
    BY <2>1, <2>3, PosedNext
<1>4. CASE \E ask \in Questions : Ask(ask)
  <2>1. PathType
    BY DEF ClimbInv
  <2>2. Posed(query, Height)'
    BY <1>4, <2>1, AskPoses
  <2>3. QED
    BY <1>2, <2>2 DEF PoseInv
<1>5. CASE UNCHANGED vars
  <2>1. UNCHANGED tree /\ query' = query /\ quiet' = quiet
    BY <1>5 DEF vars, tree
  <2>2. quiet /\ query.pc # "idle" => Posed(query', Height)
    BY <1>1, <2>1
  <2>3. quiet /\ query.pc # "idle" => Posed(query, Height)'
    BY <2>1, <2>2, PosedNext
  <2>4. QED
    BY <1>2, <2>1, <2>3 DEF PoseInv
<1>6. CASE \/ \E l \in Levels, s \in States : TakeTransition(l, s) \/ AdaptAssignment(l, s)
           \/ \E l \in Levels, a \in Agents, s \in States \cup {Away} : MoveAgent(l, a, s)
           \/ Leave \/ Enter
  <2>1. quiet' = FALSE
    BY <1>6 DEF TakeTransition, AdaptAssignment, MoveAgent, Leave, Enter
  <2>2. QED
    BY <1>2, <2>1 DEF PoseInv
<1>7. QED
  BY <1>3, <1>4, <1>5, <1>6 DEF Next

\* A query the engine did not disturb poses the least problem that is closed under
\* what concerns the question: acceptQuery (ConditionStore.cpp), which stops after
\* as many parts as the store has conditions, and the buffers that each level flips
\* leave no condition out and take none too many; if no two plans of the path
\* share variables or conditions and bindings lead one plan or plan type up.
THEOREM ProblemIsPosed ==
  ASSUME NEW Height, PlansApart(Height)
  PROVE  Spec => []PosesTheProblem
<1>1. Assumptions
  BY PathAssumption, ConditionAssumption, BindingAssumption, QuestionAssumption DEF Assumptions
<1>2. Init => PoseInv(Height)
  BY DEF Init, Blank, PoseInv, OwnStores, OwnConds
<1>3. ClimbInv /\ PoseInv(Height) /\ [Next]_vars => PoseInv(Height)'
  BY <1>1, PoseStep
<1>4. ClimbInv /\ PoseInv(Height) => PosesTheProblem
  <2> SUFFICES ASSUME ClimbInv, PoseInv(Height), query.pc \in {"empty", "solved"}, quiet
               PROVE  LET P == PartConds(query.parts)
                      IN Closed(P) /\ \A Q \in SUBSET P : Q # P => ~Closed(Q)
    BY DEF PosesTheProblem
  <2> DEFINE P == PartConds(query.parts)
  <2>1. Least(P) /\ Buffers(query, P, Height)
    BY DEF PoseInv, Posed
  <2>2. P \subseteq Conds
    BY DEF ClimbInv, QueryType, PartSet, PartConds
  <2> HIDE DEF P
  <2>3. Closed(P)
    BY <2>1 DEF Buffers
  <2>4. ASSUME NEW Q \in SUBSET P, Closed(Q) PROVE Q = P
    BY <2>1, <2>2, <2>4 DEF Least
  <2>5. QED
    BY <2>3, <2>4 DEF P
<1>5. QED
  BY <1>2, <1>3, <1>4, QueryInvariant, PTL DEF Spec

-------------------------------------------------------------------------------
(* The variable that answers *)

Climber == [var : Vars, on : BOOLEAN]

\* How far a variable rises is a variable again; each goes to one.
LEMMA RiseType ==
  ASSUME Assumptions, PathType, NEW l \in Levels, NEW c \in Climber
  PROVE  TypeRise(l, c) \in Climber /\ StateRise(l, c) \in Climber
<1>1. ASSUME NEW S \in SUBSET Vars PROVE Further(c, S) \in Climber
  <2>1. CASE S = {}
    BY <2>1 DEF Further, Climber
  <2>2. CASE S # {}
    <3>1. (CHOOSE w \in S : TRUE) \in S
      BY <2>2
    <3>2. QED
      BY <2>2, <3>1 DEF Further, Climber
  <2>3. QED
    BY <2>1, <2>2
<1>2. Typed(l, {c.var}) \in SUBSET Vars
  <2>1. c.var \in Vars
    BY DEF Climber
  <2>2. TypeBinding[l] # NoType => TypeBinding[l] \subseteq Vars \X Vars
    BY DEF Assumptions, BindingAssumption
  <2>3. QED
    BY <2>1, <2>2 DEF Typed, Bound
<1>3. l + 1 \in Path => Bound({c.var}, BindingsUp[l + 1]) \in SUBSET Vars
  <2> SUFFICES ASSUME l + 1 \in Path PROVE Bound({c.var}, BindingsUp[l + 1]) \in SUBSET Vars
    OBVIOUS
  <2>1. l + 1 \in Levels
    BY DEF Path
  <2>2. BindingsUp[l + 1] \subseteq Vars \X Vars
    BY <2>1 DEF BindingsUp, PathType, Assumptions, BindingAssumption
  <2>3. QED
    BY <2>2 DEF Bound
<1>4. (IF l + 1 \in Path THEN Bound({c.var}, BindingsUp[l + 1]) ELSE {}) \in SUBSET Vars
  BY <1>3
<1>5. QED
  BY <1>1, <1>2, <1>4 DEF TypeRise, StateRise

\* The recursion of Rises.
LEMMA RisesUnfold ==
  ASSUME Assumptions, PathType, NEW v \in Vars
  PROVE  /\ \A l \in Levels : Rises(v)[l] \in Climber
         /\ Rises(v)[1] = [var |-> v, on |-> TRUE]
         /\ \A l \in Levels \ {1} : Rises(v)[l] = StateRise(l - 1, TypeRise(l - 1, Rises(v)[l - 1]))
<1> DEFINE start == [var |-> v, on |-> TRUE]
           At(l, c) == IF l = 1 THEN start ELSE StateRise(l - 1, TypeRise(l - 1, c))
           F == [l \in 1..Top |-> [c \in Climber |-> At(l, c)]]
           Rec(rise) == rise = [l \in Levels |-> At(l, rise[l - 1])]
<1>1. Top \in Nat /\ Levels = 1..Top /\ start \in Climber
  BY DEF Assumptions, PathAssumption, Levels, Climber
<1>2. Rises(v) = CHOOSE rise : Rec(rise)
  BY DEF Rises
<1> HIDE DEF start
<1>3. ASSUME NEW l \in Levels, NEW c \in Climber PROVE At(l, c) \in Climber
  <2>1. CASE l = 1
    BY <1>1, <2>1
  <2>2. CASE l # 1
    <3>1. l - 1 \in Levels
      BY <1>1, <2>2
    <3>2. TypeRise(l - 1, c) \in Climber
      BY <3>1, RiseType
    <3>3. StateRise(l - 1, TypeRise(l - 1, c)) \in Climber
      BY <3>1, <3>2, RiseType
    <3>4. QED
      BY <2>2, <3>3
  <2>3. QED
    BY <2>1, <2>2
<1>4. F \in StepsOn(Climber, Top)
  BY <1>1, <1>3 DEF StepsOn
<1>5. PICK f : StaysIn(f, Climber, Top) /\ Unfolds(f, start, F, Top)
  <2> HIDE DEF F
  <2>1. QED
    BY <1>1, <1>4, IntervalRecursion
<1>6. f \in [0..Top -> Climber]
  BY <1>5 DEF StaysIn
<1>7. ASSUME NEW l \in Levels PROVE f[l] = At(l, f[l - 1]) /\ f[l - 1] \in Climber
  <2>1. f[l] = F[l][f[l - 1]]
    BY <1>1, <1>5 DEF Unfolds
  <2>2. l - 1 \in 0..Top
    BY <1>1
  <2>3. f[l - 1] \in Climber
    BY <1>6, <2>2
  <2>4. QED
    BY <1>1, <2>1, <2>3
<1> DEFINE r == [l \in Levels |-> f[l]]
<1>8. ASSUME NEW l \in Levels PROVE r[l] = At(l, r[l - 1])
  <2>1. CASE l = 1
    BY <1>7, <2>1
  <2>2. CASE l # 1
    <3>1. l - 1 \in Levels
      BY <1>1, <2>2
    <3>2. r[l - 1] = f[l - 1]
      BY <3>1
    <3>3. QED
      BY <1>7, <3>2
  <2>3. QED
    BY <2>1, <2>2
<1> DEFINE s == Rises(v)
<1>9. Rec(r)
  <2> HIDE DEF At
  <2> DEFINE rr == [l \in Levels |-> At(l, r[l - 1])]
  <2>1. \A l \in Levels : r[l] = rr[l]
    BY <1>8
  <2>2. r = [l \in Levels |-> r[l]]
    OBVIOUS
  <2> HIDE DEF r
  <2>3. r = rr
    BY <2>1, <2>2
  <2>4. QED
    BY <2>3
<1> HIDE DEF r, s
<1>10. Rec(s)
  <2> HIDE DEF Rec
  <2>1. QED
    BY <1>2, <1>9 DEF s
<1> HIDE DEF At
<1>11. \A l \in Levels : s[l] = At(l, s[l - 1])
  BY <1>10
<1>12. 1 \in Levels /\ s[1] = start
  BY <1>1, <1>11 DEF At, Assumptions, PathAssumption
<1> DEFINE G == {k \in 0..Top : k = 0 \/ s[k] \in Climber}
<1>13. 0..Top \subseteq G
  <2>1. 0 \in G
    BY <1>1
  <2>2. ASSUME NEW n \in 0..(Top - 1), n \in G PROVE n + 1 \in G
    <3>1. n + 1 \in Levels /\ (n + 1) - 1 = n /\ n + 1 \in 0..Top
      BY <1>1
    <3>2. CASE n = 0
      BY <1>1, <1>12, <3>1, <3>2
    <3>3. CASE n # 0
      <4>1. s[n] \in Climber
        BY <2>2, <3>3
      <4>2. At(n + 1, s[n]) \in Climber
        BY <1>3, <3>1, <4>1
      <4>3. s[n + 1] = At(n + 1, s[n])
        BY <1>11, <3>1
      <4>4. QED
        BY <3>1, <4>2, <4>3
    <3>4. QED
      BY <3>2, <3>3
  <2> HIDE DEF G
  <2>3. QED
    BY <1>1, <2>1, <2>2, IntervalInduction
<1>14. \A l \in Levels : s[l] \in Climber
  BY <1>1, <1>13
<1>15. \A l \in Levels \ {1} : s[l] = StateRise(l - 1, TypeRise(l - 1, s[l - 1]))
  BY <1>11 DEF At
<1>16. QED
  BY <1>12, <1>14, <1>15 DEF s, start

\* Where a variable goes in one step.
LEMMA RiseSteps ==
  ASSUME NEW l, NEW c \in Climber
  PROVE  /\ TypeRise(l, c).on => c.on /\ TypeRise(l, c).var \in Typed(l, {c.var})
         /\ ~TypeRise(l, c).on => /\ TypeRise(l, c).var = c.var
                                  /\ c.on => Typed(l, {c.var}) = {}
         /\ StateRise(l, c).on => /\ c.on /\ l + 1 \in Path
                                  /\ StateRise(l, c).var \in Bound({c.var}, BindingsUp[l + 1])
         /\ ~StateRise(l, c).on =>
              /\ StateRise(l, c).var = c.var
              /\ c.on /\ l + 1 \in Path => Bound({c.var}, BindingsUp[l + 1]) = {}
         /\ ~c.on => TypeRise(l, c) = c /\ StateRise(l, c) = c
<1>1. ASSUME NEW S
      PROVE  /\ Further(c, S).on => Further(c, S).var \in S
             /\ ~Further(c, S).on => Further(c, S).var = c.var /\ S = {}
  <2>1. CASE S = {}
    BY <2>1 DEF Further, Climber
  <2>2. CASE S # {}
    <3>1. (CHOOSE w \in S : TRUE) \in S
      BY <2>2
    <3>2. QED
      BY <2>2, <3>1 DEF Further
  <2>3. QED
    BY <2>1, <2>2
<1>2. c.on \in BOOLEAN
  BY DEF Climber
<1>3. /\ TypeRise(l, c).on => c.on /\ TypeRise(l, c).var \in Typed(l, {c.var})
      /\ ~TypeRise(l, c).on => /\ TypeRise(l, c).var = c.var
                               /\ c.on => Typed(l, {c.var}) = {}
  BY <1>1, <1>2 DEF TypeRise
<1> DEFINE S == IF l + 1 \in Path THEN Bound({c.var}, BindingsUp[l + 1]) ELSE {}
<1>4. StateRise(l, c) = IF c.on THEN Further(c, S) ELSE c
  BY DEF StateRise
<1>5. (S # {} => l + 1 \in Path) /\ (l + 1 \in Path => S = Bound({c.var}, BindingsUp[l + 1]))
  OBVIOUS
<1> HIDE DEF S
<1>6. /\ Further(c, S).on => Further(c, S).var \in S
      /\ ~Further(c, S).on => Further(c, S).var = c.var /\ S = {}
  BY <1>1
<1>7. /\ StateRise(l, c).on => /\ c.on /\ l + 1 \in Path
                               /\ StateRise(l, c).var \in Bound({c.var}, BindingsUp[l + 1])
      /\ ~StateRise(l, c).on =>
           /\ StateRise(l, c).var = c.var
           /\ c.on /\ l + 1 \in Path => Bound({c.var}, BindingsUp[l + 1]) = {}
  <2>1. CASE c.on
    BY <1>4, <1>5, <1>6, <2>1
  <2>2. CASE ~c.on
    BY <1>4, <2>2
  <2>3. QED
    BY <2>1, <2>2
<1>8. ~c.on => TypeRise(l, c) = c /\ StateRise(l, c) = c
  BY <1>2 DEF TypeRise, StateRise
<1>9. QED
  BY <1>3, <1>7, <1>8

\* A variable that rises as far as a level matters there, whatever else does.
LEMMA RisesMatter ==
  ASSUME Assumptions, PathType, query.static \in SUBSET Vars, NEW v \in query.static, NEW P,
         NEW l \in Levels, Rises(v)[l].on
  PROVE  Rises(v)[l].var \in RelevantVars(P)[l]
<1> DEFINE G == {k \in 0..Top : k = 0 \/ (Rises(v)[k].on => Rises(v)[k].var \in RelevantVars(P)[k])}
<1>1. Top \in Nat /\ Levels = 1..Top
  BY DEF Assumptions, PathAssumption, Levels
<1>2. /\ \A k \in Levels : Rises(v)[k] \in Climber
      /\ Rises(v)[1] = [var |-> v, on |-> TRUE]
      /\ \A k \in Levels \ {1} : Rises(v)[k] = StateRise(k - 1, TypeRise(k - 1, Rises(v)[k - 1]))
  BY RisesUnfold
<1>3. 0 \in G
  BY <1>1
<1>4. ASSUME NEW n \in 0..(Top - 1), n \in G PROVE n + 1 \in G
  <2>1. n + 1 \in Levels /\ (n + 1) - 1 = n /\ n + 1 \in 0..Top
    BY <1>1
  <2>2. SUFFICES ASSUME Rises(v)[n + 1].on PROVE Rises(v)[n + 1].var \in RelevantVars(P)[n + 1]
    BY <2>1
  <2>3. RelevantVars(P)[n + 1] =
          (UNION {CondVars[c] : c \in P \cap conditions[n + 1]})
          \cup IF n + 1 = 1 THEN query.static
               ELSE Bound(Typed(n + 1 - 1, RelevantVars(P)[n + 1 - 1]), BindingsUp[n + 1])
    BY <2>1, RelevantUnfolds
  <2>4. CASE n = 0
    <3>1. Rises(v)[n + 1].var = v
      BY <1>2, <2>4
    <3>2. QED
      BY <2>3, <2>4, <3>1
  <2>5. CASE n # 0
    <3> DEFINE c == Rises(v)[n]
               m == TypeRise(n, c)
               rel == RelevantVars(P)[n]
               B == BindingsUp[n + 1]
    <3>1. n \in Levels /\ n + 1 \in Levels \ {1} /\ n + 1 # 1
      BY <1>1, <2>5
    <3>2. c \in Climber /\ m \in Climber /\ Rises(v)[n + 1] = StateRise(n, m)
      BY <1>2, <2>1, <3>1, RiseType
    <3>3. RelevantVars(P)[n + 1] =
            (UNION {CondVars[d] : d \in P \cap conditions[n + 1]}) \cup Bound(Typed(n, rel), B)
      BY <2>1, <2>3, <3>1
    <3> HIDE DEF m, rel, B
    <3>4. m.on /\ StateRise(n, m).var \in Bound({m.var}, B)
      <4>1. StateRise(n, m).on
        BY <2>2, <3>2
      <4>2. StateRise(n, m).on => /\ m.on /\ n + 1 \in Path
                                  /\ StateRise(n, m).var \in Bound({m.var}, BindingsUp[n + 1])
        BY <3>2, RiseSteps
      <4>3. QED
        BY <4>1, <4>2 DEF B
    <3>5. c.on /\ m.var \in Typed(n, {c.var})
      BY <3>2, <3>4, RiseSteps DEF m
    <3>6. {c.var} \subseteq rel
      BY <2>5, <1>4, <3>5 DEF rel
    <3> HIDE DEF c
    <3>7. {m.var} \subseteq Typed(n, rel)
      BY <3>5, <3>6, BoundGrows
    <3>8. Bound({m.var}, B) \subseteq Bound(Typed(n, rel), B)
      BY <3>7 DEF Bound
    <3>9. QED
      BY <3>2, <3>3, <3>4, <3>8
  <2>6. QED
    BY <2>4, <2>5
<1>5. l \in 0..Top /\ l # 0
  BY <1>1
<1>6. l \in G
  <2> HIDE DEF G
  <2>1. QED
    BY <1>1, <1>3, <1>4, <1>5, IntervalInduction
<1>7. QED
  BY <1>5, <1>6

\* A variable whose bindings have ended stays where it is.
LEMMA RisesEnd ==
  ASSUME Assumptions, PathType, NEW v \in Vars, NEW l \in Levels, ~Rises(v)[l].on
  PROVE  TopmostOf(v) = Rises(v)[l].var
<1> DEFINE c == Rises(v)[l]
           G == {k \in 0..Top : k >= l => Rises(v)[k] = c}
<1>1. Top \in Nat /\ Levels = 1..Top /\ l \in 0..Top /\ l >= 1
  BY DEF Assumptions, PathAssumption, Levels
<1>2. /\ \A k \in Levels : Rises(v)[k] \in Climber
      /\ \A k \in Levels \ {1} : Rises(v)[k] = StateRise(k - 1, TypeRise(k - 1, Rises(v)[k - 1]))
  BY RisesUnfold
<1>3. c \in Climber /\ ~c.on
  BY <1>2
<1> HIDE DEF c
<1>4. \A k : TypeRise(k, c) = c /\ StateRise(k, c) = c
  BY <1>3, RiseSteps
<1>5. 0 \in G
  BY <1>1
<1>6. ASSUME NEW n \in 0..(Top - 1), n \in G PROVE n + 1 \in G
  <2>1. n + 1 \in 0..Top
    BY <1>1
  <2>2. SUFFICES ASSUME n + 1 >= l PROVE Rises(v)[n + 1] = c
    BY <2>1
  <2>3. CASE n + 1 = l
    BY <2>3 DEF c
  <2>4. CASE n >= l
    <3>1. n + 1 \in Levels \ {1} /\ (n + 1) - 1 = n
      BY <1>1, <2>4
    <3>2. Rises(v)[n] = c
      BY <1>6, <2>4
    <3>3. QED
      BY <1>2, <1>4, <3>1, <3>2
  <2>5. QED
    BY <1>1, <2>2, <2>3, <2>4
<1>7. Top \in G
  <2> HIDE DEF G
  <2>1. 0..Top \subseteq G
    BY <1>1, <1>5, <1>6, IntervalInduction
  <2>2. QED
    BY <1>1, <2>1
<1>8. Rises(v)[Top] = c
  BY <1>1, <1>7
<1>9. QED
  BY <1>4, <1>8 DEF TopmostOf, c

\* What is known of the variable that v has risen to at a level: it is of the plan of
\* that level and matters there, or of one below.
Risen(v, P, l, Height) ==
  LET c == Rises(v)[l]
      m == TypeRise(l, c)
      src == IF TypeBinding[l] = NoType THEN 2 * l - 1 ELSE 2 * l
  IN /\ c \in Climber /\ m \in Climber
     /\ c.on => c.var \in RelevantVars(P)[l] /\ Height[c.var] = 2 * l - 1
     /\ ~c.on => Height[c.var] < 2 * l - 1
     /\ m.on => m.var \in Typed(l, RelevantVars(P)[l]) /\ Height[m.var] = src
     /\ ~m.on => Height[m.var] < src
     /\ Height[m.var] < 2 * l + 1

\* From what is known of the variable at a level follows what is known after the type.
LEMMA TypeRisen ==
  ASSUME Assumptions, NEW Height, PlansApart(Height), NEW l \in Levels, NEW c \in Climber,
         NEW rel, c.on => c.var \in rel /\ Height[c.var] = 2 * l - 1,
         ~c.on => Height[c.var] < 2 * l - 1,
         NEW m, m = TypeRise(l, c),
         NEW src, src = IF TypeBinding[l] = NoType THEN 2 * l - 1 ELSE 2 * l
  PROVE  /\ m.on => m.var \in Typed(l, rel) /\ Height[m.var] = src
         /\ ~m.on => Height[m.var] < src
         /\ Height[m.var] < 2 * l + 1
<1>1. l \in Nat /\ l >= 1 /\ src \in Nat /\ 2 * l - 1 <= src /\ src <= 2 * l
  BY DEF Levels, Assumptions, PathAssumption
<1>2. c.var \in Vars /\ Height[c.var] \in Nat
  BY DEF Climber, PlansApart
<1>3. CASE m.on
  <2>1. c.on /\ m.var \in Typed(l, {c.var})
    BY <1>3, RiseSteps
  <2>2. Typed(l, {c.var}) \subseteq Typed(l, rel)
    BY <2>1, BoundGrows
  <2>3. Height[m.var] = src
    <3>1. CASE TypeBinding[l] = NoType
      BY <2>1, <3>1 DEF Typed
    <3>2. CASE TypeBinding[l] # NoType
      <4>1. PICK b \in TypeBinding[l] : m.var = b[2]
        BY <2>1, <3>2 DEF Typed, Bound
      <4>2. QED
        BY <3>2, <4>1 DEF PlansApart
    <3>3. QED
      BY <3>1, <3>2
  <2>4. Height[m.var] < 2 * l + 1
    BY <1>1, <2>3
  <2>5. c.var \in rel /\ m.var \in Typed(l, rel)
    BY <2>1, <2>2
  <2>6. QED
    BY <1>3, <2>3, <2>4, <2>5
<1>4. CASE ~m.on
  <2>1. m.var = c.var /\ (c.on => Typed(l, {c.var}) = {})
    BY <1>4, RiseSteps
  <2>2. c.on => TypeBinding[l] # NoType
    BY <2>1 DEF Typed
  <2>3. Height[m.var] < src
    BY <1>1, <1>2, <2>1, <2>2
  <2>4. Height[m.var] \in Nat
    BY <1>2, <2>1
  <2>5. Height[m.var] < 2 * l + 1
    BY <1>1, <2>3, <2>4
  <2>6. QED
    BY <1>4, <2>3, <2>5
<1>5. QED
  BY <1>3, <1>4

LEMMA RisenAtLevels ==
  ASSUME Assumptions, NEW Height, PlansApart(Height), PathType, OwnStores,
         query.static \in SUBSET Vars, \A v \in query.static : Height[v] = 1,
         NEW v \in query.static, NEW P, NEW l \in Levels
  PROVE  Risen(v, P, l, Height)
<1> DEFINE G == {k \in 0..Top : k = 0 \/ (~Rises(v)[k].on => Height[Rises(v)[k].var] < 2 * k - 1)}
<1>1. Top \in Nat /\ Levels = 1..Top
  BY DEF Assumptions, PathAssumption, Levels
<1>2. /\ \A k \in Levels : Rises(v)[k] \in Climber
      /\ Rises(v)[1] = [var |-> v, on |-> TRUE]
      /\ \A k \in Levels \ {1} : Rises(v)[k] = StateRise(k - 1, TypeRise(k - 1, Rises(v)[k - 1]))
  BY RisesUnfold
<1>3. ASSUME NEW k \in Levels, Rises(v)[k].on
      PROVE  Rises(v)[k].var \in RelevantVars(P)[k] /\ Height[Rises(v)[k].var] = 2 * k - 1
  <2>1. Rises(v)[k].var \in RelevantVars(P)[k]
    BY <1>3, RisesMatter
  <2>2. QED
    BY <2>1, RelevantHeight
<1>4. 0 \in G
  BY <1>1
<1>5. ASSUME NEW n \in 0..(Top - 1), n \in G PROVE n + 1 \in G
  <2>1. n + 1 \in Levels /\ (n + 1) - 1 = n /\ n + 1 \in 0..Top
    BY <1>1
  <2>2. SUFFICES ASSUME ~Rises(v)[n + 1].on
                 PROVE  Height[Rises(v)[n + 1].var] < 2 * (n + 1) - 1
    BY <2>1
  <2>3. n # 0
    BY <1>2, <2>2
  <2> DEFINE c == Rises(v)[n]
             m == TypeRise(n, c)
  <2>4. n \in Levels /\ n + 1 \in Levels \ {1}
    BY <1>1, <2>3
  <2>5. c \in Climber /\ m \in Climber /\ Rises(v)[n + 1] = StateRise(n, m)
    BY <1>2, <2>1, <2>4, RiseType
  <2>6. /\ c.on => c.var \in RelevantVars(P)[n] /\ Height[c.var] = 2 * n - 1
        /\ ~c.on => Height[c.var] < 2 * n - 1
    BY <1>3, <1>5, <2>3, <2>4
  <2> HIDE DEF c
  <2>7. Height[m.var] < 2 * n + 1
    BY <2>4, <2>5, <2>6, TypeRisen
  <2> HIDE DEF m
  <2>8. StateRise(n, m).var = m.var
    <3>1. ~StateRise(n, m).on
      BY <2>2, <2>5
    <3>2. ~StateRise(n, m).on => StateRise(n, m).var = m.var
      BY <2>5, RiseSteps
    <3>3. QED
      BY <3>1, <3>2
  <2>9. 2 * (n + 1) - 1 = 2 * n + 1
    BY <1>1
  <2>10. QED
    BY <2>5, <2>7, <2>8, <2>9
<1>6. l \in 0..Top /\ l # 0
  BY <1>1
<1>7. l \in G
  <2> HIDE DEF G
  <2>1. QED
    BY <1>1, <1>4, <1>5, <1>6, IntervalInduction
<1> DEFINE c == Rises(v)[l]
           m == TypeRise(l, c)
           src == IF TypeBinding[l] = NoType THEN 2 * l - 1 ELSE 2 * l
<1>8. /\ c.on => c.var \in RelevantVars(P)[l] /\ Height[c.var] = 2 * l - 1
      /\ ~c.on => Height[c.var] < 2 * l - 1
  BY <1>3, <1>6, <1>7
<1>9. c \in Climber /\ m \in Climber
  BY <1>2, RiseType
<1>10. /\ m.on => m.var \in Typed(l, RelevantVars(P)[l]) /\ Height[m.var] = src
       /\ ~m.on => Height[m.var] < src
       /\ Height[m.var] < 2 * l + 1
  <2> HIDE DEF c
  <2>1. QED
    BY <1>8, <1>9, TypeRisen
<1>11. QED
  BY <1>8, <1>9, <1>10 DEF Risen

\* Variable w is the first of a group with v, whose others are of plans below.
Stands(groups, v, w, Height) ==
  \E g \in groups : /\ Contains(g, v) /\ Head(g) = w
                    /\ \A x \in ToSet(g) : x = w \/ Height[x] < Height[w]

LEMMA HeadJoins ==
  ASSUME NEW X, NEW s \in Seq(X), NEW t \in Seq(X), Len(s) >= 1
  PROVE  Head(s \o t) = s[1]
<1>1. s \o t \in Seq(X) /\ Len(s \o t) >= 1 /\ (s \o t)[1] = s[1]
  OBVIOUS
<1>2. QED
  BY <1>1

\* The bindings B lead up from height h, and each variable to one.
LeadUp(B, Height, h) ==
  /\ \A b \in B : Height[b[1]] = h /\ Height[b[2]] > h
  /\ \A b, c \in B : b[1] = c[1] => b[2] = c[2]

\* Variable w, if it is of height h, is among those to bind, and B leads it to u.
Goes(w, u, cur, B, Height, h) ==
  /\ w \in Vars /\ Height[w] <= h /\ (Height[w] = h => w \in cur)
  /\ u = IF Bound({w}, B) = {} THEN w ELSE CHOOSE x \in Bound({w}, B) : TRUE

\* addVarTo (UniqueVarStore.cpp) puts the variable to which w is bound, if to any, in
\* front of the groups in which w is first.
LEMMA AddVarStands ==
  ASSUME Assumptions, NEW groups \in Groups, NEW cur, NEW B \in SUBSET (Vars \X Vars),
         NEW used, used = Used(B, cur),
         NEW Height \in [Vars -> Nat], NEW h \in Nat, LeadUp(B, Height, h),
         NEW v, NEW w, NEW u, Stands(groups, v, w, Height), Goes(w, u, cur, B, Height, h)
  PROVE  Stands(AddVarTo(groups, used), v, u, Height)
<1> USE DEF LeadUp, Goes, Used
<1>1. PICK g \in groups : /\ Contains(g, v) /\ Head(g) = w
                          /\ \A x \in ToSet(g) : x = w \/ Height[x] < Height[w]
  BY DEF Stands
<1>2. g \in Seq(Vars) /\ g # << >> /\ ToSet(g) \subseteq Vars /\ w \in ToSet(g) /\ v \in ToSet(g)
  <2>1. g \in Seq(Vars) /\ g # << >>
    BY DEF Groups
  <2>2. Len(g) >= 1 /\ g[1] = w
    BY <1>1, <2>1
  <2>3. QED
    BY <1>1, <2>1, <2>2 DEF ToSet, Contains
<1> DEFINE T == {b[2] : b \in {p \in used : Contains(g, p[1])}}
           t == SetToSeq(T)
           S == Bound({w}, B)
<1>3. t \o g \in AddVarTo(groups, used)
  BY DEF AddVarTo
<1>4. T = S
  <2>1. ASSUME NEW b \in used, Contains(g, b[1]) PROVE b[1] = w
    <3>1. b[1] \in ToSet(g) /\ b[1] \in Vars /\ Height[b[1]] = h
      BY <2>1 DEF Contains, ToSet
    <3>2. Height[b[1]] \in Nat /\ Height[w] \in Nat
      BY <3>1
    <3>3. ~ (Height[b[1]] < Height[w])
      BY <3>1, <3>2
    <3>4. QED
      BY <1>1, <3>1, <3>3
  <2>2. ASSUME NEW b \in B, b[1] = w PROVE b \in used /\ Contains(g, b[1])
    <3>1. b \in used
      BY <2>2
    <3>2. QED
      BY <1>2, <2>2, <3>1 DEF Contains, ToSet
  <2>3. T \subseteq S
    BY <2>1 DEF Bound
  <2>4. S \subseteq T
    <3> SUFFICES ASSUME NEW x \in S PROVE x \in T
      OBVIOUS
    <3>1. PICK b \in B : b[1] = w /\ x = b[2]
      BY DEF Bound
    <3>2. QED
      BY <2>2, <3>1
  <2>5. QED
    BY <2>3, <2>4
<1>5. \A x \in S : x \in Vars /\ Height[x] > h
  BY DEF Bound
<1>6. \A x, y \in S : x = y
  BY DEF Bound
<1>7. S # {} => Height[w] = h
  BY DEF Bound
<1> HIDE DEF T, S
<1>8. t \in Seq(Vars) /\ t \in Seq(S) /\ ToSet(t) = S
  <2>1. IsFiniteSet(S)
    BY <1>5, FS_Subset DEF Assumptions, BindingAssumption
  <2>2. t \in Seq(S) /\ ToSet(t) = S
    BY <1>4, <2>1, SeqOfSet
  <2>3. S \subseteq Vars
    BY <1>5
  <2>4. QED
    BY <2>2, <2>3
<1> HIDE DEF t
<1>9. t \o g \in Seq(Vars) \ {<< >>} /\ ToSet(t \o g) = S \cup ToSet(g)
  BY <1>2, <1>8, FrontJoins
<1>10. Contains(t \o g, v)
  <2>1. v \in ToSet(t \o g)
    BY <1>2, <1>9
  <2>2. QED
    BY <1>9, <2>1 DEF Contains, ToSet
<1>11. CASE S = {}
  <2>1. t = << >>
    BY <1>8, <1>11
  <2>2. t \o g = g
    BY <1>2, <2>1
  <2>3. u = w
    BY <1>11 DEF S
  <2>4. QED
    BY <1>1, <1>3, <2>2, <2>3 DEF Stands
<1>12. CASE S # {}
  <2>1. u \in S /\ S = {u}
    BY <1>6, <1>12 DEF S
  <2>2. t # << >>
    <3>1. ToSet(<< >>) = {}
      BY DEF ToSet
    <3>2. QED
      BY <1>8, <1>12, <3>1
  <2>3. Len(t) >= 1 /\ t[1] = u
    <3>1. Len(t) \in Nat /\ Len(t) >= 1 /\ t[1] \in S
      BY <1>8, <2>2
    <3>2. QED
      BY <2>1, <3>1
  <2>4. Head(t \o g) = u
    <3>1. Head(t \o g) = t[1]
      BY <1>2, <1>8, <2>3, HeadJoins
    <3>2. QED
      BY <2>3, <3>1
  <2>5. Height[u] \in Nat /\ Height[w] \in Nat /\ Height[u] > Height[w]
    BY <1>5, <1>7, <1>12, <2>1
  <2>6. ASSUME NEW x \in ToSet(t \o g) PROVE x = u \/ Height[x] < Height[u]
    <3>1. x = u \/ x \in ToSet(g)
      BY <1>9, <2>1
    <3>2. CASE x \in ToSet(g)
      <4>1. Height[x] \in Nat /\ (x = w \/ Height[x] < Height[w])
        BY <1>1, <1>2, <3>2
      <4>2. CASE x = w
        BY <2>5, <4>2
      <4>3. CASE Height[x] < Height[w]
        <5>1. \A i, j, k \in Nat : i < j /\ k > j => i < k
          OBVIOUS
        <5>2. QED
          BY <2>5, <4>1, <4>3, <5>1
      <4>4. QED
        BY <4>1, <4>2, <4>3
    <3>3. QED
      BY <3>1, <3>2
  <2>7. QED
    BY <1>3, <1>10, <2>4, <2>6 DEF Stands
<1>13. QED
  BY <1>11, <1>12

\* Groups that are added leave the others alone.
LEMMA MoreStands ==
  ASSUME NEW groups, NEW more, groups \subseteq more, NEW v, NEW w, NEW Height,
         Stands(groups, v, w, Height)
  PROVE  Stands(more, v, w, Height)
BY DEF Stands

\* When groups are apart, the variable that stands is the one that is found.
LEMMA StandsFound ==
  ASSUME NEW groups \in Groups, Apart(groups), NEW v, NEW w, NEW Height,
         Stands(groups, v, w, Height)
  PROVE  Representative(groups, v) = w
<1>1. PICK g \in groups : Contains(g, v) /\ Head(g) = w
  BY DEF Stands
<1> DEFINE f == CHOOSE x \in groups : Contains(x, v)
<1>2. f \in groups /\ Contains(f, v)
  BY <1>1
<1>3. Representative(groups, v) = Head(f)
  BY DEF Representative
<1> HIDE DEF f
<1>4. v \in ToSet(f) /\ v \in ToSet(g)
  BY <1>1, <1>2 DEF Contains, ToSet
<1>5. f = g
  BY <1>1, <1>2, <1>4 DEF Apart
<1>6. QED
  BY <1>1, <1>3, <1>5

-------------------------------------------------------------------------------
(* The answer of an undisturbed query *)

\* The variable that stands for v at the point the climb has reached.
Standing(q, v) ==
  LET l == q.level
      c == Rises(v)[l]
  IN CASE q.pc \in {"lock", "accept", "take", "type"} -> c.var
       [] q.pc = "state" -> TypeRise(l, c).var
       [] q.pc = "up" -> IF l \in parent THEN Rises(v)[l + 1].var ELSE TypeRise(l, c).var
       [] OTHER -> TopmostOf(v)

Answers(q, Height) ==
  \A v \in q.static : Stands(q.unified, v, Standing(q, v), Height)

\* What a step of an undisturbed query knows of a variable that was asked for.
LEMMA AskedRisen ==
  ASSUME NEW Height, Undisturbed(Height), NEW v \in query.static, NEW P,
         P = PartConds(query.parts)
  PROVE  v \in Vars /\ \A k \in Levels : Risen(v, P, k, Height)
<1>1. /\ Assumptions /\ PlansApart(Height) /\ OwnStores /\ PathType
      /\ query.static \in SUBSET Vars /\ \A x \in query.static : Height[x] = 1
  BY UndisturbedFacts
<1>2. QED
  BY <1>1, RisenAtLevels

\* The groups stay or become more, and the same variables stand.
LEMMA AnswersAgain ==
  ASSUME NEW Height, Answers(query, Height), NEW w, w.static = query.static,
         query.unified \subseteq w.unified,
         \A v \in query.static : Standing(w, v) = Standing(query, v)
  PROVE  Answers(w, Height)
<1> SUFFICES ASSUME NEW v \in query.static PROVE Stands(w.unified, v, Standing(w, v), Height)
  BY DEF Answers
<1>1. Stands(query.unified, v, Standing(query, v), Height)
  BY DEF Answers
<1>2. QED
  BY <1>1, MoreStands

\* The steps that bind no variable.
LEMMA PassAnswers ==
  ASSUME NEW Height, Undisturbed(Height), Answers(query, Height),
         LockPlan \/ AcceptQuery \/ WriteBack \/ MoveUp \/ Solve
  PROVE  Answers(query', Height)
<1> DEFINE P == PartConds(query.parts)
           l == query.level
<1>1. /\ Assumptions /\ PathType /\ query \in QueryType
      /\ l \in Levels /\ l \in Nat /\ l >= 1
      /\ \A k \in 1..(l - 1) : k \in parent
      /\ Buffers(query, P, Height)
  BY UndisturbedFacts
<1>2. \A v \in query.static : v \in Vars /\ Risen(v, P, l, Height)
  BY <1>1, AskedRisen
<1> HIDE DEF P
<1>3. ASSUME NEW w, query' = w, w.static = query.static, w.unified = query.unified,
             \A v \in query.static : Standing(w, v) = Standing(query, v)
      PROVE  Answers(query', Height)
  BY <1>3, AnswersAgain
<1>4. CASE LockPlan
  <2> DEFINE c == IF query.cur = {} /\ query.dcur = {} THEN "collected" ELSE "accept"
             w == [query EXCEPT !.pc = c]
  <2>1. query.pc = "lock" /\ query' = w
    BY <1>4 DEF LockPlan, Step
  <2>2. c = "accept" \/ (c = "collected" /\ query.cur = {})
    OBVIOUS
  <2> HIDE DEF c
  <2>3. w.static = query.static /\ w.unified = query.unified /\ w.pc = c /\ w.level = l
    BY <1>1 DEF QueryType
  <2> HIDE DEF w
  <2>4. ASSUME NEW v \in query.static PROVE Standing(w, v) = Standing(query, v)
    <3>1. CASE c = "accept"
      BY <2>1, <2>3, <3>1 DEF Standing
    <3>2. CASE c = "collected" /\ query.cur = {}
      <4>1. RelevantVars(P)[l] = {}
        BY <1>1, <2>1, <3>2 DEF Buffers
      <4>2. ~Rises(v)[l].on
        BY <1>2, <4>1 DEF Risen
      <4>3. TopmostOf(v) = Rises(v)[l].var
        BY <1>1, <1>2, <4>2, RisesEnd
      <4>4. QED
        BY <2>1, <2>3, <3>2, <4>3 DEF Standing
    <3>3. QED
      BY <2>2, <3>1, <3>2
  <2>5. QED
    BY <1>3, <2>1, <2>3, <2>4
<1>5. CASE AcceptQuery
  <2> DEFINE c == IF conditions[l] = {} THEN "type" ELSE "take"
             w == [query EXCEPT !.pc = c, !.before = query.parts]
  <2>1. query.pc = "accept" /\ query' = w /\ c \in {"type", "take"}
    BY <1>5 DEF AcceptQuery, Step
  <2> HIDE DEF c
  <2>2. w.static = query.static /\ w.unified = query.unified /\ w.pc = c /\ w.level = l
    BY <1>1 DEF QueryType
  <2> HIDE DEF w
  <2>3. \A v \in query.static : Standing(w, v) = Standing(query, v)
    BY <2>1, <2>2 DEF Standing
  <2>4. QED
    BY <1>3, <2>1, <2>2, <2>3
<1>6. CASE WriteBack
  <2> DEFINE c1 == query.cur \cup query.next
             d1 == query.dcur \cup query.dnext
             w == [query EXCEPT !.pc = "type", !.cur = c1, !.next = {}, !.dcur = d1, !.dnext = {}]
  <2>1. query.pc = "take" /\ query' = w
    BY <1>6 DEF WriteBack, Step
  <2> HIDE DEF c1, d1
  <2>2. w.static = query.static /\ w.unified = query.unified /\ w.pc = "type" /\ w.level = l
    BY <1>1 DEF QueryType
  <2> HIDE DEF w
  <2>3. \A v \in query.static : Standing(w, v) = Standing(query, v)
    BY <2>1, <2>2 DEF Standing
  <2>4. QED
    BY <1>3, <2>1, <2>2, <2>3
<1>7. CASE MoveUp /\ l \in parent
  <2> DEFINE up == l + 1
             w == [query EXCEPT !.pc = "lock", !.level = up]
  <2>1. query.pc = "up" /\ query' = w
    BY <1>7 DEF MoveUp, Step
  <2> HIDE DEF up
  <2>2. w.static = query.static /\ w.unified = query.unified /\ w.pc = "lock" /\ w.level = up
    BY <1>1 DEF QueryType
  <2> HIDE DEF w
  <2>3. \A v \in query.static : Standing(w, v) = Standing(query, v)
    BY <1>7, <2>1, <2>2 DEF Standing, up
  <2>4. QED
    BY <1>3, <2>1, <2>2, <2>3
<1>8. CASE MoveUp /\ l \notin parent
  <2> DEFINE w == [query EXCEPT !.pc = "collected"]
  <2>1. query.pc = "up" /\ query' = w
    BY <1>8 DEF MoveUp, Step
  <2>2. w.static = query.static /\ w.unified = query.unified /\ w.pc = "collected" /\ w.level = l
    BY <1>1 DEF QueryType
  <2> HIDE DEF w
  <2>3. ASSUME NEW v \in query.static PROVE TopmostOf(v) = TypeRise(l, Rises(v)[l]).var
    <3> DEFINE m == TypeRise(l, Rises(v)[l])
    <3>1. CASE l = Top
      BY <3>1 DEF TopmostOf
    <3>2. CASE l # Top
      <4>1. l + 1 \in Levels \ {1} /\ (l + 1) - 1 = l
        BY <1>1, <3>2 DEF Levels, Assumptions, PathAssumption
      <4>2. l + 1 \notin Path
        BY <1>1, <1>8, <4>1 DEF Path
      <4>3. Rises(v)[l + 1] = StateRise(l, m)
        BY <1>1, <1>2, <4>1, RisesUnfold
      <4>4. m \in Climber
        BY <1>2 DEF Risen
      <4> HIDE DEF m
      <4>5. StateRise(l, m).on => l + 1 \in Path
        BY <4>4, RiseSteps
      <4>6. ~StateRise(l, m).on => StateRise(l, m).var = m.var
        BY <4>4, RiseSteps
      <4>7. ~Rises(v)[l + 1].on /\ Rises(v)[l + 1].var = m.var
        BY <4>2, <4>3, <4>5, <4>6
      <4>8. TopmostOf(v) = Rises(v)[l + 1].var
        BY <1>1, <1>2, <4>1, <4>7, RisesEnd
      <4>9. QED
        BY <4>7, <4>8 DEF m
    <3>3. QED
      BY <3>1, <3>2
  <2>4. \A v \in query.static : Standing(w, v) = Standing(query, v)
    BY <1>8, <2>1, <2>2, <2>3 DEF Standing
  <2>5. QED
    BY <1>3, <2>1, <2>2, <2>4
<1>9. CASE Solve
  <2> DEFINE c == IF query.parts = {} THEN "empty" ELSE "solved"
             w == [query EXCEPT !.pc = c]
  <2>1. query.pc = "collected" /\ query' = w /\ c \in {"empty", "solved"}
    BY <1>9 DEF Solve, Step
  <2> HIDE DEF c
  <2>2. w.static = query.static /\ w.unified = query.unified /\ w.pc = c
    BY <1>1 DEF QueryType
  <2> HIDE DEF w
  <2>3. \A v \in query.static : Standing(w, v) = Standing(query, v)
    BY <2>1, <2>2 DEF Standing
  <2>4. QED
    BY <1>3, <2>1, <2>2, <2>3
<1>10. QED
  BY <1>4, <1>5, <1>6, <1>7, <1>8, <1>9

\* What a variable brings in is added to the store behind what is there.
LEMMA TakesAnswer ==
  ASSUME NEW Height, Undisturbed(Height), Answers(query, Height),
         \/ \E x \in Vars : TakeStatic(x)
         \/ \E d \in DomainVars : TakeDomain(d)
  PROVE  Answers(query', Height)
<1>1. query \in QueryType
  BY UndisturbedFacts
<1>2. PICK q, C :
        /\ q \in QueryType /\ query.pc = "take" /\ query' = AddProblemParts(q, C)
        /\ q.static = query.static /\ q.unified = query.unified /\ q.pc = "take"
        /\ q.level = query.level
  <2>1. ASSUME NEW x \in Vars, TakeStatic(x)
        PROVE  \E q, C :
                 /\ q \in QueryType /\ query.pc = "take" /\ query' = AddProblemParts(q, C)
                 /\ q.static = query.static /\ q.unified = query.unified /\ q.pc = "take"
                 /\ q.level = query.level
    <3> DEFINE c1 == query.cur \ {x}
               n1 == query.next \cup {x}
               q == [query EXCEPT !.cur = c1, !.next = n1]
               C == ActiveUnder(query.level, x) \ PartConds(NewParts)
    <3>1. query.pc = "take" /\ query' = AddProblemParts(q, C)
      BY <2>1 DEF TakeStatic, Step
    <3>2. c1 \in SUBSET Vars /\ n1 \in SUBSET Vars
      BY <1>1 DEF QueryType
    <3> HIDE DEF c1, n1, C
    <3>3. /\ q \in QueryType /\ q.static = query.static /\ q.unified = query.unified
          /\ q.pc = "take" /\ q.level = query.level
      BY <1>1, <3>1, <3>2 DEF QueryType
    <3> HIDE DEF q
    <3>4. QED
      BY <3>1, <3>3
  <2>2. ASSUME NEW d \in DomainVars, TakeDomain(d)
        PROVE  \E q, C :
                 /\ q \in QueryType /\ query.pc = "take" /\ query' = AddProblemParts(q, C)
                 /\ q.static = query.static /\ q.unified = query.unified /\ q.pc = "take"
                 /\ q.level = query.level
    <3> DEFINE c1 == query.dcur \ {d}
               n1 == query.dnext \cup {d}
               q == [query EXCEPT !.dcur = c1, !.dnext = n1]
               C == {c \in ActiveUnder(query.level, d[2]) \ PartConds(NewParts) : Covers(c, d, query.level)}
    <3>1. query.pc = "take" /\ query' = AddProblemParts(q, C)
      BY <2>2 DEF TakeDomain, Step, Covers
    <3>2. c1 \in SUBSET DomainVars /\ n1 \in SUBSET DomainVars
      BY <1>1, <3>1 DEF QueryType
    <3> HIDE DEF c1, n1, C
    <3>3. /\ q \in QueryType /\ q.static = query.static /\ q.unified = query.unified
          /\ q.pc = "take" /\ q.level = query.level
      BY <1>1, <3>1, <3>2 DEF QueryType
    <3> HIDE DEF q
    <3>4. QED
      BY <3>1, <3>3
  <2>3. QED
    BY <2>1, <2>2
<1> DEFINE w == AddProblemParts(q, C)
<1>3. /\ w.static = query.static /\ query.unified \subseteq w.unified /\ w.pc = "take"
      /\ w.level = query.level
  BY <1>2, PartsFields
<1> HIDE DEF w
<1>4. \A v \in query.static : Standing(w, v) = Standing(query, v)
  BY <1>2, <1>3 DEF Standing
<1>5. Answers(w, Height)
  BY <1>3, <1>4, AnswersAgain
<1>6. QED
  BY <1>2, <1>5 DEF w

\* A step that binds variables of height h: each that stands goes where it is bound to.
LEMMA BindAnswers ==
  ASSUME NEW Height, Undisturbed(Height), Answers(query, Height),
         NEW q \in QueryType, q.static = query.static, q.unified = query.unified,
         q.cur = query.cur,
         NEW B \in SUBSET (Vars \X Vars), NEW h \in Nat, LeadUp(B, Height, h),
         NEW kept, NEW w, w = Bind(q, kept, B),
         \A v \in query.static :
           Goes(Standing(query, v), Standing(w, v), query.cur, B, Height, h)
  PROVE  Answers(w, Height)
<1> DEFINE used == Used(B, query.cur)
<1>1. w.static = query.static /\ w.unified = AddVarTo(query.unified, used)
  <2>1. w.static = q.static /\ w.unified = AddVarTo(q.unified, Used(B, q.cur))
    BY BindFields
  <2>2. QED
    BY <2>1
<1>2. Assumptions /\ query.unified \in Groups /\ Height \in [Vars -> Nat]
  BY DEF Undisturbed, ClimbInv, QueryType, PlansApart
<1> SUFFICES ASSUME NEW v \in query.static
             PROVE  Stands(AddVarTo(query.unified, used), v, Standing(w, v), Height)
  BY <1>1 DEF Answers
<1>3. Goes(Standing(query, v), Standing(w, v), query.cur, B, Height, h)
  OBVIOUS
<1>4. Stands(query.unified, v, Standing(query, v), Height)
  BY DEF Answers
<1>5. QED
  BY <1>2, <1>3, <1>4, AddVarStands

\* Where a variable goes, in the terms of Goes.
LEMMA FurtherGoes ==
  ASSUME NEW c \in Climber, NEW S
  PROVE  Further(c, S).var = IF S = {} THEN c.var ELSE CHOOSE x \in S : TRUE
BY DEF Further, Climber

LEMMA BindTypeAnswers ==
  ASSUME NEW Height, Undisturbed(Height), BoundOnce, Answers(query, Height), BindType
  PROVE  Answers(query', Height)
<1> DEFINE P == PartConds(query.parts)
           l == query.level
           h == 2 * l - 1
           rel == RelevantVars(P)[l]
           B == TypeBinding[l]
           q == [query EXCEPT !.pc = "state"]
<1>1. /\ Assumptions /\ PlansApart(Height) /\ query \in QueryType
      /\ l \in Levels /\ l \in Nat /\ l >= 1 /\ \A x \in Vars : Height[x] \in Int
      /\ Buffers(query, P, Height)
  BY UndisturbedFacts
<1>2. \A v \in query.static : v \in Vars /\ Risen(v, P, l, Height)
  BY <1>1, AskedRisen
<1> HIDE DEF P
<1>3. query.pc = "type" /\ query' = IF B = NoType THEN q ELSE Bind(q, query.next, B)
  BY DEF BindType, Step
<1>4. {v \in query.cur : Height[v] = h} = rel
  BY <1>1, <1>3 DEF Buffers
<1>5. /\ q \in QueryType /\ q.pc = "state" /\ q.static = query.static /\ q.level = l
      /\ q.cur = query.cur /\ q.unified = query.unified
  BY <1>1 DEF QueryType, QueryPcs
<1> HIDE DEF q
<1>6. CASE B = NoType
  <2>1. ASSUME NEW v \in query.static PROVE Standing(q, v) = Standing(query, v)
    <3> DEFINE c == Rises(v)[l]
    <3>1. c \in Climber
      BY <1>2 DEF Risen
    <3>2. Standing(q, v) = TypeRise(l, c).var /\ Standing(query, v) = c.var
      BY <1>3, <1>5 DEF Standing
    <3> HIDE DEF c
    <3>3. Typed(l, {c.var}) = {c.var}
      BY <1>6 DEF Typed
    <3>4. TypeRise(l, c).var = c.var
      BY <3>1, <3>3, RiseSteps
    <3>5. QED
      BY <3>2, <3>4
  <2>2. QED
    BY <1>3, <1>5, <1>6, <2>1, AnswersAgain
<1>7. CASE B # NoType
  <2> DEFINE w == Bind(q, query.next, B)
  <2>1. w.pc = "state" /\ w.level = l
    BY <1>5, BindFields
  <2> HIDE DEF w
  <2>2. B \in SUBSET (Vars \X Vars) /\ h \in Nat
    BY <1>1, <1>7 DEF Assumptions, BindingAssumption
  <2>3. \A b \in B : Height[b[1]] = h /\ Height[b[2]] > h
    <3>1. \A b \in B : Height[b[1]] = h /\ Height[b[2]] = 2 * l
      BY <1>1, <1>7 DEF PlansApart
    <3>2. 2 * l > h
      BY <1>1
    <3>3. QED
      BY <3>1, <3>2
  <2>4. LeadUp(B, Height, h)
    <3>1. \A b, c \in B : b[1] = c[1] => b[2] = c[2]
      BY <1>1, <1>7 DEF BoundOnce
    <3>2. QED
      BY <2>3, <3>1 DEF LeadUp
  <2>5. ASSUME NEW v \in query.static
        PROVE  Goes(Standing(query, v), Standing(w, v), query.cur, B, Height, h)
    <3> DEFINE c == Rises(v)[l]
    <3>1. c \in Climber /\ (c.on => c.var \in rel /\ Height[c.var] = h)
          /\ (~c.on => Height[c.var] < h)
      BY <1>2 DEF Risen
    <3>2. Standing(w, v) = TypeRise(l, c).var /\ Standing(query, v) = c.var
      BY <1>3, <2>1 DEF Standing
    <3> HIDE DEF c, rel, h, B
    <3>3. c.var \in Vars /\ Height[c.var] \in Int /\ h \in Int
      BY <1>1, <2>2, <3>1 DEF Climber
    <3>4. Height[c.var] <= h /\ (Height[c.var] = h => c.var \in query.cur)
      BY <1>4, <3>1, <3>3
    <3>5. TypeRise(l, c).var = IF Bound({c.var}, B) = {} THEN c.var
                               ELSE CHOOSE x \in Bound({c.var}, B) : TRUE
      <4>1. CASE c.on
        <5> DEFINE S == Bound({c.var}, B)
        <5>1. TypeRise(l, c) = Further(c, S)
          BY <1>7, <4>1 DEF TypeRise, Typed, B
        <5> HIDE DEF S
        <5>2. TypeRise(l, c).var = IF S = {} THEN c.var ELSE CHOOSE x \in S : TRUE
          BY <3>1, <5>1, FurtherGoes
        <5>3. QED
          BY <5>2 DEF S
      <4>2. CASE ~c.on
        <5>1. Bound({c.var}, B) = {}
          BY <2>3, <3>1, <3>3, <4>2 DEF Bound
        <5>2. TypeRise(l, c) = c
          BY <4>2 DEF TypeRise
        <5>3. QED
          BY <5>1, <5>2
      <4>3. QED
        BY <4>1, <4>2
    <3>6. QED
      BY <3>2, <3>3, <3>4, <3>5 DEF Goes
  <2> HIDE DEF B, h
  <2>6. w = Bind(q, query.next, B)
    BY DEF w
  <2>7. Answers(w, Height)
    BY <1>5, <2>2, <2>4, <2>5, <2>6, BindAnswers
  <2>8. QED
    BY <1>3, <1>7, <2>7 DEF w
<1>8. QED
  BY <1>6, <1>7

LEMMA BindStateAnswers ==
  ASSUME NEW Height, Undisturbed(Height), BoundOnce, Answers(query, Height), BindState
  PROVE  Answers(query', Height)
<1> DEFINE P == PartConds(query.parts)
           l == query.level
           rel == RelevantVars(P)[l]
           B == BindingsUp[l + 1]
           src == IF TypeBinding[l] = NoType THEN 2 * l - 1 ELSE 2 * l
           q == [query EXCEPT !.pc = "up"]
<1>1. /\ Assumptions /\ PlansApart(Height) /\ query \in QueryType /\ PathType
      /\ l \in Levels /\ l \in Nat /\ l >= 1 /\ \A x \in Vars : Height[x] \in Int
      /\ \A k \in 1..(l - 1) : k \in parent
      /\ Buffers(query, P, Height)
  BY UndisturbedFacts
<1>2. \A v \in query.static : v \in Vars /\ Risen(v, P, l, Height)
  BY <1>1, AskedRisen
<1> HIDE DEF P
<1>3. query.pc = "state"
  BY DEF BindState
<1>4. {v \in query.cur : Height[v] = src} = Typed(l, rel)
  <2>1. 2 * l - 1 + 1 = 2 * l
    BY <1>1
  <2>2. QED
    BY <1>1, <1>3, <2>1 DEF Buffers
<1>5. /\ q \in QueryType /\ q.pc = "up" /\ q.static = query.static /\ q.level = l
      /\ q.cur = query.cur /\ q.unified = query.unified
  BY <1>1 DEF QueryType, QueryPcs
<1>6. CASE l \notin parent
  <2>1. query' = q
    BY <1>6 DEF BindState, Step
  <2> HIDE DEF q
  <2>2. \A v \in query.static : Standing(q, v) = Standing(query, v)
    BY <1>3, <1>5, <1>6 DEF Standing
  <2>3. QED
    BY <1>5, <2>1, <2>2, AnswersAgain
<1>7. CASE l \in parent
  <2>1. l + 1 \in Levels \ {1} /\ (l + 1) - 1 = l
    BY <1>1, <1>7 DEF PathType, Levels, Assumptions, PathAssumption
  <2>2. l + 1 \in Path
    <3>1. 1..l = 1..(l - 1) \cup {l}
      BY <1>1
    <3>2. QED
      BY <1>1, <1>7, <2>1, <3>1 DEF Path
  <2>3. B = StateBinding[l + 1][place[l + 1][Me]] /\ place[l + 1][Me] \in States
    BY <1>1, <2>1 DEF BindingsUp, PathType
  <2>4. query' = Bind(q, {}, B)
    BY <1>7, <2>3 DEF BindState, Step
  <2> DEFINE none == {}
             w == Bind(q, none, B)
  <2> HIDE DEF q
  <2>5. w.pc = "up" /\ w.level = l
    BY <1>5, BindFields
  <2> HIDE DEF w
  <2>6. B \in SUBSET (Vars \X Vars) /\ src \in Nat
    BY <1>1, <2>1, <2>3 DEF Assumptions, BindingAssumption
  <2>7. \A b \in B : Height[b[1]] = src /\ Height[b[2]] > src
    <3>1. ASSUME NEW b \in B
          PROVE  /\ Height[b[1]] = IF TypeBinding[l] = NoType THEN 2 * (l + 1) - 3 ELSE 2 * (l + 1) - 2
                 /\ Height[b[2]] = 2 * (l + 1) - 1
      BY <1>1, <2>1, <2>3 DEF PlansApart
    <3>2. 2 * (l + 1) - 3 = 2 * l - 1 /\ 2 * (l + 1) - 2 = 2 * l /\ 2 * (l + 1) - 1 > src
      BY <1>1
    <3>3. QED
      BY <3>1, <3>2
  <2>8. LeadUp(B, Height, src)
    <3>1. \A b, c \in B : b[1] = c[1] => b[2] = c[2]
      BY <2>1, <2>3 DEF BoundOnce
    <3>2. QED
      BY <2>7, <3>1 DEF LeadUp
  <2>9. ASSUME NEW v \in query.static
        PROVE  Goes(Standing(query, v), Standing(w, v), query.cur, B, Height, src)
    <3> DEFINE m == TypeRise(l, Rises(v)[l])
    <3>1. m \in Climber /\ (m.on => m.var \in Typed(l, rel) /\ Height[m.var] = src)
          /\ (~m.on => Height[m.var] < src)
      BY <1>2 DEF Risen
    <3>2. Rises(v)[l + 1] = StateRise(l, m)
      BY <1>1, <1>2, <2>1, RisesUnfold
    <3>3. Standing(w, v) = StateRise(l, m).var /\ Standing(query, v) = m.var
      BY <1>3, <1>7, <2>5, <3>2 DEF Standing
    <3> HIDE DEF m, rel, src
    <3>4. m.var \in Vars /\ Height[m.var] \in Int /\ src \in Int
      BY <1>1, <2>6, <3>1 DEF Climber
    <3>5. Height[m.var] <= src /\ (Height[m.var] = src => m.var \in query.cur)
      BY <1>4, <3>1, <3>4
    <3>6. StateRise(l, m).var = IF Bound({m.var}, B) = {} THEN m.var
                                ELSE CHOOSE x \in Bound({m.var}, B) : TRUE
      <4>1. CASE m.on
        <5> DEFINE S == Bound({m.var}, B)
        <5>1. StateRise(l, m) = Further(m, S)
          BY <2>2, <4>1 DEF StateRise
        <5> HIDE DEF B, S
        <5>2. StateRise(l, m).var = IF S = {} THEN m.var ELSE CHOOSE x \in S : TRUE
          BY <3>1, <5>1, FurtherGoes
        <5>3. QED
          BY <5>2 DEF S
      <4>2. CASE ~m.on
        <5>1. Bound({m.var}, B) = {}
          <6> HIDE DEF B
          <6>1. QED
            BY <2>7, <3>1, <3>4, <4>2 DEF Bound
        <5>2. StateRise(l, m) = m
          BY <4>2 DEF StateRise
        <5>3. QED
          BY <5>1, <5>2
      <4>3. QED
        BY <4>1, <4>2
    <3> HIDE DEF B
    <3>7. QED
      BY <3>3, <3>4, <3>5, <3>6 DEF Goes
  <2> HIDE DEF B, src, none
  <2>10. w = Bind(q, none, B)
    BY DEF w
  <2>11. Answers(w, Height)
    BY <1>5, <2>6, <2>8, <2>9, <2>10, BindAnswers
  <2>12. QED
    BY <2>4, <2>11 DEF w, none
<1>8. QED
  BY <1>6, <1>7

\* Which variable stands for another depends on the tree and on where the query is.
LEMMA SameStanding ==
  ASSUME UNCHANGED tree, NEW v
  PROVE  Standing(query, v)' = Standing(query', v)
<1>1. conditions' = conditions /\ place' = place /\ parent' = parent
  BY DEF tree
<1>2. BindingsUp' = BindingsUp /\ Path' = Path
  BY <1>1 DEF BindingsUp, Path
<1>3. \A l, c : StateRise(l, c)' = StateRise(l, c)
  BY <1>2 DEF StateRise
<1>4. Rises(v)' = Rises(v)
  BY <1>3 DEF Rises
<1>5. TopmostOf(v)' = TopmostOf(v)
  BY <1>4 DEF TopmostOf
<1>6. QED
  BY <1>1, <1>4, <1>5 DEF Standing

LEMMA AnswersNext ==
  ASSUME NEW Height, UNCHANGED tree, Answers(query', Height)
  PROVE  Answers(query, Height)'
BY SameStanding DEF Answers

\* A new query has a group of its own for each variable that is asked for.
LEMMA AskAnswers ==
  ASSUME Assumptions, PathType, NEW Height, NEW ask \in Questions, Ask(ask)
  PROVE  Answers(query, Height)'
<1> DEFINE st == ask.static
           dm == ask.domain
           un == {<<x>> : x \in st}
           w == [Blank EXCEPT !.static = st, !.domain = dm, !.pc = "lock", !.cur = st,
                              !.dcur = dm, !.unified = un]
<1>1. query' = w /\ UNCHANGED tree
  BY DEF Ask, tree
<1>2. st \in SUBSET Vars
  BY DEF Assumptions, QuestionAssumption
<1> HIDE DEF st, dm, un
<1>3. w.static = st /\ w.pc = "lock" /\ w.level = 1 /\ w.unified = un
  BY DEF Blank
<1> HIDE DEF w
<1>4. ASSUME NEW v \in st PROVE Stands(un, v, Standing(w, v), Height)
  <2>1. v \in Vars
    BY <1>2
  <2>2. Standing(w, v) = v
    <3>1. Rises(v)[1] = [var |-> v, on |-> TRUE]
      BY <2>1, RisesUnfold
    <3>2. QED
      BY <1>3, <3>1 DEF Standing
  <2>3. <<v>> \in un /\ Contains(<<v>>, v) /\ Head(<<v>>) = v /\ ToSet(<<v>>) = {v}
    BY DEF un, Contains, ToSet
  <2>4. QED
    BY <2>2, <2>3 DEF Stands
<1>5. Answers(w, Height)
  BY <1>3, <1>4 DEF Answers
<1>6. QED
  BY <1>1, <1>5, AnswersNext

AnswerInv(Height) == quiet /\ query.pc # "idle" => Answers(query, Height)

LEMMA AnswerStep ==
  ASSUME Assumptions, NEW Height, PlansApart(Height), BoundOnce
  PROVE  ClimbInv /\ PoseInv(Height) /\ AnswerInv(Height) /\ [Next]_vars => AnswerInv(Height)'
<1> SUFFICES ASSUME ClimbInv, PoseInv(Height), AnswerInv(Height), [Next]_vars
             PROVE  AnswerInv(Height)'
  OBVIOUS
<1>1. CASE QueryStep
  <2> SUFFICES ASSUME quiet' PROVE Answers(query, Height)'
    BY DEF AnswerInv
  <2>1. UNCHANGED tree /\ quiet' = quiet /\ query.pc # "idle"
    BY <1>1, QuestionStays
  <2>2. Undisturbed(Height) /\ Answers(query, Height)
    BY <2>1 DEF PoseInv, Undisturbed, AnswerInv
  <2>3. CASE LockPlan \/ AcceptQuery \/ WriteBack \/ MoveUp \/ Solve
    BY <2>1, <2>2, <2>3, PassAnswers, AnswersNext
  <2>4. CASE BindType \/ BindState
    BY <2>1, <2>2, <2>4, BindTypeAnswers, BindStateAnswers, AnswersNext
  <2>5. CASE (\E x \in Vars : TakeStatic(x)) \/ \E d \in DomainVars : TakeDomain(d)
    BY <2>1, <2>2, <2>5, TakesAnswer, AnswersNext
  <2>6. QED
    BY <1>1, <2>3, <2>4, <2>5 DEF QueryStep
<1>2. CASE \E ask \in Questions : Ask(ask)
  <2>1. PathType
    BY DEF ClimbInv
  <2>2. Answers(query, Height)'
    BY <1>2, <2>1, AskAnswers
  <2>3. QED
    BY <2>2 DEF AnswerInv
<1>3. CASE UNCHANGED vars
  <2>1. UNCHANGED tree /\ query' = query /\ quiet' = quiet
    BY <1>3 DEF vars, tree
  <2>2. quiet /\ query.pc # "idle" => Answers(query', Height)
    BY <2>1 DEF AnswerInv
  <2>3. quiet /\ query.pc # "idle" => Answers(query, Height)'
    BY <2>1, <2>2, AnswersNext
  <2>4. QED
    BY <2>1, <2>3 DEF AnswerInv
<1>4. CASE \/ \E l \in Levels, s \in States : TakeTransition(l, s) \/ AdaptAssignment(l, s)
           \/ \E l \in Levels, a \in Agents, s \in States \cup {Away} : MoveAgent(l, a, s)
           \/ Leave \/ Enter
  <2>1. quiet' = FALSE
    BY <1>4 DEF TakeTransition, AdaptAssignment, MoveAgent, Leave, Enter
  <2>2. QED
    BY <2>1 DEF AnswerInv
<1>5. QED
  BY <1>1, <1>2, <1>3, <1>4 DEF Next

\* The value that an undisturbed query returns for an asked variable is that of the
\* variable of the highest plan it is bound to, found in the front of its group
\* (UniqueVarStore.h): if each variable belongs to one plan of the path, and a
\* variable of a child is bound to one of its parent that no other is bound to.
THEOREM TopmostIsFirst ==
  ASSUME NEW Height, VariablesOwned(Height), PlansApart(Height), BoundOnce
  PROVE  Spec => []TopmostRepresents
<1>1. Assumptions
  BY PathAssumption, ConditionAssumption, BindingAssumption, QuestionAssumption DEF Assumptions
<1>2. Init => PartitionInv(Height) /\ PoseInv(Height) /\ AnswerInv(Height)
  <2> SUFFICES ASSUME Init PROVE PartitionInv(Height) /\ PoseInv(Height) /\ AnswerInv(Height)
    OBVIOUS
  <2>1. query.unified = {} /\ query.pc = "idle" /\ conditions = PlanConds
    BY DEF Init, Blank
  <2>2. StoreApart(query, Height)
    BY <2>1 DEF StoreApart, Apart, Climbing
  <2>3. QED
    BY <2>1, <2>2 DEF PartitionInv, PoseInv, AnswerInv, OwnStores, OwnConds
<1>3. ClimbInv /\ PartitionInv(Height) /\ [Next]_vars => PartitionInv(Height)'
  BY <1>1, PartitionStep
<1>4. ClimbInv /\ PoseInv(Height) /\ [Next]_vars => PoseInv(Height)'
  BY <1>1, PoseStep
<1>5. ClimbInv /\ PoseInv(Height) /\ AnswerInv(Height) /\ [Next]_vars => AnswerInv(Height)'
  BY <1>1, AnswerStep
<1>6. ClimbInv /\ PartitionInv(Height) /\ AnswerInv(Height) => TopmostRepresents
  <2> SUFFICES ASSUME ClimbInv, PartitionInv(Height), AnswerInv(Height),
                      query.pc = "solved", quiet, NEW v \in query.static
               PROVE  Representative(query.unified, v) = TopmostOf(v)
    BY DEF TopmostRepresents
  <2>1. query.unified \in Groups /\ Apart(query.unified)
    BY DEF ClimbInv, QueryType, PartitionInv, StoreApart
  <2>2. Stands(query.unified, v, TopmostOf(v), Height)
    BY DEF AnswerInv, Answers, Standing
  <2>3. QED
    BY <2>1, <2>2, StandsFound
<1>7. QED
  BY <1>2, <1>3, <1>4, <1>5, <1>6, QueryInvariant, PTL DEF Spec
=============================================================================
