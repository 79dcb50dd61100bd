----------------------------- MODULE MCPlanSelector -----------------------------
(* Three robots; a plan type of two plans, the first with a task that begins in  *)
(* a state whose plan needs two agents.                                         *)
EXTENDS PlanSelectorProperties

mcEntryPoints ==
  [p \in Plans |->
     CASE p = 10 -> <<[min |-> 1, max |-> 1, sub |-> <<>>], [min |-> 0, max |-> 2, sub |-> <<<<30>>>>]>>
       [] p = 20 -> <<[min |-> 1, max |-> 3, sub |-> <<>>]>>
       [] OTHER  -> <<[min |-> 2, max |-> 3, sub |-> <<>>]>>]

NoneDone  == [p \in Plans |-> [e \in DOMAIN mcEntryPoints[p] |-> {}]]
NobodyIn  == [p \in Plans |-> [a \in Agents |-> 0]]
mcPrio(f, v) == [p \in Plans |-> IF p = 10 THEN f
                                ELSE [e \in DOMAIN mcEntryPoints[p] |-> [a \in Agents |-> v]]]
mcOld == {NoOld, [plan |-> 10, asg |-> [a \in Agents |-> IF a = 1 THEN 1 ELSE 2]],
                 [plan |-> 20, asg |-> [a \in Agents |-> 1]]}

Prio10 == {<<f, g>> : f \in [Agents -> {0, 1}], g \in [Agents -> {0, 2}]}
            \cup {<<[a \in Agents |-> 1], [a \in Agents |-> IF a = b THEN -1 ELSE 1]>> : b \in Agents}
mcInputs ==
  {Input(mcPrio(f, v), d, t, o, u) :
     f \in Prio10, v \in {0, 1},
     d \in {NoneDone, [NoneDone EXCEPT ![10][1] = {1}], [NoneDone EXCEPT ![10][2] = {3}]},
     t \in {NobodyIn, [NobodyIn EXCEPT ![10][1] = 2], [NobodyIn EXCEPT ![10] = [a \in Agents |-> 1]]},
     o \in mcOld, u \in {-Far, Far}}

mcStatePlans == <<<<10, 20>>>>
=============================================================================
