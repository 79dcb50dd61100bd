------------------------------ MODULE MCPlanTree ------------------------------
(***************************************************************************)
(* A plan repository for TLC: the master plan M runs P, P runs Q and then a *)
(* behaviour, and Q runs the behaviour (Mix) or nothing (Line).             *)
(***************************************************************************)
EXTENDS PlanTreeProperties

CONSTANTS M, P, Q, B, m0, m1, p0, p1, q0

MCEntryStates == (M :> {m0}) @@ (P :> {p0}) @@ (Q :> {q0})

MixStatePlans  == (m0 :> <<P>>) @@ (m1 :> << >>) @@ (p0 :> <<Q>>) @@ (p1 :> <<B>>) @@
                  (q0 :> <<B>>)
MixTransitions == {<<p0, p1>>}

LineStatePlans  == (m0 :> <<P>>) @@ (m1 :> << >>) @@ (p0 :> <<Q>>) @@ (p1 :> << >>) @@
                   (q0 :> << >>)
LineTransitions == {<<q0, q0>>}

MasterTransitions == {<<m0, m1>>}
\* The plan of each state; each of the plans may run each behaviour.
MCPlanOf == (m0 :> M) @@ (m1 :> M) @@ (p0 :> P) @@ (p1 :> P) @@ (q0 :> Q)
MCReach  == [t \in Types |-> Behaviours]

ASSUME LibraryAssumption == BehavioursApart(MCPlanOf, MCReach)
===============================================================================
