------------------------------- MODULE MCConstraint -------------------------------
(***************************************************************************)
(* A behaviour in a plan of a plan type in the master plan, all with         *)
(* conditions: some over bound variables, two quantified over the agents of   *)
(* a state or of a plan.                                                    *)
(***************************************************************************)
EXTENDS ConstraintProperties

MCVars   == {"bx", "by", "px", "py", "tx", "mx", "mz", "x"}
MCConds  == {"b", "p", "pq", "move", "m", "mq"}
MCStates == {"s", "t"}
MCAgents == {"me", "other"}

MCCondVars ==
  [b |-> {"by"}, p |-> {"px", "py"}, pq |-> {"py"}, move |-> {"px"}, m |-> {"mx", "mz"},
   mq |-> {"mz"}]
MCQuantifiers ==
  [c \in MCConds |-> CASE c = "pq" -> {[vars |-> {"x"}, scope |-> {"s"}]}
                       [] c = "mq" -> {[vars |-> {"x"}, scope |-> {"s", "t"}]}
                       [] OTHER -> {}]
MCPlanConds == <<{"b"}, {"p", "pq"}, {"m", "mq"}>>
MCMoveConds ==
  << [s |-> {}, t |-> {}], [s |-> {}, t |-> {"move"}], [s |-> {}, t |-> {}] >>
MCNoType == {<<"none", "none">>}
MCTypeBinding == << MCNoType, {<<"px", "tx">>}, MCNoType >>
MCStateBinding ==
  << [s |-> {}, t |-> {}],
     [s |-> {<<"bx", "px">>}, t |-> {<<"bx", "py">>, <<"by", "px">>}],
     [s |-> {<<"tx", "mx">>}, t |-> {}] >>

\* The plan or plan type that each variable belongs to, counted from below; a
\* template variable belongs to its conditions.
MCHeight == [bx |-> 1, by |-> 1, px |-> 3, py |-> 3, tx |-> 4, mx |-> 5, mz |-> 5, x |-> 0]

MCQuestions ==
  {[static |-> {"bx"}, domain |-> {}], [static |-> {"bx", "by"}, domain |-> {}],
   [static |-> {}, domain |-> {<<"other", "x">>}],
   [static |-> {"bx"}, domain |-> {<<"me", "x">>}]}

ASSUME OwnersAssumption == VariablesOwned(MCHeight) /\ PlansApart(MCHeight) /\ BoundOnce
================================================================================
