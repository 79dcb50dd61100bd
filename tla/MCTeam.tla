--------------------------------- MODULE MCTeam ---------------------------------
EXTENDS TeamProperties

mcStates == {"m1", "m2", "p1", "p2", "p3"}
mcPlanOf == [s \in mcStates |-> IF s \in {"m1", "m2"} THEN "M" ELSE "P"]
mcEntryOf == [s \in mcStates |-> CASE s \in {"m1", "m2"} -> "e"
                                   [] s \in {"p1", "p2"} -> "e1" [] OTHER -> "e2"]
mcInitial == [e \in {"e", "e1", "e2"} |->
                CASE e = "e" -> "m1" [] e = "e1" -> "p1" [] OTHER -> "p3"]
mcPlansIn == [s \in mcStates |-> IF s = "m1" THEN <<"P">> ELSE << >>]

\* The hypothesis of RemovesOnlyInactive.
ASSUME OnePlanAssumption == OnePlanEach
===============================================================================
