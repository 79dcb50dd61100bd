-------------------------------- MODULE MCSync --------------------------------
(* Small teams for TLC. *)
EXTENDS SyncProperties
CONSTANTS a, b, c, t1, t2, t3

\* a and b wait at the two transitions of the synchronisation.
Pair == [r \in Robots |-> IF r = a THEN {t1} ELSE {t2}]

\* evalCondition: always true; true or false at a only.
Steady    == [r \in Robots |-> {TRUE}]
OneFickle == [r \in Robots |-> IF r = a THEN BOOLEAN ELSE {TRUE}]
===============================================================================
