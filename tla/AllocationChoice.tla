---------------------------- MODULE AllocationChoice ----------------------------
(* What a task allocation problem promises whoever asks it for assignments      *)
(* (ITaskAssignmentProblem.h: "the best possible assignment"): of the plans it  *)
(* has begun to compare, the assignment of highest utility that it has not yet  *)
(* given, and nothing only when every assignment has been given.                *)
EXTENDS Naturals, Integers

VARIABLES problem,   \* the complete assignments, [plan, asg, value]
          opened,    \* the plans that are being compared
          given,     \* the assignments given so far
          over       \* the problem has been given up
vars == <<problem, opened, given, over>>

Init == problem = {} /\ opened = {} /\ given = {} /\ over = FALSE

\* A new problem; unposing one is posing the empty one.
Pose == ~ over' /\ given' = {}

Open == UNCHANGED <<given, over>> /\ opened \subseteq opened' /\ UNCHANGED problem

\* Of those left over, one of highest utility among the plans being compared.
Best(left, open) == {g \in left : \A h \in left : h.plan \in open => h.value <= g.value}

Give ==
  /\ given' # given
  /\ \E left \in {problem \ given}, open \in {opened} :
       \E g \in Best(left, open) : given' = given \cup {g}
  /\ UNCHANGED <<problem, over>>

GiveUp == over' /\ ~ over /\ given' = {} /\ problem \subseteq given

Next == Pose \/ Open \/ Give \/ GiveUp
Spec == Init /\ [][Next]_vars
=============================================================================
