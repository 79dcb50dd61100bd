--------------------------- MODULE AuthorityContest ---------------------------
(***************************************************************************)
(* What cycle detection promises the team: robots claim authority over a   *)
(* plan, because they found a cycle or to reject the claim of a robot with *)
(* a lower identifier, and a robot obeys only a claim of a higher one.     *)
(***************************************************************************)
EXTENDS Naturals

CONSTANTS NumRobots

Robots == 1..NumRobots

VARIABLES
  boss,      \* boss[r]: whom r obeys: 0 nobody, r itself, or a higher robot
  claimed    \* robots that have claimed authority

ContestInit == boss = [r \in Robots |-> 0] /\ claimed = {}

Claim(r) ==
  /\ boss[r] # r
  /\ boss[r] = 0 \/ \E q \in claimed : q < r
  /\ boss' = [boss EXCEPT ![r] = r]
  /\ claimed' = claimed \cup {r}

Obey(r, q) ==
  /\ q > r /\ q \in claimed
  /\ boss' = [boss EXCEPT ![r] = q]
  /\ UNCHANGED claimed

GiveUp(r) ==
  /\ boss[r] # 0
  /\ boss' = [boss EXCEPT ![r] = 0]
  /\ UNCHANGED claimed

ContestNext == \E r \in Robots : Claim(r) \/ GiveUp(r) \/ \E q \in Robots : Obey(r, q)

ContestSpec == ContestInit /\ [][ContestNext]_<<boss, claimed>>
===============================================================================
