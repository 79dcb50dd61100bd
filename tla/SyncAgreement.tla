---------------------------- MODULE SyncAgreement -----------------------------
(***************************************************************************)
(* What the synchronisation protocol promises a team, without its rows,    *)
(* acknowledgements, ticks and messages: robots claim that the condition   *)
(* of their transition holds, announce that they are ready, and regard the *)
(* team as synchronised.                                                   *)
(***************************************************************************)
CONSTANTS Robots, Transitions

VARIABLES
  claimed,    \* <<r, t>>: r has told the team that the condition of t holds
  announced,  \* robots that have announced their readiness
  synched     \* robots that regard the team as synchronised

absVars == <<claimed, announced, synched>>

\* Somebody claims every connected transition.
Covered(claims) == \A t \in Transitions : \E p \in Robots : <<p, t>> \in claims

\* For every connected transition, a robot that claims it has announced itself.
Agreed(claims, ready) ==
  \A t \in Transitions : \E p \in ready : <<p, t>> \in claims

Init == claimed = {} /\ announced = {} /\ synched = {}

\* One handler of robot r may claim, announce and conclude at once.
Claim(r) == \E T \in SUBSET Transitions : claimed' = claimed \cup ({r} \X T)

Announce(r) == Covered(claimed') /\ announced' = announced \cup {r}

Synchronise(r) ==
  /\ r \in announced'
  /\ Agreed(claimed', announced')
  /\ synched' = synched \cup {r}

Follow(r) == r \in synched /\ synched' = synched \ {r}

Step(r) ==
  /\ Claim(r)
  /\ Announce(r) \/ UNCHANGED announced
  /\ Synchronise(r) \/ Follow(r) \/ UNCHANGED synched

Next == \E r \in Robots : Step(r)

Spec == Init /\ [][Next]_absVars

===============================================================================
