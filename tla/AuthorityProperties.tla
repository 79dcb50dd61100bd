-------------------------- MODULE AuthorityProperties --------------------------
(* What allocation authority keeps over late, lost and crossing claims. *)
EXTENDS Authority

\* Types.
TypeOK ==
  /\ ass \in [Robots -> Assignment]
  /\ \A r \in Robots : /\ Len(hist[r]) = HistorySize
                       /\ ToSet(hist[r]) \subseteq Change \cup {NoChange}
  /\ cm \in [Robots -> CycleManager]
  /\ \A r \in Robots : net[r] \subseteq Info
  /\ detections \in 0..MaxDetections
  /\ claimed \subseteq Robots

\* The utility changes of a history that are newer than slot k.
UtilitiesAfter(changes, k) ==
  {j \in DOMAIN changes : j > k /\ changes[j].reason = "utility"}

\* Slots before k, back to the last utility change or empty slot.
MessagesBefore(changes, k) ==
  {j \in 1..(k - 1) : \A i \in j..(k - 1) : changes[i].reason = "message"}

\* Nothing but what is recorded changed the assignment.
Unbroken(changes) ==
  \A k \in 2..HistorySize :
    changes[k - 1].reason # "empty" => changes[k].before = changes[k - 1].after

\* Messages before the utility change k had led away from what it led back to.
Closes(changes, k) ==
  \E j \in MessagesBefore(changes, k) : changes[k].after = changes[j].before

\* The newest utility changes, one more than are tolerated, each close a cycle, and
\* no empty slot is newer.
WentRound(changes) ==
  /\ Cardinality(UtilitiesAfter(changes, 0)) > MaxCycles
  /\ \A k \in UtilitiesAfter(changes, 0) :
       Cardinality(UtilitiesAfter(changes, k)) <= MaxCycles =>
         /\ Closes(changes, k)
         /\ \A e \in DOMAIN changes : changes[e].reason = "empty" => e < k

\* "A Cycle [...] consists of 1 UtilityChange, m message update; after uc,
\* allocation is same again" (CycleManager.cpp:269): the walk over differences
\* finds a cycle just when the assignments went round, wherever in the history
\* the cycles begin and end.
DetectsCycles ==
  \A r \in Robots :
    Unbroken(hist[r]) => (DetectAllocationCycle(hist[r]) <=> WentRound(hist[r]))

\* The ring buffers keep their size and show the cycles there were.
BuffersShowCycles == TypeOK /\ DetectsCycles

\* The robot whose assignment r follows when its cycle manager is c: 0 is none.
Boss(r, c) == CASE c.state = "observing" -> 0
                [] c.state = "overriding" -> r
                [] OTHER -> c.fixed.authority

BossOf == [r \in Robots |-> Boss(r, cm[r])]

Contest == INSTANCE AuthorityContest WITH boss <- BossOf

\* Robots obey only claims of higher robots that were really made, also when
\* claims cross, are late or lost, or come when the claim is over.
ImplementsContest == Contest!ContestSpec

\* When no more cycles are found every robot observes again in the end: rejected
\* claims and late messages do not keep the team in authority for ever.
AuthorityEnds == <>[](\A r \in Robots : cm[r].state = "observing")
===============================================================================
