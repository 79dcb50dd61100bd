---------------------------- MODULE SyncProperties ----------------------------
(* What the synchronisation protocol of SyncModule guarantees. *)
EXTENDS SyncModule

\* Every variable keeps its type; ages are saturated, the own row exists.
TypeOK ==
  /\ \A r \in Robots : at[r] \in OutTransitions[r] \cup {NoTrans}
  /\ at \in [Robots -> Transitions \cup {NoTrans}]
  /\ entries \in [Robots -> 0..MaxEntries]
  /\ visited \subseteq Robots
  /\ ticks \in [Robots -> 0..StaleAge]
  /\ synchSet \subseteq Robots
  /\ sync \in [Robots -> Synchronisation]
  /\ synched \subseteq Robots
  /\ net \in [Robots -> SUBSET Message]
  /\ claimed \subseteq Robots \X Transitions
  /\ announced \subseteq Robots
  /\ doneIn \in [Robots -> 0..MaxEntries]

-------------------------------------------------------------------------------
Agreement == INSTANCE SyncAgreement

\* What is in flight was really said: a talk, acknowledgement or not, that says
\* a condition holds repeats a claim of the robot it is about, and a SyncReady
\* comes from a robot that announced itself.
HonestMessages ==
  \A r \in Robots : \A m \in net[r] :
    IF m.type = "talk"
    THEN m.data.holds => <<m.data.robot, m.data.trans>> \in claimed
    ELSE m.sender \in announced

\* A robot's matrix and its list of SyncReadys hold nothing nobody said.
HonestMatrix ==
  \A r \in Robots :
    /\ \A i \in DOMAIN sync[r].rows :
         sync[r].rows[i].holds =>
           <<sync[r].rows[i].robot, sync[r].rows[i].trans>> \in claimed
    /\ sync[r].readys \subseteq announced

\* myRow points at a row about the robot itself, which it has received itself.
OwnRow ==
  \A r \in Robots :
    sync[r].my # 0 =>
      /\ sync[r].my \in DOMAIN sync[r].rows
      /\ sync[r].rows[sync[r].my].robot = r
      /\ r \in sync[r].rows[sync[r].my].recv

\* readyForSync is never stale: while it is set the matrix still covers every
\* connected transition, the own row is still acknowledged by the robots it
\* rests on, and the team has been told (Synchronisation.cpp, changeOwnData and
\* integrateSyncTalk set the flag at two places and reset it at four).
ReadyIsComplete ==
  \A r \in Robots :
    sync[r].ready => IsSyncComplete(sync[r]) /\ r \in announced

\* A robot that may take the transition has announced itself, and for every
\* connected transition a robot that claimed its condition has done so too.
SynchedMeansAgreed ==
  synched # {} =>
    /\ synched \subseteq announced
    /\ Agreement!Agreed(claimed, announced)

\* No SyncReady is sent before every connected transition has been claimed.
AnnouncedMeansCovered == announced # {} => Agreement!Covered(claimed)

\* The inductive invariant of the agreement.
AgreementInv ==
  /\ TypeOK
  /\ HonestMessages
  /\ HonestMatrix
  /\ OwnRow
  /\ ReadyIsComplete
  /\ SynchedMeansAgreed
  /\ AnnouncedMeansCovered

\* Over any loss, reordering, time-out, revocation and re-entry, the protocol
\* implements the agreement: handlers only claim, announce, conclude and follow
\* when SyncAgreement allows it.
ImplementsAgreement == Agreement!Spec

\* r waits for nobody but itself, and tells the team so.
ReadyAlone(r) ==
  /\ IsSyncComplete(sync[r]) /\ sync[r].rows[sync[r].my].recv = {r}
  /\ \A q \in Robots \ {r} : MkReady(r) \in net[q]

\* While a robot is ready, the robots it waits for stay the ones it counted when
\* it became ready: its own row is frozen until it resets readyForSync.  Only a
\* robot that its new row alone makes ready again is ready before and after
\* (changeOwnData resets the flag and sets it once more).
ParticipantsFrozen ==
  [][\A r \in Robots :
       (r \in synchSet /\ r \in synchSet' /\ sync[r].ready /\ sync'[r].ready) =>
         sync'[r].rows = sync[r].rows \/ ReadyAlone(r)']_vars

-------------------------------------------------------------------------------
(* Liveness, under FairSpec *)

\* r took the transition in its (only) stay.
Followed(r) == entries[r] = MaxEntries /\ at[r] = NoTrans

\* With one robot per transition, conditions that hold, and no loss, everybody
\* takes the transition.
TeamSynchronises == <>(\A r \in Robots : OutTransitions[r] # {} => Followed(r))

\* A synchronisation nobody evaluates does not stay forever.
OrphansCollected ==
  \A r \in Robots : []<>(at[r] # NoTrans \/ r \notin synchSet)


-------------------------------------------------------------------------------
(* What a comment of the code claims and the code does not keep *)

\* "Moves the agent along a synchronized transition, if [...] the team deems the
\* transition as synchronized" (RuleBook.cpp 450): a robot takes the transition
\* only on a synchronisation concluded during this stay in the state.
FollowsThisSynchronisation ==
  [][\A r \in Robots :
       (at[r] # NoTrans /\ r \in synched /\ r \notin synched' /\ at'[r] = NoTrans) =>
         doneIn[r] = entries[r]]_vars
===============================================================================
