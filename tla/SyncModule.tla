------------------------------ MODULE SyncModule ------------------------------
(***************************************************************************)
(* The protocol by which a team takes a synchronised transition together:  *)
(* SyncModule.cpp, Synchronisation.cpp and SyncRow.cpp on every robot, the *)
(* part of RuleBook::synchTransitionRule that drives them, and the         *)
(* broadcast network between the robots.                                   *)
(*                                                                         *)
(* One SyncTransition is modelled.  The other entries of a robot's         *)
(* synchSet matter only through SyncModule::ticks, which tick() advances   *)
(* once per ENTRY: PeersBefore (PeersAfter) entries precede (follow) ours  *)
(* in the map.  SyncModule::ticks is compared only with                    *)
(* Synchronisation::lastTick + 2, so a synchronisation keeps its age,      *)
(* ticks - lastTick, saturated at StaleAge.                                *)
(*                                                                         *)
(* Every handler is one step; the threads inside one robot are not         *)
(* interleaved here.                                                       *)
(***************************************************************************)
EXTENDS Naturals, FiniteSets, Sequences

CONSTANTS
  Robots,             \* the agents of the team
  Transitions,        \* the transitions connected by the SyncTransition (getInSync)
  OutTransitions,     \* [Robots -> SUBSET Transitions]: those a robot's states offer it
  CondValues,         \* CondValues[r]: what evalCondition may return on robot r
  Leavers,            \* robots that may leave the state by another rule
  MaxEntries,         \* bound: how often a robot enters the state
  MaxInFlight,        \* bound: messages in flight to one robot
  InitTicks,          \* ticks already counted when the team starts to synchronise
  PeersBefore,        \* entries of synchSet ticked before ours ...
  PeersAfter,         \* ... and after ours
  FailOnSyncTimeOut,  \* SyncTransition::isFailOnSyncTimeOut
  LossyNetwork,       \* whether the network may drop a message
  NoTrans             \* "the robot is in no state with a connected transition"

ASSUME ConstantsAssumption ==
  /\ Transitions # {}
  /\ OutTransitions \in [Robots -> SUBSET Transitions]
  /\ CondValues \in [Robots -> SUBSET BOOLEAN]
  /\ Leavers \subseteq Robots
  /\ MaxEntries \in Nat
  /\ MaxInFlight \in Nat
  /\ InitTicks \in 0..3
  /\ PeersBefore \in Nat
  /\ PeersAfter \in Nat
  /\ FailOnSyncTimeOut \in BOOLEAN
  /\ LossyNetwork \in BOOLEAN
  /\ NoTrans \notin Transitions

VARIABLES
  at,         \* at[r]: the connected transition r's active state offers, or NoTrans
  entries,    \* entries[r]: how often r entered such a state (bounded)
  visited,    \* robots whose RuleBook visited the plan since their last tick
  ticks,      \* ticks[r]: SyncModule::ticks, saturated at StaleAge
  synchSet,   \* robots whose SyncModule::synchSet holds our SyncTransition
  sync,       \* sync[r]: that Synchronisation (EmptySync when there is none)
  synched,    \* robots whose synchedTransitions holds our SyncTransition
  net,        \* net[r]: the messages in flight to r
  claimed,    \* history: <<r, t>> if r ever told the team that t's condition holds
  announced,  \* history: robots that ever sent a SyncReady
  doneIn      \* history: the entry during which r's last synchronisation was done

robotVars == <<at, entries, visited>>
history   == <<claimed, announced, doneIn>>
vars == <<at, entries, visited, ticks, synchSet, sync, synched, net,
          claimed, announced, doneIn>>

-------------------------------------------------------------------------------
(* Data: sync rows, messages, synchronisations *)

SyncData == [robot : Robots, trans : Transitions, holds : BOOLEAN]
Row      == [robot : Robots, trans : Transitions, holds : BOOLEAN,
             recv : SUBSET Robots]
Talk     == [type : {"talk"}, sender : Robots, data : SyncData, ack : BOOLEAN]
Ready    == [type : {"ready"}, sender : Robots]
Message  == Talk \cup Ready

ActiveAge == 2    \* a synchronisation is active while lastTick + 2 >= ticks
StaleAge  == 3    \* all older ages behave alike
Saturate(n) == IF n > StaleAge THEN StaleAge ELSE n

\* my is the index of myRow in rows (0 is the null pointer): the engine writes
\* its own row in place, and a late acknowledgement may add a second row with
\* the robot's own data, so rows is the list it is in the code.
Synchronisation == [age : 0..StaleAge, my : Nat, rows : Seq(Row),
                    ready : BOOLEAN, readys : SUBSET Robots]

SyncOfAge(n) == [age |-> n, my |-> 0, rows |-> << >>, ready |-> FALSE, readys |-> {}]
EmptySync == SyncOfAge(0)

\* A Synchronisation constructed at r: its lastTick is 0.
NewSync(r) == SyncOfAge(ticks[r])

MkData(r, t, h) == [robot |-> r, trans |-> t, holds |-> h]
MkRow(d, recv)  == [robot |-> d.robot, trans |-> d.trans, holds |-> d.holds,
                    recv |-> recv]
DataOf(row)     == [robot |-> row.robot, trans |-> row.trans, holds |-> row.holds]
SameData(row, d) == /\ row.robot = d.robot
                    /\ row.trans = d.trans
                    /\ row.holds = d.holds

MkTalk(r, d)  == [type |-> "talk", sender |-> r, data |-> d, ack |-> FALSE]
MkAck(r, d)   == [type |-> "talk", sender |-> r, data |-> d, ack |-> TRUE]
MkReady(r)    == [type |-> "ready", sender |-> r]

\* History: the announced robots A after r has sent msgs.
Announced(A, r, msgs) == IF MkReady(r) \in msgs THEN A \cup {r} ELSE A

\* Communication is a broadcast; a robot drops its own messages on arrival.
Broadcast(n, r, msgs) == [q \in Robots |-> IF q = r THEN n[q] ELSE n[q] \cup msgs]

\* The network holds a bounded number of messages; a robot sends no more.
RoomInNet == \A q \in Robots : Cardinality(net'[q]) <= MaxInFlight

-------------------------------------------------------------------------------
(* Synchronisation.cpp *)

\* i is the first row of the matrix in which somebody believes in t.
FirstBeliever(s, t, i) ==
  /\ s.rows[i].trans = t /\ s.rows[i].holds
  /\ \A j \in 1..(i - 1) : ~ (s.rows[j].trans = t /\ s.rows[j].holds)

\* Mutant: a transition nobody believes in is skipped.
IsSyncCompleteSkipping(s) ==
  /\ s.my # 0
  /\ \E i \in DOMAIN s.rows : s.rows[i].robot \in s.rows[s.my].recv

\* Mutant: the own row need not be acknowledged.
IsSyncCompleteUnacked(s) ==
  /\ s.my # 0
  /\ \A t \in Transitions : \E i \in DOMAIN s.rows : FirstBeliever(s, t, i)

IsSyncComplete(s) ==
  /\ s.my # 0
  /\ \A t \in Transitions :
       \E i \in DOMAIN s.rows :
          /\ FirstBeliever(s, t, i)
          /\ s.rows[i].robot \in s.rows[s.my].recv

\* Mutant: some acknowledging robot is ready, instead of all of them.
AllSyncReadyAny(r, s) == \E q \in s.rows[s.my].recv : q \in s.readys \cup {r}

AllSyncReady(r, s) == \A q \in s.rows[s.my].recv \ {r} : q \in s.readys

\* Mutant: the own row is repeated, but no SyncReady follows.
ReadyMessagesTalkOnly(r, s) == {MkTalk(r, DataOf(s.rows[s.my]))}

\* What sendSyncReady broadcasts: the own row again, then the SyncReady.
ReadyMessages(r, s) == {MkTalk(r, DataOf(s.rows[s.my])), MkReady(r)}

\* Mutant: a changed own row does not reset readyForSync.
ChangeOwnDataKeepingReady(r, s, t, h) ==
  LET d  == MkData(r, t, h)
      s2 == IF s.my # 0
            THEN [s EXCEPT !.rows = [@ EXCEPT ![s.my] = MkRow(d, {r})]]
            ELSE [s EXCEPT !.rows = Append(@, MkRow(d, {r})), !.my = Len(s.rows) + 1]
  IN  IF s.my # 0 /\ SameData(s.rows[s.my], d) THEN [sync |-> s, sent |-> {}]
      ELSE [sync |-> s2, sent |-> {MkTalk(r, d)}]

\* changeOwnData: the new synchronisation and what it broadcasts.
ChangeOwnData(r, s, t, h) ==
  LET d       == MkData(r, t, h)
      s1      == [s EXCEPT !.ready = @ /\ h]
      same    == s.my # 0 /\ SameData(s.rows[s.my], d)
      s2      == IF s.my # 0
                 THEN [s1 EXCEPT !.rows = [@ EXCEPT ![s.my] = MkRow(d, {r})],
                                 !.ready = FALSE]
                 ELSE [s1 EXCEPT !.rows = Append(@, MkRow(d, {r})),
                                 !.my = Len(s.rows) + 1]
  IN  IF same THEN [sync |-> s1, sent |-> {}]
      ELSE IF IsSyncComplete(s2)
           THEN [sync |-> [s2 EXCEPT !.ready = TRUE], sent |-> ReadyMessages(r, s2)]
           ELSE [sync |-> s2, sent |-> {MkTalk(r, d)}]

\* The matrix after data d arrived from sender: the first equal row notes the
\* sender, and data not seen yet becomes a new row.
IntegrateData(rows, d, sender) ==
  IF \E i \in DOMAIN rows : SameData(rows[i], d)
  THEN [i \in DOMAIN rows |->
          IF SameData(rows[i], d) /\ \A j \in 1..(i - 1) : ~ SameData(rows[j], d)
          THEN [rows[i] EXCEPT !.recv = @ \cup {sender}]
          ELSE rows[i]]
  ELSE Append(rows, MkRow(d, {sender}))

IsSynching(s) == s.age <= ActiveAge

\* A talk is integrated: the matrix grows, the synchronisation may become ready
\* and, late acknowledgements considered, done.
Integrate(r, s, m) ==
  LET s1 == [s EXCEPT !.rows = IntegrateData(@, m.data, m.sender)]
      s2 == [s1 EXCEPT !.ready = IsSyncComplete(s1)]
  IN  [sync |-> s2,
       sent |-> IF s2.ready THEN ReadyMessages(r, s2) ELSE {},
       done |-> s2.ready /\ AllSyncReady(r, s2),
       accepted |-> TRUE]

\* Mutant: talks are integrated although the synchronisation is ready.
IntegrateSyncTalkWhenReady(r, s, m) ==
  IF IsSynching(s) THEN Integrate(r, s, m)
  ELSE [sync |-> s, sent |-> {}, done |-> FALSE, accepted |-> s.ready]

\* integrateSyncTalk: the new synchronisation, what it broadcasts, whether it is
\* done, and the Boolean the code returns (accepted).
IntegrateSyncTalk(r, s, m) ==
  IF ~ s.ready /\ IsSynching(s) THEN Integrate(r, s, m)
  ELSE [sync |-> s, sent |-> {}, done |-> FALSE, accepted |-> s.ready]

IntegrateSyncReady(r, s, m) ==
  LET s1 == [s EXCEPT !.readys = @ \cup {m.sender}]
  IN  [sync |-> s1, done |-> s1.ready /\ AllSyncReady(r, s1)]

-------------------------------------------------------------------------------
Init ==
  /\ at        = [r \in Robots |-> NoTrans]
  /\ entries   = [r \in Robots |-> 0]
  /\ visited   = Robots
  /\ ticks     = [r \in Robots |-> InitTicks]
  /\ synchSet  = {}
  /\ sync      = [r \in Robots |-> EmptySync]
  /\ synched   = {}
  /\ net       = [r \in Robots |-> {}]
  /\ claimed   = {}
  /\ announced = {}
  /\ doneIn    = [r \in Robots |-> 0]

\* The robot's active state becomes one with a connected transition, or it
\* leaves such a state by another rule.  SyncModule is told of neither.
Enter(r, t) ==
  /\ at[r] = NoTrans
  /\ entries[r] < MaxEntries
  /\ at'      = [at EXCEPT ![r] = t]
  /\ entries' = [entries EXCEPT ![r] = @ + 1]
  /\ UNCHANGED <<visited, ticks, synchSet, sync, synched, net, history>>

Leave(r) ==
  /\ at[r] # NoTrans
  /\ r \in Leavers
  /\ at' = [at EXCEPT ![r] = NoTrans]
  /\ UNCHANGED <<entries, visited, ticks, synchSet, sync, synched, net, history>>

-------------------------------------------------------------------------------
(* SyncModule::tick, once per iteration of the engine's main loop *)

\* tick() counts once for each entry of synchSet.
TickCount(r) == PeersBefore + PeersAfter + IF r \in synchSet THEN 1 ELSE 0

\* Mutant: isValid does not notice that the synchronisation is left alone.
AgeAtCheckFresh(r) == PeersBefore

\* The age isValid sees: the entries before ours have been counted already.
AgeAtCheck(r) == sync[r].age + PeersBefore

AdvanceTicks(r) ==
  /\ visited' = visited \ {r}
  /\ ticks' = [ticks EXCEPT ![r] = Saturate(@ + TickCount(r))]

\* An iteration follows the previous one's visit of the plan.
TickGuard(r) == at[r] = NoTrans \/ r \in visited

\* No entry, or an entry that stays; talkTimeOut: the own row is sent again.
TickKeep(r, talkTimeOut) ==
  /\ TickGuard(r)
  /\ AdvanceTicks(r)
  /\ r \in synchSet => AgeAtCheck(r) <= ActiveAge
  /\ talkTimeOut => r \in synchSet /\ sync[r].my # 0 /\ ~ sync[r].ready
  /\ sync' = IF r \in synchSet
             THEN [sync EXCEPT ![r].age = Saturate(@ + TickCount(r))]
             ELSE sync
  /\ net' = IF talkTimeOut
            THEN Broadcast(net, r, {MkTalk(r, DataOf(sync[r].rows[sync[r].my]))})
            ELSE net
  /\ RoomInNet
  /\ UNCHANGED <<at, entries, synchSet, synched, history>>

\* The synchronisation is no longer evaluated: it is dropped, and if it has a
\* row of ours the team is told that the condition holds no more.
TickStale(r) ==
  /\ TickGuard(r)
  /\ r \in synchSet
  /\ AgeAtCheck(r) > ActiveAge
  /\ AdvanceTicks(r)
  /\ net' = IF sync[r].my = 0 THEN net
            ELSE Broadcast(net, r,
                   {MkTalk(r, [DataOf(sync[r].rows[sync[r].my]) EXCEPT !.holds = FALSE])})
  /\ synchSet' = synchSet \ {r}
  /\ sync' = [sync EXCEPT ![r] = EmptySync]
  /\ RoomInNet
  /\ UNCHANGED <<at, entries, synched, history>>

\* The synchronisation is older than the syncTimeOut; its talk may have been
\* repeated just before.
TickSyncTimeOut(r, talkTimeOut) ==
  /\ FailOnSyncTimeOut
  /\ TickGuard(r)
  /\ r \in synchSet
  /\ AgeAtCheck(r) <= ActiveAge
  /\ talkTimeOut => sync[r].my # 0 /\ ~ sync[r].ready
  /\ AdvanceTicks(r)
  /\ net' = IF talkTimeOut
            THEN Broadcast(net, r, {MkTalk(r, DataOf(sync[r].rows[sync[r].my]))})
            ELSE net
  /\ synchSet' = synchSet \ {r}
  /\ sync' = [sync EXCEPT ![r] = EmptySync]
  /\ RoomInNet
  /\ UNCHANGED <<at, entries, synched, history>>

-------------------------------------------------------------------------------
(* RuleBook::synchTransitionRule and SyncModule::setSynchronisation *)

\* The team is told whether r's condition holds; history notes what it is told.
SetSynchronisation(r, h) ==
  LET s   == [sync[r] EXCEPT !.age = 0]
      res == ChangeOwnData(r, s, at[r], h)
  IN  /\ synchSet' = synchSet \cup {r}
      /\ sync' = [sync EXCEPT ![r] = res.sync]
      /\ net' = Broadcast(net, r, res.sent)
      /\ RoomInNet
      /\ claimed' = claimed \cup IF h THEN {<<r, at[r]>>} ELSE {}
      /\ announced' = Announced(announced, r, res.sent)

\* The synchronisation is not done: report whether the condition holds.
VisitWait(r, h) ==
  /\ at[r] # NoTrans
  /\ r \notin synched
  /\ SetSynchronisation(r, h)
  /\ visited' = visited \cup {r}
  /\ UNCHANGED <<at, entries, ticks, synched, doneIn>>

\* followSyncTransition succeeds and the condition holds: take the transition.
VisitFollow(r) ==
  /\ at[r] # NoTrans
  /\ r \in synched
  /\ TRUE \in CondValues[r]
  /\ synched' = synched \ {r}
  /\ at' = [at EXCEPT ![r] = NoTrans]
  /\ visited' = visited \cup {r}
  /\ UNCHANGED <<entries, ticks, synchSet, sync, net, history>>

\* followSyncTransition succeeds but the condition holds no more.
VisitRevoke(r) ==
  /\ at[r] # NoTrans
  /\ r \in synched
  /\ FALSE \in CondValues[r]
  /\ synched' = synched \ {r}
  /\ SetSynchronisation(r, FALSE)
  /\ visited' = visited \cup {r}
  /\ UNCHANGED <<at, entries, ticks, doneIn>>

-------------------------------------------------------------------------------
(* SyncModule::onSyncTalk, onSyncReady and synchronisationDone *)

\* The robot's synchronisation after a handler: kept, or done and removed.
Conclude(r, res) ==
  /\ synchSet' = IF res.done THEN synchSet \ {r} ELSE synchSet \cup {r}
  /\ sync' = [sync EXCEPT ![r] = IF res.done THEN EmptySync ELSE res.sync]
  /\ synched' = synched \cup IF res.done THEN {r} ELSE {}
  /\ doneIn' = [doneIn EXCEPT ![r] = IF res.done THEN entries[r] ELSE @]

\* A talk about the sender's own row is acknowledged unless the handler just
\* created the synchronisation and that one refused the talk.
Acks(r, m, res) ==
  IF /\ ~ m.ack
     /\ m.sender = m.data.robot
     /\ r \in synchSet \/ res.accepted
  THEN {MkAck(r, m.data)} ELSE {}

\* res is bound by \E so that TLC computes it once.
OnSyncTalk(r, m) ==
  /\ m \in net[r]
  /\ m.type = "talk"
  /\ LET s == IF r \in synchSet THEN sync[r] ELSE NewSync(r)
     IN  \E res \in {IntegrateSyncTalk(r, s, m)} :
           /\ Conclude(r, res)
           /\ net' = Broadcast([net EXCEPT ![r] = @ \ {m}], r,
                               res.sent \cup Acks(r, m, res))
           /\ announced' = Announced(announced, r, res.sent)
  /\ RoomInNet
  /\ UNCHANGED <<at, entries, visited, ticks, claimed>>

OnSyncReady(r, m) ==
  /\ m \in net[r]
  /\ m.type = "ready"
  /\ net' = [net EXCEPT ![r] = @ \ {m}]
  /\ IF r \in synchSet
     THEN Conclude(r, IntegrateSyncReady(r, sync[r], m))
     ELSE UNCHANGED <<synchSet, sync, synched, doneIn>>
  /\ UNCHANGED <<at, entries, visited, ticks, claimed, announced>>

\* The network drops a message.
Lose(r, m) ==
  /\ LossyNetwork
  /\ m \in net[r]
  /\ net' = [net EXCEPT ![r] = @ \ {m}]
  /\ UNCHANGED <<robotVars, ticks, synchSet, sync, synched, history>>

-------------------------------------------------------------------------------
Next ==
  \E r \in Robots :
    \/ \E t \in OutTransitions[r] : Enter(r, t)
    \/ Leave(r)
    \/ \E timedOut \in BOOLEAN : TickKeep(r, timedOut)
    \/ TickStale(r)
    \/ \E timedOut \in BOOLEAN : TickSyncTimeOut(r, timedOut)
    \/ \E h \in CondValues[r] : VisitWait(r, h)
    \/ VisitFollow(r)
    \/ VisitRevoke(r)
    \/ \E m \in net[r] : OnSyncTalk(r, m)
    \/ \E m \in net[r] : OnSyncReady(r, m)
    \/ \E m \in net[r] : Lose(r, m)

Spec == Init /\ [][Next]_vars

\* r hears what q has to say about p's row, and q's SyncReady.
HearTalk(r, q, p) ==
  \E m \in net[r] : /\ m.sender = q /\ m.type = "talk" /\ m.data.robot = p
                    /\ OnSyncTalk(r, m)
HearReady(r, q) == \E m \in net[r] : m.sender = q /\ OnSyncReady(r, m)

\* The visit of the plan: the robot comes to the state, waits in it or leaves it.
Visit(r) ==
  \/ \E t \in OutTransitions[r] : Enter(r, t)
  \/ \E h \in CondValues[r] : VisitWait(r, h)
  \/ VisitFollow(r)

\* The engine's main loop runs on every robot: it ticks, visits the plan, and the
\* talkTimeOut passes again and again while a talk is not answered (the main
\* loop's period is of the size of the talkTimeOut).  Messages not lost arrive.
Fairness ==
  \A r \in Robots :
    /\ WF_vars(TickStale(r) \/ \E timedOut \in BOOLEAN : TickKeep(r, timedOut))
    /\ SF_vars(TickKeep(r, TRUE))
    /\ WF_vars(Visit(r))
    /\ \A q \in Robots \ {r} :
         /\ \A p \in Robots : WF_vars(HearTalk(r, q, p))
         /\ WF_vars(HearReady(r, q))

FairSpec == Spec /\ Fairness

===============================================================================
