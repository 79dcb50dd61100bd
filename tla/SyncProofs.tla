------------------------------ MODULE SyncProofs ------------------------------
(***************************************************************************)
(* For every team, every SyncTransition and every bound: the protocol of   *)
(* SyncModule keeps its types, readyForSync is never stale, a robot is     *)
(* synchronised only on the announcements of others, and every step        *)
(* implements SyncAgreement.  First the operations of one Synchronisation: *)
(* what they return of one that fits the team's claims still fits them;    *)
(* then the steps of the robots.                                           *)
(***************************************************************************)
EXTENDS SyncProperties, SequenceTheorems, TLAPS

\* What the invariant says of one robot's Synchronisation s, if the team's
\* claims are C and the announced robots A.
GoodSync(r, s, C, A) ==
  /\ s \in Synchronisation
  /\ \A i \in DOMAIN s.rows :
       s.rows[i].holds => <<s.rows[i].robot, s.rows[i].trans>> \in C
  /\ s.readys \subseteq A
  /\ s.my # 0 => /\ s.my \in DOMAIN s.rows
                 /\ s.rows[s.my].robot = r
                 /\ r \in s.rows[s.my].recv
  /\ s.ready => IsSyncComplete(s) /\ r \in A

\* ... and of one message.
GoodMessage(m, C, A) ==
  /\ m \in Message
  /\ m.type = "talk" => (m.data.holds => <<m.data.robot, m.data.trans>> \in C)
  /\ m.type = "ready" => m.sender \in A

Covered(C)   == Agreement!Covered(C)
Agreed(C, A) == Agreement!Agreed(C, A)

-------------------------------------------------------------------------------
(* Messages *)

LEMMA TalkIsGood ==
  ASSUME NEW r \in Robots, NEW d \in SyncData, NEW C, NEW A,
         d.holds => <<d.robot, d.trans>> \in C
  PROVE  GoodMessage(MkTalk(r, d), C, A) /\ GoodMessage(MkAck(r, d), C, A)
BY DEF GoodMessage, MkTalk, MkAck, Message, Talk

LEMMA ReadyIsGood ==
  ASSUME NEW r \in Robots, NEW C, NEW A, r \in A
  PROVE  GoodMessage(MkReady(r), C, A)
BY DEF GoodMessage, MkReady, Message, Ready

LEMMA TalkIsNotReady ==
  ASSUME NEW r, NEW q, NEW d
  PROVE  MkTalk(q, d) # MkReady(r) /\ MkAck(q, d) # MkReady(r)
<1>1. MkTalk(q, d).type = "talk" /\ MkAck(q, d).type = "talk" /\ MkReady(r).type = "ready"
  BY DEF MkTalk, MkAck, MkReady
<1>2. QED
  BY <1>1

LEMMA DataOfRow ==
  ASSUME NEW row \in Row
  PROVE  /\ DataOf(row) \in SyncData
         /\ DataOf(row).holds = row.holds
         /\ DataOf(row).robot = row.robot
         /\ DataOf(row).trans = row.trans
BY DEF Row, DataOf, SyncData

\* More claims and announcements spoil nothing.
LEMMA GoodIsMonotone ==
  ASSUME NEW C, NEW A, NEW C2, NEW A2, C \subseteq C2, A \subseteq A2
  PROVE  /\ \A r, s : GoodSync(r, s, C, A) => GoodSync(r, s, C2, A2)
         /\ \A m : GoodMessage(m, C, A) => GoodMessage(m, C2, A2)
         /\ Covered(C) => Covered(C2)
         /\ Agreed(C, A) => Agreed(C2, A2)
<1>1. \A r, s : GoodSync(r, s, C, A) => GoodSync(r, s, C2, A2)
  BY DEF GoodSync
<1>2. \A m : GoodMessage(m, C, A) => GoodMessage(m, C2, A2)
  BY DEF GoodMessage
<1>3. (Covered(C) => Covered(C2)) /\ (Agreed(C, A) => Agreed(C2, A2))
  BY DEF Covered, Agreed, Agreement!Covered, Agreement!Agreed
<1>4. QED
  BY <1>1, <1>2, <1>3

LEMMA BroadcastIsGood ==
  ASSUME NEW n \in [Robots -> SUBSET Message], NEW r, NEW msgs, NEW C, NEW A,
         \A q \in Robots : \A m \in n[q] : GoodMessage(m, C, A),
         \A m \in msgs : GoodMessage(m, C, A)
  PROVE  /\ Broadcast(n, r, msgs) \in [Robots -> SUBSET Message]
         /\ \A q \in Robots : \A m \in Broadcast(n, r, msgs)[q] : GoodMessage(m, C, A)
BY DEF Broadcast, GoodMessage

-------------------------------------------------------------------------------
(* The operations of a Synchronisation *)

LEMMA EmptyIsGood ==
  ASSUME NEW r \in Robots, NEW C, NEW A, NEW g \in 0..StaleAge
  PROVE  GoodSync(r, SyncOfAge(g), C, A)
<1>1. << >> \in Seq(Row) /\ DOMAIN << >> = {}
  OBVIOUS
<1>2. QED
  BY <1>1 DEF GoodSync, Synchronisation, SyncOfAge

\* A synchronisation's age matters to nobody but isValid.
LEMMA AgeIsGood ==
  ASSUME NEW r, NEW s, NEW C, NEW A, NEW g \in 0..StaleAge, GoodSync(r, s, C, A)
  PROVE  GoodSync(r, [s EXCEPT !.age = g], C, A)
<1> DEFINE s2 == [s EXCEPT !.age = g]
<1>1. /\ s2 \in Synchronisation
      /\ s2.my = s.my /\ s2.rows = s.rows /\ s2.ready = s.ready /\ s2.readys = s.readys
  BY DEF GoodSync, Synchronisation
<1> HIDE DEF s2
<1>2. IsSyncComplete(s2) = IsSyncComplete(s)
  BY <1>1 DEF IsSyncComplete, FirstBeliever
<1>3. GoodSync(r, s2, C, A)
  BY <1>1, <1>2 DEF GoodSync
<1>4. QED
  BY <1>3 DEF s2

LEMMA CompleteIsCovered ==
  ASSUME NEW r \in Robots, NEW s, NEW C, NEW A,
         s \in Synchronisation,
         \A i \in DOMAIN s.rows :
           s.rows[i].holds => <<s.rows[i].robot, s.rows[i].trans>> \in C,
         IsSyncComplete(s)
  PROVE  Covered(C)
<1>1. SUFFICES ASSUME NEW t \in Transitions
               PROVE  \E p \in Robots : <<p, t>> \in C
  BY DEF Covered, Agreement!Covered
<1>2. PICK i \in DOMAIN s.rows : s.rows[i].trans = t /\ s.rows[i].holds
  BY DEF IsSyncComplete, FirstBeliever
<1>3. s.rows[i] \in Row
  BY DEF Synchronisation
<1>4. QED
  BY <1>2, <1>3 DEF Row

\* A complete synchronisation whose acknowledging robots have all announced
\* themselves is an agreement.
LEMMA AllReadyIsAgreed ==
  ASSUME NEW r \in Robots, NEW s, NEW C, NEW A,
         GoodSync(r, s, C, A), s.ready, AllSyncReady(r, s)
  PROVE  Agreed(C, A)
<1>1. \A q \in s.rows[s.my].recv : q \in A
  BY DEF GoodSync, AllSyncReady
<1>2. \A t \in Transitions : \E i \in DOMAIN s.rows :
         /\ s.rows[i].trans = t /\ s.rows[i].holds
         /\ s.rows[i].robot \in s.rows[s.my].recv
  BY DEF GoodSync, IsSyncComplete, FirstBeliever
<1>3. QED
  BY <1>1, <1>2 DEF GoodSync, Agreed, Agreement!Agreed

LEMMA ReadyMessagesAreGood ==
  ASSUME NEW r \in Robots, NEW s, NEW C, NEW A,
         s \in Synchronisation, s.my \in DOMAIN s.rows, r \in A,
         \A i \in DOMAIN s.rows :
           s.rows[i].holds => <<s.rows[i].robot, s.rows[i].trans>> \in C
  PROVE  /\ \A m \in ReadyMessages(r, s) : GoodMessage(m, C, A)
         /\ MkReady(r) \in ReadyMessages(r, s)
<1>1. s.rows[s.my] \in Row
  BY DEF Synchronisation
<1>2. GoodMessage(MkTalk(r, DataOf(s.rows[s.my])), C, A)
  BY <1>1, DataOfRow, TalkIsGood
<1>3. QED
  BY <1>2, ReadyIsGood DEF ReadyMessages

LEMMA ChangeOwnDataGood ==
  ASSUME NEW r \in Robots, NEW t \in Transitions, NEW h \in BOOLEAN,
         NEW s, NEW C, NEW A, NEW res,
         GoodSync(r, s, C, A),
         h => <<r, t>> \in C,
         res = ChangeOwnData(r, s, t, h)
  PROVE  /\ GoodSync(r, res.sync, C, Announced(A, r, res.sent))
         /\ \A m \in res.sent : GoodMessage(m, C, Announced(A, r, res.sent))
         /\ MkReady(r) \in res.sent => Covered(C)
<1> DEFINE d    == MkData(r, t, h)
           s1   == [s EXCEPT !.ready = @ /\ h]
           same == s.my # 0 /\ SameData(s.rows[s.my], d)
           s2   == IF s.my # 0
                   THEN [s1 EXCEPT !.rows = [@ EXCEPT ![s.my] = MkRow(d, {r})],
                                   !.ready = FALSE]
                   ELSE [s1 EXCEPT !.rows = Append(@, MkRow(d, {r})),
                                   !.my = Len(s.rows) + 1]
           s3   == [s2 EXCEPT !.ready = TRUE]
           B    == Announced(A, r, res.sent)
<1>0. A \subseteq B
  BY DEF Announced
<1>1. s \in Synchronisation /\ s.rows \in Seq(Row) /\ s.my \in Nat
  BY DEF GoodSync, Synchronisation
<1>2. d \in SyncData /\ MkRow(d, {r}) \in Row
  BY DEF MkData, MkRow, SyncData, Row
<1>3. CASE same
  <2>1. res.sync = s1 /\ res.sent = {}
    BY <1>3 DEF ChangeOwnData
  <2>2. GoodSync(r, s1, C, A)
    BY <1>1 DEF GoodSync, Synchronisation, IsSyncComplete, FirstBeliever
  <2>3. QED
    BY <2>1, <2>2 DEF Announced
<1>4. CASE ~ same
  <2>1. s2 \in Synchronisation
    <3>1. s1 \in Synchronisation /\ s1.rows = s.rows /\ s1.my = s.my
      BY <1>1 DEF Synchronisation
    <3>2. CASE s.my = 0
      <4>1. Append(s1.rows, MkRow(d, {r})) \in Seq(Row) /\ Len(s.rows) + 1 \in Nat
        BY <1>1, <1>2, <3>1
      <4>2. QED
        BY <3>1, <3>2, <4>1 DEF Synchronisation
    <3>3. CASE s.my # 0
      <4>1. [s1.rows EXCEPT ![s.my] = MkRow(d, {r})] \in Seq(Row)
        <5>1. s.my \in 1..Len(s1.rows) /\ s1.rows \in Seq(Row)
          BY <1>1, <3>1, <3>3 DEF GoodSync
        <5>2. QED
          BY <1>2, <5>1, ExceptSeq
      <4>2. QED
        BY <3>1, <3>3, <4>1 DEF Synchronisation
    <3>4. QED
      BY <3>2, <3>3
  <2>2. /\ s2.my \in DOMAIN s2.rows
        /\ s2.rows[s2.my] = MkRow(d, {r})
        /\ \A i \in DOMAIN s2.rows : i # s2.my => i \in DOMAIN s.rows /\ s2.rows[i] = s.rows[i]
        /\ s2.readys = s.readys
    BY <1>1, <1>2 DEF GoodSync, Synchronisation
  <2>3. ~ s2.ready
    BY <1>1 DEF GoodSync, Synchronisation, IsSyncComplete
  <2>4. \A i \in DOMAIN s2.rows :
          s2.rows[i].holds => <<s2.rows[i].robot, s2.rows[i].trans>> \in C
    <3>1. MkRow(d, {r}).holds = h /\ MkRow(d, {r}).robot = r /\ MkRow(d, {r}).trans = t
      BY DEF MkRow, MkData
    <3>2. QED
      BY <2>2, <3>1 DEF GoodSync
  <2>5. /\ s2.rows[s2.my].robot = r
        /\ r \in s2.rows[s2.my].recv
    BY <2>2 DEF MkRow, MkData
  <2>6. GoodSync(r, s2, C, A)
    BY <2>1, <2>2, <2>3, <2>4, <2>5 DEF GoodSync
  <2>7. CASE IsSyncComplete(s2)
    <3>1. res.sync = s3 /\ res.sent = ReadyMessages(r, s2)
      BY <1>4, <2>7 DEF ChangeOwnData
    <3>2. s3 = [s2 EXCEPT !.ready = TRUE]
      OBVIOUS
    <3> HIDE DEF s2, s3
    <3>3. MkReady(r) \in res.sent /\ r \in B
      BY <3>1 DEF ReadyMessages, Announced
    <3> HIDE DEF B
    <3>4. \A m \in res.sent : GoodMessage(m, C, B)
      BY <2>1, <2>2, <2>4, <3>1, <3>3, ReadyMessagesAreGood
    <3>5. GoodSync(r, s2, C, B)
      BY <1>0, <2>6, GoodIsMonotone
    <3>6. GoodSync(r, s3, C, B)
      BY <2>7, <3>2, <3>3, <3>5 DEF GoodSync, Synchronisation, IsSyncComplete, FirstBeliever
    <3>7. Covered(C)
      BY <2>1, <2>4, <2>7, CompleteIsCovered
    <3>8. QED
      BY <3>1, <3>4, <3>6, <3>7 DEF B
  <2>8. CASE ~ IsSyncComplete(s2)
    <3>1. res.sync = s2 /\ res.sent = {MkTalk(r, d)}
      BY <1>4, <2>8 DEF ChangeOwnData
    <3> HIDE DEF s2
    <3>2. B = A /\ MkReady(r) \notin res.sent
      BY <3>1, TalkIsNotReady DEF Announced
    <3>3. d.holds => <<d.robot, d.trans>> \in C
      BY DEF MkData
    <3> HIDE DEF B, d
    <3>4. GoodMessage(MkTalk(r, d), C, A)
      BY <1>2, <3>3, TalkIsGood
    <3>5. QED
      BY <2>6, <3>1, <3>2, <3>4 DEF B
  <2>9. QED
    BY <2>7, <2>8
<1>5. QED
  BY <1>3, <1>4

\* A row more, or one more acknowledgement of a row: honest rows stay honest
\* and the own row stays our own.
LEMMA IntegrateDataGood ==
  ASSUME NEW r \in Robots, NEW s, NEW C, NEW A,
         GoodSync(r, s, C, A), ~ s.ready,
         NEW d \in SyncData, NEW sender \in Robots,
         d.holds => <<d.robot, d.trans>> \in C
  PROVE  GoodSync(r, [s EXCEPT !.rows = IntegrateData(s.rows, d, sender)], C, A)
<1> DEFINE known == \E i \in DOMAIN s.rows : SameData(s.rows[i], d)
           rows2 == IntegrateData(s.rows, d, sender)
           s1    == [s EXCEPT !.rows = rows2]
<1>1. s \in Synchronisation /\ s.rows \in Seq(Row)
  BY DEF GoodSync, Synchronisation
<1>2. /\ rows2 \in Seq(Row)
      /\ DOMAIN s.rows \subseteq DOMAIN rows2
      /\ \A i \in DOMAIN rows2 :
           rows2[i].holds => <<rows2[i].robot, rows2[i].trans>> \in C
      /\ \A i \in DOMAIN s.rows : /\ rows2[i].robot = s.rows[i].robot
                                  /\ s.rows[i].recv \subseteq rows2[i].recv
  <2>1. CASE known
    <3> DEFINE first(i) == SameData(s.rows[i], d) /\ \A j \in 1..(i - 1) : ~ SameData(s.rows[j], d)
               upd(i)   == IF first(i) THEN [s.rows[i] EXCEPT !.recv = @ \cup {sender}]
                           ELSE s.rows[i]
    <3>1. rows2 = [i \in DOMAIN s.rows |-> upd(i)]
      BY <2>1 DEF IntegrateData
    <3>2. \A i \in DOMAIN s.rows :
             /\ upd(i) \in Row
             /\ upd(i).robot = s.rows[i].robot
             /\ upd(i).trans = s.rows[i].trans
             /\ upd(i).holds = s.rows[i].holds
             /\ s.rows[i].recv \subseteq upd(i).recv
      <4>1. SUFFICES ASSUME NEW i \in DOMAIN s.rows, NEW row, row = s.rows[i]
                     PROVE  /\ upd(i) \in Row
                            /\ upd(i).robot = row.robot
                            /\ upd(i).trans = row.trans
                            /\ upd(i).holds = row.holds
                            /\ row.recv \subseteq upd(i).recv
        OBVIOUS
      <4>2. row \in Row
        BY <1>1, <4>1
      <4>3. CASE first(i)
        <5>1. upd(i) = [row EXCEPT !.recv = @ \cup {sender}]
          BY <4>1, <4>3
        <5>2. QED
          BY <4>2, <5>1 DEF Row
      <4>4. CASE ~ first(i)
        BY <4>1, <4>2, <4>4
      <4>5. QED
        BY <4>3, <4>4
    <3> HIDE DEF upd, rows2
    <3>3. DOMAIN rows2 = DOMAIN s.rows /\ \A i \in DOMAIN s.rows : rows2[i] = upd(i)
      BY <3>1
    <3>4. rows2 \in Seq(Row)
      <4>1. rows2 \in [1..Len(s.rows) -> Row] /\ Len(s.rows) \in Nat
        BY <1>1, <3>1, <3>2
      <4>2. QED
        BY <4>1
    <3>5. \A i \in DOMAIN s.rows : s.rows[i].holds => <<s.rows[i].robot, s.rows[i].trans>> \in C
      BY DEF GoodSync
    <3>6. QED
      BY <3>2, <3>3, <3>4, <3>5
  <2>2. CASE ~ known
    <3> DEFINE row == MkRow(d, {sender})
    <3>1. row \in Row /\ row.robot = d.robot /\ row.trans = d.trans /\ row.holds = d.holds
      BY DEF MkRow, Row, SyncData
    <3>2. rows2 = Append(s.rows, row)
      BY <2>2 DEF IntegrateData
    <3> HIDE DEF row, rows2
    <3>3. /\ rows2 \in Seq(Row)
          /\ DOMAIN rows2 = DOMAIN s.rows \cup {Len(s.rows) + 1}
          /\ rows2[Len(s.rows) + 1] = row
          /\ \A i \in DOMAIN s.rows : rows2[i] = s.rows[i]
      BY <1>1, <3>1, <3>2
    <3>4. QED
      BY <3>1, <3>3 DEF GoodSync
  <2>3. QED
    BY <2>1, <2>2
<1> HIDE DEF rows2
<1>3. /\ s1 \in Synchronisation
      /\ s1.rows = rows2 /\ s1.my = s.my /\ s1.ready = s.ready /\ s1.readys = s.readys
  BY <1>1, <1>2 DEF Synchronisation
<1>4. QED
  BY <1>2, <1>3 DEF GoodSync, rows2

LEMMA IntegrateSyncTalkGood ==
  ASSUME NEW r \in Robots, NEW s, NEW C, NEW A, NEW m, NEW res,
         GoodSync(r, s, C, A),
         GoodMessage(m, C, A), m.type = "talk",
         res = IntegrateSyncTalk(r, s, m)
  PROVE  /\ GoodSync(r, res.sync, C, Announced(A, r, res.sent))
         /\ \A x \in res.sent : GoodMessage(x, C, Announced(A, r, res.sent))
         /\ MkReady(r) \in res.sent => Covered(C)
         /\ res.done => /\ r \in Announced(A, r, res.sent)
                        /\ Agreed(C, Announced(A, r, res.sent))
<1> DEFINE s1 == [s EXCEPT !.rows = IntegrateData(@, m.data, m.sender)]
           s2 == [s1 EXCEPT !.ready = IsSyncComplete(s1)]
           B  == Announced(A, r, res.sent)
<1>1. CASE ~ (~ s.ready /\ IsSynching(s))
  <2>1. res.sync = s /\ res.sent = {} /\ ~ res.done
    BY <1>1 DEF IntegrateSyncTalk
  <2>2. QED
    BY <2>1 DEF Announced
<1>2. CASE ~ s.ready /\ IsSynching(s)
  <2>0. /\ res.sync = s2
        /\ res.sent = IF s2.ready THEN ReadyMessages(r, s2) ELSE {}
        /\ res.done = (s2.ready /\ AllSyncReady(r, s2))
    BY <1>2 DEF IntegrateSyncTalk, Integrate
  <2>1. /\ m.data \in SyncData /\ m.sender \in Robots
        /\ m.data.holds => <<m.data.robot, m.data.trans>> \in C
    BY DEF GoodMessage, Message, Talk, Ready
  <2>2. s1 = [s EXCEPT !.rows = IntegrateData(s.rows, m.data, m.sender)]
    OBVIOUS
  <2>3. GoodSync(r, s1, C, A)
    BY <1>2, <2>1, <2>2, IntegrateDataGood
  <2>4. s2 = [s1 EXCEPT !.ready = IsSyncComplete(s1)]
    OBVIOUS
  <2>5. ~ s1.ready
    BY <1>2, <2>2 DEF GoodSync, Synchronisation
  <2> HIDE DEF s1, s2
  <2>6. /\ s2.rows = s1.rows /\ s2.my = s1.my /\ s2.readys = s1.readys
        /\ s2.ready = IsSyncComplete(s1)
        /\ IsSyncComplete(s2) = IsSyncComplete(s1)
        /\ s2 \in Synchronisation
    BY <2>3, <2>4 DEF GoodSync, Synchronisation, IsSyncComplete, FirstBeliever
  <2>7. CASE ~ s2.ready
    <3>1. res.sent = {} /\ ~ res.done /\ B = A
      BY <2>0, <2>7 DEF Announced
    <3>2. GoodSync(r, s2, C, A)
      BY <2>3, <2>6, <2>7 DEF GoodSync
    <3>3. QED
      BY <2>0, <3>1, <3>2
  <2>8. CASE s2.ready
    <3>1. res.sent = ReadyMessages(r, s2)
      BY <2>0, <2>8
    <3>2. MkReady(r) \in res.sent /\ r \in B /\ A \subseteq B
      BY <3>1 DEF ReadyMessages, Announced
    <3> HIDE DEF B
    <3>3. s2.my \in DOMAIN s2.rows
      BY <2>3, <2>6, <2>8 DEF GoodSync, IsSyncComplete
    <3>4. \A i \in DOMAIN s2.rows :
            s2.rows[i].holds => <<s2.rows[i].robot, s2.rows[i].trans>> \in C
      BY <2>3, <2>6 DEF GoodSync
    <3>5. \A x \in res.sent : GoodMessage(x, C, B)
      BY <2>6, <3>1, <3>2, <3>3, <3>4, ReadyMessagesAreGood
    <3>6. GoodSync(r, s1, C, B)
      BY <2>3, <3>2, GoodIsMonotone
    <3>7. GoodSync(r, s2, C, B)
      BY <2>6, <2>8, <3>2, <3>6 DEF GoodSync
    <3>8. Covered(C)
      BY <2>6, <2>8, <3>4, CompleteIsCovered
    <3>9. res.done => Agreed(C, B)
      BY <2>0, <3>7, AllReadyIsAgreed DEF GoodSync
    <3>10. QED
      BY <2>0, <3>2, <3>5, <3>7, <3>8, <3>9 DEF B
  <2>9. QED
    BY <2>7, <2>8
<1>3. QED
  BY <1>1, <1>2

LEMMA IntegrateSyncReadyGood ==
  ASSUME NEW r \in Robots, NEW s, NEW C, NEW A, NEW m, NEW res,
         GoodSync(r, s, C, A),
         GoodMessage(m, C, A), m.type = "ready",
         res = IntegrateSyncReady(r, s, m)
  PROVE  /\ GoodSync(r, res.sync, C, A)
         /\ res.done => r \in A /\ Agreed(C, A)
<1> DEFINE s1 == [s EXCEPT !.readys = @ \cup {m.sender}]
<1>1. m.sender \in A /\ m.sender \in Robots
  BY DEF GoodMessage, Message, Talk, Ready
<1>2. GoodSync(r, s1, C, A)
  BY <1>1 DEF GoodSync, Synchronisation, IsSyncComplete, FirstBeliever
<1>3. res.sync = s1 /\ res.done = (s1.ready /\ AllSyncReady(r, s1))
  BY DEF IntegrateSyncReady
<1> HIDE DEF s1
<1>4. QED
  BY <1>2, <1>3, AllReadyIsAgreed DEF GoodSync

-------------------------------------------------------------------------------
(* The steps of the robots *)

\* The types of what a step changes besides the protocol's own state.
RobotTypes ==
  /\ \A r \in Robots : at[r] \in OutTransitions[r] \cup {NoTrans}
  /\ at \in [Robots -> Transitions \cup {NoTrans}]
  /\ entries \in [Robots -> 0..MaxEntries]
  /\ visited \subseteq Robots
  /\ ticks \in [Robots -> 0..StaleAge]
  /\ synchSet \subseteq Robots
  /\ doneIn \in [Robots -> 0..MaxEntries]

\* AgreementInv, said robot by robot and message by message.
GoodState ==
  /\ RobotTypes
  /\ sync \in [Robots -> Synchronisation]
  /\ \A r \in Robots : GoodSync(r, sync[r], claimed, announced)
  /\ net \in [Robots -> SUBSET Message]
  /\ \A r \in Robots : \A m \in net[r] : GoodMessage(m, claimed, announced)
  /\ claimed \subseteq Robots \X Transitions
  /\ announced \subseteq Robots
  /\ synched # {} => synched \subseteq announced /\ Agreed(claimed, announced)
  /\ announced # {} => Covered(claimed)

LEMMA GoodStateIsInv == GoodState <=> AgreementInv
<1>1. ASSUME GoodState PROVE AgreementInv
  <2>1. TypeOK
    <3>1. synched \subseteq Robots
      BY <1>1 DEF GoodState
    <3>2. QED
      BY <1>1, <3>1 DEF GoodState, RobotTypes, TypeOK
  <2>2. HonestMessages
    BY <1>1 DEF GoodState, GoodMessage, HonestMessages, Message, Talk, Ready
  <2>3. HonestMatrix /\ OwnRow /\ ReadyIsComplete
    BY <1>1 DEF GoodState, GoodSync, HonestMatrix, OwnRow, ReadyIsComplete
  <2>4. SynchedMeansAgreed /\ AnnouncedMeansCovered
    BY <1>1 DEF GoodState, SynchedMeansAgreed, AnnouncedMeansCovered, Covered, Agreed
  <2>5. QED
    BY <2>1, <2>2, <2>3, <2>4 DEF AgreementInv
<1>2. ASSUME AgreementInv PROVE GoodState
  <2>1. RobotTypes
    BY <1>2 DEF AgreementInv, TypeOK, RobotTypes
  <2>2. \A r \in Robots : GoodSync(r, sync[r], claimed, announced)
    BY <1>2 DEF AgreementInv, TypeOK, HonestMatrix, OwnRow, ReadyIsComplete, GoodSync
  <2>3. \A r \in Robots : \A m \in net[r] : GoodMessage(m, claimed, announced)
    <3>1. SUFFICES ASSUME NEW r \in Robots, NEW m \in net[r]
                   PROVE  GoodMessage(m, claimed, announced)
      OBVIOUS
    <3>2. m \in Message
      BY <1>2 DEF AgreementInv, TypeOK
    <3>3. QED
      BY <1>2, <3>2 DEF AgreementInv, HonestMessages, GoodMessage, Message, Talk, Ready
  <2>4. QED
    BY <1>2, <2>1, <2>2, <2>3
    DEF AgreementInv, TypeOK, SynchedMeansAgreed, AnnouncedMeansCovered, GoodState,
        Covered, Agreed
<1>3. QED
  BY <1>1, <1>2

-------------------------------------------------------------------------------
(* What all steps have in common *)

\* r's step sends msgs, announces at most itself and leaves the other robots'
\* synchronisations alone.
GoodStep(r, msgs) ==
  /\ Agreement!Claim(r)
  /\ announced' = Announced(announced, r, msgs)
  /\ MkReady(r) \in msgs => Covered(claimed')
  /\ Agreement!Synchronise(r) \/ Agreement!Follow(r) \/ UNCHANGED synched
  /\ sync' = [sync EXCEPT ![r] = sync'[r]]
  /\ GoodSync(r, sync'[r], claimed', announced')
  /\ \A m \in msgs : GoodMessage(m, claimed', announced')
  /\ net' \in [Robots -> SUBSET Message]
  /\ \A q \in Robots : net'[q] \subseteq net[q] \cup msgs

LEMMA GoodStepImplements ==
  ASSUME NEW r \in Robots, NEW msgs, GoodStep(r, msgs)
  PROVE  Agreement!Step(r)
BY DEF GoodStep, Agreement!Step, Agreement!Announce, Announced, Covered

LEMMA GoodStepPreserves ==
  ASSUME GoodState, NEW r \in Robots, NEW msgs, GoodStep(r, msgs), RobotTypes'
  PROVE  GoodState'
<1>1. claimed \subseteq claimed' /\ claimed' \subseteq Robots \X Transitions
  BY DEF GoodStep, GoodState, Agreement!Claim
<1>2. announced \subseteq announced' /\ announced' \subseteq Robots
  BY DEF GoodStep, GoodState, Announced
<1>3. /\ \A q, s : GoodSync(q, s, claimed, announced) => GoodSync(q, s, claimed', announced')
      /\ \A m : GoodMessage(m, claimed, announced) => GoodMessage(m, claimed', announced')
      /\ Covered(claimed) => Covered(claimed')
      /\ Agreed(claimed, announced) => Agreed(claimed', announced')
  BY <1>1, <1>2, GoodIsMonotone
<1>4. sync' \in [Robots -> Synchronisation]
  <2>1. sync'[r] \in Synchronisation
    BY DEF GoodStep, GoodSync
  <2>2. QED
    BY <2>1 DEF GoodStep, GoodState
<1>5. \A q \in Robots : GoodSync(q, sync'[q], claimed', announced')
  <2>1. ASSUME NEW q \in Robots, q # r
        PROVE  GoodSync(q, sync'[q], claimed', announced')
    <3>1. sync'[q] = sync[q]
      BY <2>1 DEF GoodStep, GoodState
    <3>2. QED
      BY <1>3, <3>1 DEF GoodState
  <2>2. QED
    BY <2>1 DEF GoodStep
<1>6. \A q \in Robots : \A m \in net'[q] : GoodMessage(m, claimed', announced')
  BY <1>3 DEF GoodStep, GoodState
<1>7. announced' # {} => Covered(claimed')
  BY <1>3 DEF GoodStep, GoodState, Announced
<1>8. synched' # {} => synched' \subseteq announced' /\ Agreed(claimed', announced')
  <2>1. CASE Agreement!Synchronise(r)
    BY <1>2, <2>1 DEF GoodState, Agreement!Synchronise, Agreed
  <2>2. CASE Agreement!Follow(r) \/ UNCHANGED synched
    <3>1. synched' \subseteq synched
      BY <2>2 DEF Agreement!Follow
    <3>2. QED
      BY <1>2, <1>3, <3>1 DEF GoodState
  <2>3. QED
    BY <2>1, <2>2 DEF GoodStep
<1>9. QED
  BY <1>1, <1>2, <1>4, <1>5, <1>6, <1>7, <1>8 DEF GoodState, GoodStep, Covered, Agreed, GoodSync, GoodMessage

-------------------------------------------------------------------------------
(* The actions *)

Good(r) == (\E msgs : GoodStep(r, msgs)) /\ RobotTypes'

\* A step that claims and announces nothing and does not touch synched.
LEMMA QuietStep ==
  ASSUME GoodState, NEW r \in Robots, NEW msgs,
         UNCHANGED <<claimed, announced, synched>>,
         sync' = [sync EXCEPT ![r] = sync'[r]],
         GoodSync(r, sync'[r], claimed, announced),
         \A m \in msgs : GoodMessage(m, claimed, announced) /\ m # MkReady(r),
         net' \in [Robots -> SUBSET Message],
         \A q \in Robots : net'[q] \subseteq net[q] \cup msgs
  PROVE  GoodStep(r, msgs)
<1>1. Agreement!Claim(r)
  <2>1. claimed' = claimed \cup ({r} \X {}) /\ {} \in SUBSET Transitions
    OBVIOUS
  <2>2. QED
    BY <2>1 DEF Agreement!Claim
<1>2. MkReady(r) \notin msgs
  OBVIOUS
<1>3. QED
  BY <1>1, <1>2 DEF GoodStep, Announced

LEMMA BroadcastRange ==
  ASSUME NEW n \in [Robots -> SUBSET Message], NEW r \in Robots, NEW msgs,
         msgs \subseteq Message
  PROVE  /\ Broadcast(n, r, msgs) \in [Robots -> SUBSET Message]
         /\ \A q \in Robots : Broadcast(n, r, msgs)[q] \subseteq n[q] \cup msgs
BY DEF Broadcast

LEMMA SyncOfRobot ==
  ASSUME GoodState, NEW r \in Robots
  PROVE  sync[r] \in Synchronisation /\ GoodSync(r, sync[r], claimed, announced)
BY DEF GoodState

\* The robot's own row as a message.
LEMMA OwnRowTalk ==
  ASSUME GoodState, NEW r \in Robots, sync[r].my # 0
  PROVE  /\ GoodMessage(MkTalk(r, DataOf(sync[r].rows[sync[r].my])), claimed, announced)
         /\ GoodMessage(MkTalk(r, [DataOf(sync[r].rows[sync[r].my]) EXCEPT !.holds = FALSE]),
                        claimed, announced)
<1> DEFINE row == sync[r].rows[sync[r].my]
           d   == [DataOf(row) EXCEPT !.holds = FALSE]
<1>1. row \in Row /\ (row.holds => <<row.robot, row.trans>> \in claimed)
  BY SyncOfRobot DEF GoodSync, Synchronisation
<1> HIDE DEF row
<1>2. DataOf(row) \in SyncData /\ (DataOf(row).holds => <<DataOf(row).robot, DataOf(row).trans>> \in claimed)
  BY <1>1, DataOfRow
<1>3. d \in SyncData /\ ~ d.holds
  BY <1>2 DEF SyncData
<1> HIDE DEF d
<1>4. GoodMessage(MkTalk(r, DataOf(row)), claimed, announced) /\ GoodMessage(MkTalk(r, d), claimed, announced)
  BY <1>2, <1>3, TalkIsGood
<1>5. QED
  BY <1>4 DEF row, d

LEMMA MoveGood ==
  ASSUME GoodState, NEW r \in Robots,
         (\E t \in OutTransitions[r] : Enter(r, t)) \/ Leave(r)
  PROVE  Good(r)
<1>1. /\ UNCHANGED <<claimed, announced, synched, sync, net>>
      /\ RobotTypes'
  <2>1. CASE \E t \in OutTransitions[r] : Enter(r, t)
    <3>1. PICK t \in OutTransitions[r] : Enter(r, t)
      BY <2>1
    <3>2. t \in Transitions
      BY ConstantsAssumption
    <3>3. entries[r] + 1 \in 0..MaxEntries
      BY <3>1, ConstantsAssumption DEF Enter, GoodState, RobotTypes
    <3>4. QED
      BY <3>1, <3>2, <3>3 DEF Enter, GoodState, RobotTypes, history
  <2>2. CASE Leave(r)
    BY <2>2 DEF Leave, GoodState, RobotTypes, history
  <2>3. QED
    BY <2>1, <2>2
<1>2. GoodStep(r, {})
  BY <1>1, QuietStep DEF GoodState
<1>3. QED
  BY <1>1, <1>2 DEF Good

\* An age or tick counter advanced by one tick() stays saturated.
LEMMA TickTypes ==
  ASSUME GoodState, NEW r \in Robots
  PROVE  /\ \A n \in Nat : Saturate(n + TickCount(r)) \in 0..StaleAge
         /\ AdvanceTicks(r) => /\ visited' \subseteq Robots
                               /\ ticks' \in [Robots -> 0..StaleAge]
<1>1. TickCount(r) \in Nat
  BY ConstantsAssumption DEF TickCount
<1>2. \A n \in Nat : Saturate(n + TickCount(r)) \in 0..StaleAge
  BY <1>1 DEF Saturate, StaleAge
<1>3. ticks[r] \in Nat
  BY DEF GoodState, RobotTypes, StaleAge
<1>4. QED
  BY <1>2, <1>3 DEF AdvanceTicks, GoodState, RobotTypes

LEMMA TickKeepGood ==
  ASSUME GoodState, NEW r \in Robots, NEW timedOut \in BOOLEAN, TickKeep(r, timedOut)
  PROVE  Good(r)
<1> DEFINE msgs == IF timedOut THEN {MkTalk(r, DataOf(sync[r].rows[sync[r].my]))} ELSE {}
           aged == [sync[r] EXCEPT !.age = Saturate(@ + TickCount(r))]
<1>1. RobotTypes'
  BY TickTypes DEF TickKeep, GoodState, RobotTypes, history
<1>2. sync' = [sync EXCEPT ![r] = sync'[r]] /\ GoodSync(r, sync'[r], claimed, announced)
  <2>1. Saturate(sync[r].age + TickCount(r)) \in 0..StaleAge
    BY TickTypes, SyncOfRobot DEF Synchronisation, StaleAge
  <2>2. sync[r] \in Synchronisation /\ GoodSync(r, sync[r], claimed, announced)
    BY SyncOfRobot
  <2>3. GoodSync(r, aged, claimed, announced)
    BY <2>1, <2>2, AgeIsGood
  <2>4. sync' = [sync EXCEPT ![r] = aged] \/ sync' = sync
    BY DEF TickKeep
  <2> HIDE DEF aged
  <2>5. QED
    BY <2>2, <2>3, <2>4 DEF GoodState
<1>3. \A m \in msgs : GoodMessage(m, claimed, announced) /\ m # MkReady(r)
  BY OwnRowTalk, TalkIsNotReady DEF TickKeep
<1>4. net' \in [Robots -> SUBSET Message] /\ \A q \in Robots : net'[q] \subseteq net[q] \cup msgs
  <2>1. msgs \subseteq Message
    BY <1>3 DEF GoodMessage
  <2>2. net' = Broadcast(net, r, msgs) \/ net' = net
    BY DEF TickKeep
  <2>3. QED
    BY <2>1, <2>2, BroadcastRange DEF GoodState
<1> HIDE DEF msgs
<1>5. GoodStep(r, msgs)
  BY <1>2, <1>3, <1>4, QuietStep DEF TickKeep, history
<1>6. QED
  BY <1>1, <1>5 DEF Good

LEMMA DropGood ==
  ASSUME GoodState, NEW r \in Robots,
         TickStale(r) \/ \E timedOut \in BOOLEAN : TickSyncTimeOut(r, timedOut)
  PROVE  Good(r)
<1> DEFINE row  == sync[r].rows[sync[r].my]
           msgs == IF sync[r].my = 0 THEN {}
                   ELSE {MkTalk(r, DataOf(row)),
                         MkTalk(r, [DataOf(row) EXCEPT !.holds = FALSE])}
<1>1. RobotTypes' /\ UNCHANGED <<claimed, announced, synched>>
  BY TickTypes DEF TickStale, TickSyncTimeOut, GoodState, RobotTypes, history
<1>2. sync' = [sync EXCEPT ![r] = sync'[r]] /\ GoodSync(r, sync'[r], claimed, announced)
  <2>1. sync' = [sync EXCEPT ![r] = EmptySync]
    BY DEF TickStale, TickSyncTimeOut
  <2>2. GoodSync(r, EmptySync, claimed, announced)
    BY EmptyIsGood DEF EmptySync, StaleAge
  <2>3. QED
    BY <2>1, <2>2 DEF GoodState
<1>3. \A m \in msgs : GoodMessage(m, claimed, announced) /\ m # MkReady(r)
  BY OwnRowTalk, TalkIsNotReady
<1>4. net' \in [Robots -> SUBSET Message] /\ \A q \in Robots : net'[q] \subseteq net[q] \cup msgs
  <2>1. msgs \subseteq Message
    BY <1>3 DEF GoodMessage
  <2>2. \E sent \in SUBSET msgs : net' = Broadcast(net, r, sent) \/ net' = net
    <3>1. CASE TickStale(r)
      BY <3>1 DEF TickStale
    <3>2. CASE \E timedOut \in BOOLEAN : TickSyncTimeOut(r, timedOut)
      BY <3>2 DEF TickSyncTimeOut
    <3>3. QED
      BY <3>1, <3>2
  <2> HIDE DEF msgs
  <2>3. PICK sent \in SUBSET msgs : net' = Broadcast(net, r, sent) \/ net' = net
    BY <2>2
  <2>4. net \in [Robots -> SUBSET Message] /\ sent \subseteq Message
    BY <2>1 DEF GoodState
  <2>5. QED
    BY <2>3, <2>4, BroadcastRange
<1> HIDE DEF msgs
<1>5. GoodStep(r, msgs)
  BY <1>1, <1>2, <1>3, <1>4, QuietStep
<1>6. QED
  BY <1>1, <1>5 DEF Good

\* What setSynchronisation does to the protocol's own state.
LEMMA SetSynchronisationGood ==
  ASSUME GoodState, NEW r \in Robots, NEW h \in BOOLEAN,
         at[r] # NoTrans, SetSynchronisation(r, h),
         Agreement!Follow(r) \/ UNCHANGED synched
  PROVE  \E msgs : GoodStep(r, msgs)
<1> DEFINE s    == [sync[r] EXCEPT !.age = 0]
           T    == IF h THEN {at[r]} ELSE {}
           res  == ChangeOwnData(r, s, at[r], h)
           msgs == res.sent
<1>1. at[r] \in Transitions
  BY DEF GoodState, RobotTypes
<1>2. claimed' = claimed \cup ({r} \X T) /\ T \in SUBSET Transitions
  BY <1>1 DEF SetSynchronisation
<1>3. GoodSync(r, s, claimed, announced)
  <2>1. 0 \in 0..StaleAge /\ GoodSync(r, sync[r], claimed, announced)
    BY SyncOfRobot DEF StaleAge
  <2>2. QED
    BY <2>1, AgeIsGood
<1>4. GoodSync(r, s, claimed', announced)
  BY <1>2, <1>3, GoodIsMonotone
<1>5. h => <<r, at[r]>> \in claimed'
  BY <1>2
<1>6. sync' = [sync EXCEPT ![r] = res.sync] /\ announced' = Announced(announced, r, msgs)
      /\ net' = Broadcast(net, r, msgs)
  BY DEF SetSynchronisation
<1> HIDE DEF res, s, T
<1>7. /\ GoodSync(r, res.sync, claimed', announced')
      /\ \A m \in msgs : GoodMessage(m, claimed', announced')
      /\ MkReady(r) \in msgs => Covered(claimed')
  BY <1>1, <1>4, <1>5, <1>6, ChangeOwnDataGood DEF res
<1> HIDE DEF msgs
<1>8. net' \in [Robots -> SUBSET Message] /\ \A q \in Robots : net'[q] \subseteq net[q] \cup msgs
  <2>1. msgs \subseteq Message
    BY <1>7 DEF GoodMessage
  <2>2. QED
    BY <1>6, <2>1, BroadcastRange DEF GoodState
<1>9. sync' = [sync EXCEPT ![r] = sync'[r]] /\ sync'[r] = res.sync
  BY <1>6 DEF GoodState
<1>10. Agreement!Claim(r)
  BY <1>2 DEF Agreement!Claim
<1>11. GoodStep(r, msgs)
  BY <1>6, <1>7, <1>8, <1>9, <1>10 DEF GoodStep
<1>12. QED
  BY <1>11

LEMMA VisitGood ==
  ASSUME GoodState, NEW r \in Robots,
         \/ \E h \in CondValues[r] : VisitWait(r, h)
         \/ VisitFollow(r)
         \/ VisitRevoke(r)
  PROVE  Good(r)
<1>1. CASE \E h \in CondValues[r] : VisitWait(r, h)
  <2>1. PICK h \in CondValues[r] : VisitWait(r, h)
    BY <1>1
  <2>2. h \in BOOLEAN
    BY ConstantsAssumption
  <2>3. \E msgs : GoodStep(r, msgs)
    BY <2>1, <2>2, SetSynchronisationGood DEF VisitWait
  <2>4. RobotTypes'
    BY <2>1 DEF VisitWait, SetSynchronisation, GoodState, RobotTypes
  <2>5. QED
    BY <2>3, <2>4 DEF Good
<1>2. CASE VisitFollow(r)
  <2>1. Agreement!Follow(r) /\ UNCHANGED <<sync, net, claimed, announced>>
    BY <1>2 DEF VisitFollow, Agreement!Follow, history
  <2>2. Agreement!Claim(r)
    <3>1. claimed' = claimed \cup ({r} \X {}) /\ {} \in SUBSET Transitions
      BY <2>1
    <3>2. QED
      BY <3>1 DEF Agreement!Claim
  <2>3. GoodStep(r, {})
    BY <2>1, <2>2 DEF GoodStep, GoodState, Announced
  <2>4. RobotTypes'
    BY <1>2 DEF VisitFollow, GoodState, RobotTypes, history
  <2>5. QED
    BY <2>3, <2>4 DEF Good
<1>3. CASE VisitRevoke(r)
  <2>1. Agreement!Follow(r)
    BY <1>3 DEF VisitRevoke, Agreement!Follow
  <2>2. \E msgs : GoodStep(r, msgs)
    BY <1>3, <2>1, SetSynchronisationGood DEF VisitRevoke
  <2>3. RobotTypes'
    BY <1>3 DEF VisitRevoke, SetSynchronisation, GoodState, RobotTypes
  <2>4. QED
    BY <2>2, <2>3 DEF Good
<1>4. QED
  BY <1>1, <1>2, <1>3

\* What a handler leaves behind when it may have concluded the synchronisation.
LEMMA ConcludeGood ==
  ASSUME GoodState, NEW r \in Robots, NEW res, Conclude(r, res),
         NEW C, NEW A, GoodSync(r, res.sync, C, A)
  PROVE  /\ sync' = [sync EXCEPT ![r] = sync'[r]]
         /\ GoodSync(r, sync'[r], C, A)
         /\ synched' = IF res.done THEN synched \cup {r} ELSE synched
         /\ synchSet' \subseteq Robots
         /\ doneIn' \in [Robots -> 0..MaxEntries]
<1>1. GoodSync(r, EmptySync, C, A)
  BY EmptyIsGood DEF EmptySync, StaleAge
<1>2. /\ sync' = [sync EXCEPT ![r] = sync'[r]]
      /\ sync'[r] = IF res.done THEN EmptySync ELSE res.sync
  BY DEF Conclude, GoodState
<1>3. GoodSync(r, sync'[r], C, A)
  BY <1>1, <1>2
<1>4. QED
  BY <1>2, <1>3 DEF Conclude, GoodState, RobotTypes

LEMMA OnSyncTalkGood ==
  ASSUME GoodState, NEW r \in Robots, NEW m \in net[r], OnSyncTalk(r, m)
  PROVE  Good(r)
<1> DEFINE s     == IF r \in synchSet THEN sync[r] ELSE NewSync(r)
           res   == IntegrateSyncTalk(r, s, m)
           msgs  == res.sent \cup Acks(r, m, res)
           taken == [net EXCEPT ![r] = @ \ {m}]
<1>1. /\ Conclude(r, res)
      /\ net' = Broadcast(taken, r, msgs)
      /\ announced' = Announced(announced, r, res.sent)
      /\ UNCHANGED <<at, entries, visited, ticks, claimed>>
      /\ m.type = "talk"
  BY DEF OnSyncTalk
<1>2. GoodMessage(m, claimed, announced) /\ m.data \in SyncData
      /\ (m.data.holds => <<m.data.robot, m.data.trans>> \in claimed)
  BY <1>1 DEF GoodState, GoodMessage, Message, Talk, Ready
<1>3. GoodSync(r, s, claimed, announced)
  <2>1. GoodSync(r, NewSync(r), claimed, announced)
    BY EmptyIsGood DEF NewSync, GoodState, RobotTypes
  <2>2. QED
    BY <2>1, SyncOfRobot
<1> HIDE DEF s, res
<1>4. /\ GoodSync(r, res.sync, claimed, announced')
      /\ \A x \in res.sent : GoodMessage(x, claimed, announced')
      /\ MkReady(r) \in res.sent => Covered(claimed)
      /\ res.done => r \in announced' /\ Agreed(claimed, announced')
  BY <1>1, <1>2, <1>3, IntegrateSyncTalkGood DEF res
<1>5. /\ \A x \in Acks(r, m, res) : GoodMessage(x, claimed, announced')
      /\ MkReady(r) \in msgs <=> MkReady(r) \in res.sent
  BY <1>2, TalkIsGood, TalkIsNotReady DEF Acks
<1>6. \A x \in msgs : GoodMessage(x, claimed, announced')
  BY <1>4, <1>5
<1>7. Announced(announced, r, msgs) = announced'
  BY <1>1, <1>5 DEF Announced
<1>8. net' \in [Robots -> SUBSET Message] /\ \A q \in Robots : net'[q] \subseteq net[q] \cup msgs
  <2>1. taken \in [Robots -> SUBSET Message] /\ \A q \in Robots : taken[q] \subseteq net[q]
    BY DEF GoodState
  <2>2. msgs \subseteq Message
    BY <1>6 DEF GoodMessage
  <2> HIDE DEF taken, msgs
  <2>3. QED
    BY <1>1, <2>1, <2>2, BroadcastRange
<1> HIDE DEF msgs, taken
<1>9. /\ sync' = [sync EXCEPT ![r] = sync'[r]]
      /\ GoodSync(r, sync'[r], claimed, announced')
      /\ synched' = IF res.done THEN synched \cup {r} ELSE synched
      /\ synchSet' \subseteq Robots
      /\ doneIn' \in [Robots -> 0..MaxEntries]
  BY <1>1, <1>4, ConcludeGood
<1>10. Agreement!Claim(r)
  <2>1. claimed' = claimed \cup ({r} \X {}) /\ {} \in SUBSET Transitions
    BY <1>1
  <2>2. QED
    BY <2>1 DEF Agreement!Claim
<1>11. Agreement!Synchronise(r) \/ UNCHANGED synched
  BY <1>1, <1>4, <1>9 DEF Agreement!Synchronise, Agreed
<1>12. claimed' = claimed
  BY <1>1
<1>13. GoodStep(r, msgs)
  BY <1>4, <1>5, <1>6, <1>7, <1>8, <1>9, <1>10, <1>11, <1>12 DEF GoodStep
<1>14. RobotTypes'
  BY <1>1, <1>9 DEF GoodState, RobotTypes
<1>15. QED
  BY <1>13, <1>14 DEF Good

LEMMA OnSyncReadyGood ==
  ASSUME GoodState, NEW r \in Robots, NEW m \in net[r], OnSyncReady(r, m)
  PROVE  Good(r)
<1> DEFINE res == IntegrateSyncReady(r, sync[r], m)
<1>1. /\ m.type = "ready"
      /\ net' = [net EXCEPT ![r] = @ \ {m}]
      /\ UNCHANGED <<at, entries, visited, ticks, claimed, announced>>
      /\ Conclude(r, res) \/ UNCHANGED <<synchSet, sync, synched, doneIn>>
  BY DEF OnSyncReady
<1>2. net' \in [Robots -> SUBSET Message] /\ \A q \in Robots : net'[q] \subseteq net[q] \cup {}
  BY <1>1 DEF GoodState
<1>3. GoodMessage(m, claimed, announced) /\ GoodSync(r, sync[r], claimed, announced)
  BY SyncOfRobot DEF GoodState
<1> HIDE DEF res
<1>4. /\ GoodSync(r, res.sync, claimed, announced)
      /\ res.done => r \in announced /\ Agreed(claimed, announced)
  BY <1>1, <1>3, IntegrateSyncReadyGood DEF res
<1>5. /\ sync' = [sync EXCEPT ![r] = sync'[r]]
      /\ GoodSync(r, sync'[r], claimed, announced)
      /\ Agreement!Synchronise(r) \/ UNCHANGED synched
      /\ synchSet' \subseteq Robots
      /\ doneIn' \in [Robots -> 0..MaxEntries]
  <2>1. CASE Conclude(r, res)
    <3>1. synched' = IF res.done THEN synched \cup {r} ELSE synched
      BY <1>4, <2>1, ConcludeGood
    <3>2. Agreement!Synchronise(r) \/ UNCHANGED synched
      BY <1>1, <1>4, <3>1 DEF Agreement!Synchronise, Agreed
    <3>3. QED
      BY <1>4, <2>1, <3>2, ConcludeGood
  <2>2. CASE UNCHANGED <<synchSet, sync, synched, doneIn>>
    BY <1>3, <2>2 DEF GoodState, RobotTypes
  <2>3. QED
    BY <1>1, <2>1, <2>2
<1>6. Agreement!Claim(r)
  <2>1. claimed' = claimed \cup ({r} \X {}) /\ {} \in SUBSET Transitions
    BY <1>1
  <2>2. QED
    BY <2>1 DEF Agreement!Claim
<1>7. GoodStep(r, {})
  BY <1>1, <1>2, <1>5, <1>6 DEF GoodStep, Announced
<1>8. RobotTypes'
  BY <1>1, <1>5 DEF GoodState, RobotTypes
<1>9. QED
  BY <1>7, <1>8 DEF Good

LEMMA LoseGood ==
  ASSUME GoodState, NEW r \in Robots, NEW m \in net[r], Lose(r, m)
  PROVE  Good(r)
<1>1. RobotTypes' /\ UNCHANGED <<claimed, announced, synched, sync>>
  BY DEF Lose, GoodState, RobotTypes, robotVars, history
<1>2. net' \in [Robots -> SUBSET Message] /\ \A q \in Robots : net'[q] \subseteq net[q] \cup {}
  BY DEF Lose, GoodState
<1>3. GoodStep(r, {})
  BY <1>1, <1>2, SyncOfRobot, QuietStep DEF GoodState
<1>4. QED
  BY <1>1, <1>3 DEF Good

-------------------------------------------------------------------------------
(* The theorems *)

LEMMA InitGood == Init => GoodState /\ Agreement!Init
<1>1. SUFFICES ASSUME Init PROVE GoodState /\ Agreement!Init
  OBVIOUS
<1>2. RobotTypes
  <2>1. 0 \in 0..MaxEntries /\ InitTicks \in 0..StaleAge
    BY ConstantsAssumption DEF StaleAge
  <2>2. QED
    BY <1>1, <2>1 DEF Init, RobotTypes
<1>3. \A r \in Robots : GoodSync(r, EmptySync, claimed, announced)
  BY EmptyIsGood DEF EmptySync, StaleAge
<1>4. sync = [r \in Robots |-> EmptySync] /\ net = [r \in Robots |-> {}]
      /\ claimed = {} /\ announced = {} /\ synched = {}
  BY <1>1 DEF Init
<1>5. sync \in [Robots -> Synchronisation]
  BY <1>3, <1>4 DEF GoodSync
<1>6. GoodState
  BY <1>2, <1>3, <1>4, <1>5 DEF GoodState
<1>7. QED
  BY <1>4, <1>6 DEF Agreement!Init

\* Every step of a robot is good.
LEMMA StepOfRobot ==
  ASSUME GoodState, NEW r \in Robots,
         \/ (\E t \in OutTransitions[r] : Enter(r, t)) \/ Leave(r)
         \/ \E timedOut \in BOOLEAN : TickKeep(r, timedOut)
         \/ TickStale(r) \/ \E timedOut \in BOOLEAN : TickSyncTimeOut(r, timedOut)
         \/ (\E h \in CondValues[r] : VisitWait(r, h)) \/ VisitFollow(r) \/ VisitRevoke(r)
         \/ \E m \in net[r] : OnSyncTalk(r, m)
         \/ \E m \in net[r] : OnSyncReady(r, m)
         \/ \E m \in net[r] : Lose(r, m)
  PROVE  Good(r)
<1>1. CASE (\E t \in OutTransitions[r] : Enter(r, t)) \/ Leave(r)
  BY <1>1, MoveGood
<1>2. CASE \E timedOut \in BOOLEAN : TickKeep(r, timedOut)
  BY <1>2, TickKeepGood
<1>3. CASE TickStale(r) \/ \E timedOut \in BOOLEAN : TickSyncTimeOut(r, timedOut)
  BY <1>3, DropGood
<1>4. CASE (\E h \in CondValues[r] : VisitWait(r, h)) \/ VisitFollow(r) \/ VisitRevoke(r)
  BY <1>4, VisitGood
<1>5. CASE \E m \in net[r] : OnSyncTalk(r, m)
  BY <1>5, OnSyncTalkGood
<1>6. CASE \E m \in net[r] : OnSyncReady(r, m)
  BY <1>6, OnSyncReadyGood
<1>7. CASE \E m \in net[r] : Lose(r, m)
  BY <1>7, LoseGood
<1>8. QED
  BY <1>1, <1>2, <1>3, <1>4, <1>5, <1>6, <1>7

\* One step keeps the invariant and is a step of the agreement, or stutters.
LEMMA StepGood ==
  ASSUME GoodState, [Next]_vars
  PROVE  GoodState' /\ [Agreement!Next]_(Agreement!absVars)
<1>1. CASE UNCHANGED vars
  <2>1. UNCHANGED <<at, entries, visited, ticks, synchSet, doneIn>>
        /\ UNCHANGED <<sync, net, claimed, announced, synched>>
    BY <1>1 DEF vars
  <2>2. RobotTypes'
    BY <2>1 DEF GoodState, RobotTypes
  <2>3. GoodState'
    BY <2>1, <2>2 DEF GoodState
  <2>4. QED
    BY <2>1, <2>3 DEF Agreement!absVars
<1>2. CASE Next
  <2>1. PICK r \in Robots :
          \/ (\E t \in OutTransitions[r] : Enter(r, t)) \/ Leave(r)
          \/ \E timedOut \in BOOLEAN : TickKeep(r, timedOut)
          \/ TickStale(r) \/ \E timedOut \in BOOLEAN : TickSyncTimeOut(r, timedOut)
          \/ (\E h \in CondValues[r] : VisitWait(r, h)) \/ VisitFollow(r) \/ VisitRevoke(r)
          \/ \E m \in net[r] : OnSyncTalk(r, m)
          \/ \E m \in net[r] : OnSyncReady(r, m)
          \/ \E m \in net[r] : Lose(r, m)
    BY <1>2 DEF Next
  <2>2. Good(r)
    BY <2>1, StepOfRobot
  <2>3. PICK msgs : GoodStep(r, msgs) /\ RobotTypes'
    BY <2>2 DEF Good
  <2>4. GoodState'
    BY <2>3, GoodStepPreserves
  <2>5. Agreement!Next
    BY <2>3, GoodStepImplements DEF Agreement!Next
  <2>6. QED
    BY <2>4, <2>5
<1>3. QED
  BY <1>1, <1>2

LEMMA GoodStateAlways == Spec => []GoodState
<1>1. Init => GoodState
  BY InitGood
<1>2. GoodState /\ [Next]_vars => GoodState'
  BY StepGood
<1>3. QED
  BY <1>1, <1>2, PTL DEF Spec

\* The inductive invariant holds of every team: what robots believe and send was
\* claimed or announced by the robot it is about, the own row is the own row, a
\* set readyForSync is justified (Synchronisation.cpp), and synchedTransitions
\* holds the transition only of robots that take part in an agreement.
THEOREM AgreementHolds == Spec => []AgreementInv
<1>1. GoodState => AgreementInv
  BY GoodStateIsInv
<1>2. QED
  BY <1>1, GoodStateAlways, PTL

\* Every variable of the protocol keeps its type.
THEOREM TypeCorrect == Spec => []TypeOK
<1>1. AgreementInv => TypeOK
  BY DEF AgreementInv
<1>2. QED
  BY <1>1, AgreementHolds, PTL

\* Whatever is lost, reordered or late: a robot whose readyForSync is set has a
\* complete matrix and has sent its SyncReady.
THEOREM ReadyIsNeverStale == Spec => []ReadyIsComplete
<1>1. AgreementInv => ReadyIsComplete
  BY DEF AgreementInv
<1>2. QED
  BY <1>1, AgreementHolds, PTL

\* A robot follows a synchronised transition only when, for every connected
\* transition, a robot that claimed its condition has announced itself
\* (SyncModule::synchronisationDone is called only then).
THEOREM SynchronisedMeansAgreed == Spec => []SynchedMeansAgreed
<1>1. AgreementInv => SynchedMeansAgreed
  BY DEF AgreementInv
<1>2. QED
  BY <1>1, AgreementHolds, PTL

\* The protocol of SyncModule.cpp and Synchronisation.cpp, over a network that
\* loses and reorders messages, implements SyncAgreement.
THEOREM ProtocolImplementsAgreement == Spec => ImplementsAgreement
<1>1. Init => Agreement!Init
  BY InitGood
<1>2. GoodState /\ [Next]_vars => [Agreement!Next]_(Agreement!absVars)
  BY StepGood
<1>3. QED
  BY <1>1, <1>2, GoodStateAlways, PTL DEF Spec, ImplementsAgreement, Agreement!Spec

-------------------------------------------------------------------------------
(* Who a ready robot waits for *)

\* changeOwnData leaves a robot ready that was ready with the same rows, or that
\* its new row alone makes ready.
LEMMA OwnDataFreezes ==
  ASSUME NEW r \in Robots, NEW t \in Transitions, NEW h \in BOOLEAN,
         NEW s, NEW C, NEW A, NEW res,
         GoodSync(r, s, C, A),
         res = ChangeOwnData(r, s, t, h), res.sync.ready
  PROVE  \/ res.sync.rows = s.rows
         \/ /\ IsSyncComplete(res.sync) /\ res.sync.rows[res.sync.my].recv = {r}
            /\ MkReady(r) \in res.sent
<1> DEFINE d    == MkData(r, t, h)
           s1   == [s EXCEPT !.ready = @ /\ h]
           same == s.my # 0 /\ SameData(s.rows[s.my], d)
           s2   == IF s.my # 0
                   THEN [s1 EXCEPT !.rows = [@ EXCEPT ![s.my] = MkRow(d, {r})],
                                   !.ready = FALSE]
                   ELSE [s1 EXCEPT !.rows = Append(@, MkRow(d, {r})),
                                   !.my = Len(s.rows) + 1]
           s3   == [s2 EXCEPT !.ready = TRUE]
<1>1. s \in Synchronisation /\ s.rows \in Seq(Row) /\ s.my \in Nat
  BY DEF GoodSync, Synchronisation
<1>2. CASE same
  <2>1. res.sync = s1
    BY <1>2 DEF ChangeOwnData
  <2>2. s1.rows = s.rows
    BY <1>1 DEF Synchronisation
  <2>3. QED
    BY <2>1, <2>2
<1>3. CASE ~ same
  <2>1. s2.my \in DOMAIN s2.rows /\ s2.rows[s2.my] = MkRow(d, {r})
    BY <1>1 DEF GoodSync, Synchronisation
  <2>2. ~ s2.ready
    BY <1>1 DEF GoodSync, Synchronisation, IsSyncComplete
  <2>3. MkRow(d, {r}).recv = {r}
    BY DEF MkRow
  <2>4. /\ DOMAIN s2 = {"age", "my", "rows", "ready", "readys"}
        /\ s3.rows = s2.rows /\ s3.my = s2.my
    BY <1>1 DEF Synchronisation
  <2>5. IsSyncComplete(s2)
    <3>1. CASE ~ IsSyncComplete(s2)
      <4>1. res.sync = s2
        BY <1>3, <3>1 DEF ChangeOwnData
      <4>2. QED
        BY <2>2, <4>1
    <3>2. QED
      BY <3>1
  <2>6. res.sync = s3 /\ res.sent = ReadyMessages(r, s2)
    BY <1>3, <2>5 DEF ChangeOwnData
  <2> HIDE DEF s2, s3
  <2>7. MkReady(r) \in res.sent
    BY <2>6 DEF ReadyMessages
  <2>8. IsSyncComplete(s3)
    BY <2>4, <2>5 DEF IsSyncComplete, FirstBeliever
  <2>9. QED
    BY <2>1, <2>3, <2>4, <2>6, <2>7, <2>8
<1>4. QED
  BY <1>2, <1>3

\* The own row of r is frozen in this step.
Freezes(r) ==
  (r \in synchSet /\ r \in synchSet' /\ sync[r].ready /\ sync'[r].ready)
    => sync'[r].rows = sync[r].rows \/ ReadyAlone(r)'

LEMMA SetSynchronisationFreezes ==
  ASSUME GoodState, NEW r \in Robots, NEW h \in BOOLEAN,
         at[r] # NoTrans, SetSynchronisation(r, h)
  PROVE  Freezes(r)
<1> DEFINE s   == [sync[r] EXCEPT !.age = 0]
           res == ChangeOwnData(r, s, at[r], h)
<1>1. at[r] \in Transitions
  BY DEF GoodState, RobotTypes
<1>2. GoodSync(r, s, claimed, announced)
  <2>1. 0 \in 0..StaleAge /\ GoodSync(r, sync[r], claimed, announced)
    BY SyncOfRobot DEF StaleAge
  <2>2. QED
    BY <2>1, AgeIsGood
<1>3. s.rows = sync[r].rows
  BY SyncOfRobot DEF Synchronisation
<1>4. sync' = [sync EXCEPT ![r] = res.sync] /\ net' = Broadcast(net, r, res.sent)
  BY DEF SetSynchronisation
<1> HIDE DEF res, s
<1>5. sync'[r] = res.sync
  BY <1>4 DEF GoodState
<1>6. ASSUME res.sync.ready, res.sync.rows # s.rows
      PROVE  ReadyAlone(r)'
  <2>1. /\ IsSyncComplete(res.sync) /\ res.sync.rows[res.sync.my].recv = {r}
        /\ MkReady(r) \in res.sent
    BY <1>1, <1>2, <1>6, OwnDataFreezes DEF res
  <2>2. \A q \in Robots \ {r} : MkReady(r) \in net'[q]
    BY <1>4, <2>1 DEF Broadcast
  <2>3. IsSyncComplete(sync'[r])
    BY <1>5, <2>1
  <2>4. sync'[r].rows[sync'[r].my].recv = {r}
    BY <1>5, <2>1
  <2>5. QED
    BY <2>2, <2>3, <2>4 DEF ReadyAlone
<1>7. QED
  BY <1>3, <1>5, <1>6 DEF Freezes

\* Handlers of a ready robot leave its matrix alone.
LEMMA HandlersFreeze ==
  ASSUME GoodState, NEW r \in Robots,
         (\E m \in net[r] : OnSyncTalk(r, m)) \/ \E m \in net[r] : OnSyncReady(r, m)
  PROVE  Freezes(r)
<1> SUFFICES ASSUME r \in synchSet, r \in synchSet', sync[r].ready
             PROVE  sync'[r].rows = sync[r].rows
  BY DEF Freezes
<1>1. CASE \E m \in net[r] : OnSyncTalk(r, m)
  <2>1. PICK m \in net[r] : OnSyncTalk(r, m)
    BY <1>1
  <2> DEFINE s   == IF r \in synchSet THEN sync[r] ELSE NewSync(r)
             res == IntegrateSyncTalk(r, s, m)
  <2>2. Conclude(r, res)
    BY <2>1 DEF OnSyncTalk
  <2>3. s = sync[r]
    OBVIOUS
  <2> HIDE DEF s
  <2>4. res.sync = sync[r] /\ ~ res.done
    BY <2>3 DEF IntegrateSyncTalk
  <2> HIDE DEF res
  <2>5. sync' = [sync EXCEPT ![r] = sync[r]]
    BY <2>2, <2>4 DEF Conclude
  <2>6. QED
    BY <2>5 DEF GoodState
<1>2. CASE \E m \in net[r] : OnSyncReady(r, m)
  <2>1. PICK m \in net[r] : OnSyncReady(r, m)
    BY <1>2
  <2> DEFINE s1 == [sync[r] EXCEPT !.readys = @ \cup {m.sender}]
             res == IntegrateSyncReady(r, sync[r], m)
  <2>2. Conclude(r, res)
    BY <2>1 DEF OnSyncReady
  <2>3. res.sync = s1 /\ s1.rows = sync[r].rows
    BY SyncOfRobot DEF IntegrateSyncReady, Synchronisation
  <2> HIDE DEF res, s1
  <2>4. ~ res.done
    BY <2>2 DEF Conclude
  <2>5. sync' = [sync EXCEPT ![r] = res.sync]
    BY <2>2, <2>4 DEF Conclude
  <2>6. QED
    BY <2>3, <2>5 DEF GoodState
<1>3. QED
  BY <1>1, <1>2

\* And so does every other step.
LEMMA StepFreezes ==
  ASSUME GoodState, [Next]_vars, NEW q \in Robots
  PROVE  Freezes(q)
<1>1. CASE UNCHANGED vars
  BY <1>1 DEF vars, Freezes
<1>2. CASE Next
  <2>1. PICK r \in Robots :
          \/ (\E t \in OutTransitions[r] : Enter(r, t)) \/ Leave(r)
          \/ \E timedOut \in BOOLEAN : TickKeep(r, timedOut)
          \/ TickStale(r) \/ \E timedOut \in BOOLEAN : TickSyncTimeOut(r, timedOut)
          \/ (\E h \in CondValues[r] : VisitWait(r, h)) \/ VisitFollow(r) \/ VisitRevoke(r)
          \/ \E m \in net[r] : OnSyncTalk(r, m)
          \/ \E m \in net[r] : OnSyncReady(r, m)
          \/ \E m \in net[r] : Lose(r, m)
    BY <1>2 DEF Next
  <2>2. CASE q # r
    <3>1. PICK msgs : GoodStep(r, msgs)
      BY <2>1, StepOfRobot DEF Good
    <3>2. sync'[q] = sync[q]
      BY <2>2, <3>1 DEF GoodStep, GoodState
    <3>3. QED
      BY <3>2 DEF Freezes
  <2>3. CASE q = r
    <3>1. CASE (\E t \in OutTransitions[r] : Enter(r, t)) \/ Leave(r) \/ VisitFollow(r)
               \/ \E m \in net[r] : Lose(r, m)
      <4>1. sync' = sync
        BY <3>1 DEF Enter, Leave, VisitFollow, Lose
      <4>2. QED
        BY <4>1 DEF Freezes
    <3>2. CASE \E timedOut \in BOOLEAN : TickKeep(r, timedOut)
      <4> DEFINE aged == [sync[r] EXCEPT !.age = Saturate(@ + TickCount(r))]
      <4>1. sync' = [sync EXCEPT ![r] = aged] \/ sync' = sync
        BY <3>2 DEF TickKeep
      <4>2. aged.rows = sync[r].rows
        BY SyncOfRobot DEF Synchronisation
      <4> HIDE DEF aged
      <4>3. sync'[r].rows = sync[r].rows
        BY <4>1, <4>2 DEF GoodState
      <4>4. QED
        BY <2>3, <4>3 DEF Freezes
    <3>3. CASE TickStale(r) \/ \E timedOut \in BOOLEAN : TickSyncTimeOut(r, timedOut)
      <4>1. r \notin synchSet'
        BY <3>3 DEF TickStale, TickSyncTimeOut
      <4>2. QED
        BY <2>3, <4>1 DEF Freezes
    <3>4. CASE (\E h \in CondValues[r] : VisitWait(r, h)) \/ VisitRevoke(r)
      <4>1. PICK h \in BOOLEAN : SetSynchronisation(r, h) /\ at[r] # NoTrans
        BY <3>4, ConstantsAssumption DEF VisitWait, VisitRevoke
      <4>2. QED
        BY <2>3, <4>1, SetSynchronisationFreezes
    <3>5. CASE (\E m \in net[r] : OnSyncTalk(r, m)) \/ \E m \in net[r] : OnSyncReady(r, m)
      BY <2>3, <3>5, HandlersFreeze
    <3>6. QED
      BY <2>1, <3>1, <3>2, <3>3, <3>4, <3>5
  <2>4. QED
    BY <2>2, <2>3
<1>3. QED
  BY <1>1, <1>2

\* Over any loss, reordering and revocation, a robot that has announced itself waits
\* for the robots it counted then, until it resets readyForSync (Synchronisation.cpp):
\* only a row that alone covers the synchronisation, announced anew, replaces its own.
THEOREM ReadyWaitsForWhomItCounted == Spec => ParticipantsFrozen
<1>1. GoodState /\ [Next]_vars
        => [\A r \in Robots :
              (r \in synchSet /\ r \in synchSet' /\ sync[r].ready /\ sync'[r].ready)
                => sync'[r].rows = sync[r].rows \/ ReadyAlone(r)']_vars
  BY StepFreezes DEF Freezes
<1>2. QED
  BY <1>1, GoodStateAlways, PTL DEF Spec, ParticipantsFrozen
===============================================================================
