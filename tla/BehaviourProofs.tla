---------------------------- MODULE BehaviourProofs ----------------------------
(***************************************************************************)
(* For any number of starts: the invariants of BehaviourProperties hold in *)
(* every reachable state, and every step of the threads is a step of       *)
(* BehaviourLife, or none.                                                 *)
(***************************************************************************)
EXTENDS BehaviourProperties, TLAPS

\* What each thread can be doing; the types of the runs do not tell them apart.
EngineLabels == {"idle", "callInit", "running", "notify", "stop", "flag", "answer"}
MainLabels   == {"idle", "stop", "flag", "terminate", "notify", "join", "done"}
ThreadLabels == {"loop", "head", "term", "pred", "block", "asleep", "take", "check",
                 "initFlag", "initCall", "init", "run", "ended"}

Labels == EngineLabels \cup MainLabels \cup ThreadLabels

\* The history counts at most one late run.
TypesInv ==
  /\ bb \in BasicBehaviour
  /\ pc \in [Threads -> Labels]
  /\ pc["engine"] \in EngineLabels
  /\ pc["main"] \in MainLabels
  /\ pc["thread"] \in ThreadLabels
  /\ asked \in Contexts \cup {None}
  /\ active \in BOOLEAN
  /\ gone \subseteq Contexts
  /\ h \in History
  /\ h.lateRuns \in {0, 1}

\* The engine starts a behaviour it has made active and stops one it has not;
\* once the stop has cleared _running only the next start sets it.
EngineInv ==
  /\ pc["engine"] \in {"callInit", "running", "notify", "answer"} => active
  /\ pc["engine"] \in {"stop", "flag"} => ~ active
  /\ ~ active /\ pc["engine"] # "stop" => ~ bb.running
  /\ active \/ bb.running => bb.context # None

\* After a late run the thread does not reach a run again before the next start:
\* it needs _running for that, or finds _started cleared.
LateInv ==
  h.lateRuns = 1 =>
    /\ ~ active /\ ~ bb.running
    /\ pc["thread"] \in {"take", "check"} => ~ bb.started
    /\ pc["thread"] \notin {"initFlag", "initCall", "init"}

\* From the test of _started on, the thread is in a context, the last one.
ContextInv ==
  /\ h.last <= bb.context
  /\ pc["thread"] = "take" /\ bb.started => bb.context # None
  /\ pc["thread"] = "check" /\ bb.started => bb.contextInRun # None
  /\ pc["thread"] \in {"initFlag", "initCall", "init", "run", "term"} => bb.contextInRun # None

Raced == bb.context \in h.raced

\* The engine has asked for the initialisation of the context.
Requested == pc["engine"] # "callInit"

InNewest == bb.contextInRun = bb.context

\* An initialisation request is consumed in the context it was made for, or a
\* race is recorded.
RequestInv ==
  /\ Requested /\ pc["thread"] \in {"check", "initFlag", "initCall"} =>
       InNewest \/ Raced \/ (~ bb.started /\ bb.contextInRun = None)
  /\ Requested /\ ~ bb.callInit /\ pc["thread"] \in {"init", "run"} => InNewest \/ Raced
  /\ Requested /\ ~ bb.callInit /\ bb.context # None =>
       Raced \/ (IF pc["thread"] = "init" THEN InNewest ELSE h.initIn = bb.context)
  /\ pc["thread"] = "check" /\ bb.started /\ ~ bb.callInit =>
       h.initIn = bb.contextInRun \/ bb.contextInRun \in h.raced

\* A flag that _callInit does not hide was raised in the newest context.
ReportInv ==
  /\ pc["thread"] = "initCall" => bb.report = None
  /\ Requested /\ ~ bb.callInit => bb.report \in {None, bb.context} \/ Raced

\* What the threads have done fits together.
ThreadsInv ==
  /\ EngineInv /\ LateInv /\ ContextInv /\ RequestInv /\ ReportInv
  /\ RunsInitialised /\ ReportsBelongToContext

\* The inductive invariant.
BehaviourInv == TypesInv /\ ThreadsInv

USE BehaviourAssumption DEF None, Contexts, Threads, Raced, Requested, InNewest

-------------------------------------------------------------------------------
(* What a step of a thread does to the labels *)

\* A step that only goes on moves the label of its own thread.
LEMMA GotoLabels ==
  ASSUME TypesInv, NEW t \in Threads, NEW l \in Labels, Goto(t, l)
  PROVE  /\ pc' \in [Threads -> Labels]
         /\ pc'[t] = l
         /\ \A u \in Threads \ {t} : pc'[u] = pc[u]
BY DEF TypesInv, Goto

\* notify_all wakes the behaviour's thread, which evaluates its predicate again
\* (BasicBehaviour.cpp:181), and nobody else.
LEMMA WokenLabels ==
  ASSUME TypesInv, pc' = Woken(pc)
  PROVE  /\ pc' \in [Threads -> Labels]
         /\ pc'["thread"] = IF pc["thread"] = "asleep" THEN "pred" ELSE pc["thread"]
         /\ \A u \in Threads \ {"thread"} : pc'[u] = pc[u]
BY DEF TypesInv, Woken, Labels, ThreadLabels

\* notify_all by another thread: its own label moves and a sleeper wakes.
LEMMA NotifyLabels ==
  ASSUME TypesInv, NEW t \in Threads \ {"thread"}, NEW l \in Labels, NotifyAll(t, l)
  PROVE  /\ pc' \in [Threads -> Labels]
         /\ pc'[t] = l
         /\ pc'["thread"] = IF pc["thread"] = "asleep" THEN "pred" ELSE pc["thread"]
         /\ \A u \in Threads \ {t, "thread"} : pc'[u] = pc[u]
BY DEF TypesInv, NotifyAll, Woken, Labels, ThreadLabels

\* A run begun while no late run has been counted.
LEMMA BeginRunCounts ==
  ASSUME TypesInv, h.lateRuns = 0, NEW c \in Contexts \cup {None}, BeginRun(c)
  PROVE  /\ h' \in History /\ h'.lateRuns \in {0, 1}
         /\ h'.lateRuns = 1 => ~ active /\ ~ bb.running
         /\ h'.initIn = c /\ h'.last = h.last /\ h'.raced = h.raced
<1> DEFINE n == IF active \/ bb.running THEN 0 ELSE 1
<1>1. h' = [h EXCEPT !.initIn = c, !.lateRuns = n]
  BY DEF BeginRun
<1>2. n \in {0, 1} /\ (n = 1 => ~ active /\ ~ bb.running)
  OBVIOUS
<1> HIDE DEF n
<1>3. h' \in History
  <2>1. h \in History /\ n \in 0..2
    BY <1>2 DEF TypesInv
  <2>2. QED
    BY <1>1, <2>1 DEF History
<1>4. QED
  BY <1>1, <1>2, <1>3 DEF TypesInv, History

-------------------------------------------------------------------------------
(* The steps of the three threads *)

\* Whatever the engine thread does to the behaviour keeps the invariant.
LEMMA EngineKeeps ==
  ASSUME BehaviourInv, StartBehaviour \/ StopBehaviour \/ EngineContinues \/ Ask
  PROVE  BehaviourInv'
<1> TypesInv /\ ThreadsInv
  BY DEF BehaviourInv
<1>1. ASSUME StartBehaviour PROVE BehaviourInv'
  <2>1. /\ pc' \in [Threads -> Labels]
        /\ pc'["engine"] \in EngineLabels /\ pc'["main"] \in MainLabels
        /\ pc'["thread"] \in ThreadLabels
    BY <1>1, GotoLabels DEF StartBehaviour, TypesInv, Labels, EngineLabels
  <2>2. TypesInv'
    <3>1. bb' \in BasicBehaviour
      BY <1>1 DEF StartBehaviour, TypesInv, BasicBehaviour
    <3>2. h' \in History /\ h'.lateRuns \in {0, 1}
      BY <1>1
      DEF StartBehaviour, TypesInv, BasicBehaviour, History, ThreadsInv, EngineInv,
          LateInv, Goto
    <3>3. QED
      BY <1>1, <2>1, <3>1, <3>2 DEF StartBehaviour, TypesInv, BasicBehaviour
  <2>3. ThreadsInv'
    BY <1>1
    DEF StartBehaviour, Goto, ThreadsInv, EngineInv, LateInv, ContextInv, RequestInv,
        ReportInv, RunsInitialised, ReportsBelongToContext, Answer, TypesInv,
        BasicBehaviour, History
  <2>4. QED
    BY <2>2, <2>3 DEF BehaviourInv
<1>2. ASSUME StopBehaviour PROVE BehaviourInv'
  <2>1. /\ pc' \in [Threads -> Labels]
        /\ pc'["engine"] \in EngineLabels /\ pc'["main"] \in MainLabels
        /\ pc'["thread"] \in ThreadLabels
    BY <1>2, GotoLabels DEF StopBehaviour, TypesInv, Labels, EngineLabels
  <2>2. TypesInv'
    <3>1. bb' \in BasicBehaviour
      BY <1>2 DEF StopBehaviour, TypesInv, BasicBehaviour
    <3>2. h' \in History /\ h'.lateRuns \in {0, 1}
      BY <1>2
      DEF StopBehaviour, TypesInv, BasicBehaviour, History, ThreadsInv, EngineInv,
          LateInv, Goto
    <3>3. QED
      BY <1>2, <2>1, <3>1, <3>2 DEF StopBehaviour, TypesInv, BasicBehaviour
  <2>3. ThreadsInv'
    BY <1>2
    DEF StopBehaviour, Goto, ThreadsInv, EngineInv, LateInv, ContextInv, RequestInv,
        ReportInv, RunsInitialised, ReportsBelongToContext, Answer, TypesInv,
        BasicBehaviour, History
  <2>4. QED
    BY <2>2, <2>3 DEF BehaviourInv
<1>3. ASSUME StartCallInit PROVE BehaviourInv'
  <2>1. /\ pc' \in [Threads -> Labels]
        /\ pc'["engine"] \in EngineLabels /\ pc'["main"] \in MainLabels
        /\ pc'["thread"] \in ThreadLabels
    BY <1>3, GotoLabels
    DEF StartCallInit, RequestInit, InitUnderWay, TypesInv, Labels, EngineLabels
  <2>2. TypesInv'
    <3>1. bb' \in BasicBehaviour
      BY <1>3 DEF StartCallInit, RequestInit, InitUnderWay, TypesInv, BasicBehaviour
    <3>2. h' \in History /\ h'.lateRuns \in {0, 1}
      BY <1>3
      DEF StartCallInit, RequestInit, InitUnderWay, TypesInv, BasicBehaviour, History,
          ThreadsInv, EngineInv, LateInv, Goto
    <3>3. QED
      BY <1>3, <2>1, <3>1, <3>2
      DEF StartCallInit, RequestInit, InitUnderWay, TypesInv, BasicBehaviour
  <2>3. ThreadsInv'
    BY <1>3
    DEF StartCallInit, RequestInit, InitUnderWay, Goto, ThreadsInv, EngineInv, LateInv,
        ContextInv, RequestInv, ReportInv, RunsInitialised, ReportsBelongToContext,
        Answer, TypesInv, BasicBehaviour, History
  <2>4. QED
    BY <2>2, <2>3 DEF BehaviourInv
<1>4. ASSUME StartRunning PROVE BehaviourInv'
  <2>1. TypesInv'
    BY <1>4, GotoLabels
    DEF StartRunning, TypesInv, BasicBehaviour, History, EngineInv, LateInv, ThreadsInv,
        Labels, EngineLabels
  <2>2. ThreadsInv'
    BY <1>4
    DEF StartRunning, Goto, ThreadsInv, EngineInv, LateInv, ContextInv, RequestInv,
        ReportInv, RunsInitialised, ReportsBelongToContext, Answer, TypesInv,
        BasicBehaviour, History
  <2>3. QED
    BY <2>1, <2>2 DEF BehaviourInv
<1>5. ASSUME Notify("engine", "idle") PROVE BehaviourInv'
  <2>1. /\ pc' \in [Threads -> Labels]
        /\ pc'["engine"] \in EngineLabels /\ pc'["main"] \in MainLabels
        /\ pc'["thread"] \in ThreadLabels
    BY <1>5, NotifyLabels
    DEF Notify, TypesInv, Labels, EngineLabels, MainLabels, ThreadLabels
  <2>2. TypesInv'
    <3>1. bb' \in BasicBehaviour
      BY <1>5 DEF Notify, TypesInv, BasicBehaviour
    <3>2. h' \in History /\ h'.lateRuns \in {0, 1}
      BY <1>5
      DEF Notify, TypesInv, BasicBehaviour, History, ThreadsInv, EngineInv, LateInv,
          Goto
    <3>3. QED
      BY <1>5, <2>1, <3>1, <3>2 DEF Notify, TypesInv, BasicBehaviour
  <2>3. ThreadsInv'
    BY <1>5
    DEF Notify, NotifyAll, Woken, ThreadsInv, EngineInv, LateInv, ContextInv,
        RequestInv, ReportInv, RunsInitialised, ReportsBelongToContext, Answer,
        TypesInv, BasicBehaviour, History
  <2>4. QED
    BY <2>2, <2>3 DEF BehaviourInv
<1>6. ASSUME Stop("engine") PROVE BehaviourInv'
  <2>1. TypesInv'
    BY <1>6, GotoLabels
    DEF Stop, TypesInv, BasicBehaviour, History, EngineInv, LateInv, ThreadsInv, Labels,
        EngineLabels
  <2>2. ThreadsInv'
    BY <1>6
    DEF Stop, Goto, ThreadsInv, EngineInv, LateInv, ContextInv, RequestInv, ReportInv,
        RunsInitialised, ReportsBelongToContext, Answer, TypesInv, BasicBehaviour,
        History
  <2>3. QED
    BY <2>1, <2>2 DEF BehaviourInv
<1>7. ASSUME StopReport("engine", "idle") PROVE BehaviourInv'
  <2>1. TypesInv'
    BY <1>7, GotoLabels
    DEF StopReport, TypesInv, BasicBehaviour, History, EngineInv, LateInv, ThreadsInv,
        Labels, EngineLabels
  <2>2. ThreadsInv'
    BY <1>7
    DEF StopReport, Goto, ThreadsInv, EngineInv, LateInv, ContextInv, RequestInv,
        ReportInv, RunsInitialised, ReportsBelongToContext, Answer, TypesInv,
        BasicBehaviour, History
  <2>3. QED
    BY <2>1, <2>2 DEF BehaviourInv
<1>8. ASSUME Ask PROVE BehaviourInv'
  <2>1. TypesInv'
    BY <1>8, GotoLabels
    DEF Ask, TypesInv, BasicBehaviour, History, EngineInv, LateInv, ThreadsInv, Labels,
        EngineLabels
  <2>2. ThreadsInv'
    BY <1>8
    DEF Ask, Goto, ThreadsInv, EngineInv, LateInv, ContextInv, RequestInv, ReportInv,
        RunsInitialised, ReportsBelongToContext, Answer, TypesInv, BasicBehaviour,
        History
  <2>3. QED
    BY <2>1, <2>2 DEF BehaviourInv
<1>9. ASSUME Answered PROVE BehaviourInv'
  <2>1. TypesInv'
    BY <1>9, GotoLabels
    DEF Answered, TypesInv, BasicBehaviour, History, EngineInv, LateInv, ThreadsInv,
        Labels, EngineLabels
  <2>2. ThreadsInv'
    BY <1>9
    DEF Answered, Goto, ThreadsInv, EngineInv, LateInv, ContextInv, RequestInv,
        ReportInv, RunsInitialised, ReportsBelongToContext, Answer, TypesInv,
        BasicBehaviour, History
  <2>3. QED
    BY <2>1, <2>2 DEF BehaviourInv
<1>10. QED
  BY <1>1, <1>2, <1>3, <1>4, <1>5, <1>6, <1>7, <1>8, <1>9 DEF EngineContinues

\* A shutdown that comes at any time keeps the invariant.
LEMMA MainKeeps ==
  ASSUME BehaviourInv, StopAll \/ ShutdownContinues
  PROVE  BehaviourInv'
<1> TypesInv /\ ThreadsInv
  BY DEF BehaviourInv
<1>1. ASSUME StopAll PROVE BehaviourInv'
  <2>1. TypesInv'
    BY <1>1, GotoLabels
    DEF StopAll, TypesInv, BasicBehaviour, History, EngineInv, LateInv, ThreadsInv,
        Labels, MainLabels
  <2>2. ThreadsInv'
    BY <1>1
    DEF StopAll, Goto, ThreadsInv, EngineInv, LateInv, ContextInv, RequestInv,
        ReportInv, RunsInitialised, ReportsBelongToContext, Answer, TypesInv,
        BasicBehaviour, History
  <2>3. QED
    BY <2>1, <2>2 DEF BehaviourInv
<1>2. ASSUME Stop("main") PROVE BehaviourInv'
  <2>1. TypesInv'
    BY <1>2, GotoLabels
    DEF Stop, TypesInv, BasicBehaviour, History, EngineInv, LateInv, ThreadsInv, Labels,
        MainLabels
  <2>2. ThreadsInv'
    BY <1>2
    DEF Stop, Goto, ThreadsInv, EngineInv, LateInv, ContextInv, RequestInv, ReportInv,
        RunsInitialised, ReportsBelongToContext, Answer, TypesInv, BasicBehaviour,
        History
  <2>3. QED
    BY <2>1, <2>2 DEF BehaviourInv
<1>3. ASSUME StopReport("main", "terminate") PROVE BehaviourInv'
  <2>1. TypesInv'
    BY <1>3, GotoLabels
    DEF StopReport, TypesInv, BasicBehaviour, History, EngineInv, LateInv, ThreadsInv,
        Labels, MainLabels
  <2>2. ThreadsInv'
    BY <1>3
    DEF StopReport, Goto, ThreadsInv, EngineInv, LateInv, ContextInv, RequestInv,
        ReportInv, RunsInitialised, ReportsBelongToContext, Answer, TypesInv,
        BasicBehaviour, History
  <2>3. QED
    BY <2>1, <2>2 DEF BehaviourInv
<1>4. ASSUME Terminate PROVE BehaviourInv'
  <2>1. TypesInv'
    BY <1>4, GotoLabels
    DEF Terminate, TypesInv, BasicBehaviour, History, EngineInv, LateInv, ThreadsInv,
        Labels, MainLabels
  <2>2. ThreadsInv'
    BY <1>4
    DEF Terminate, Goto, ThreadsInv, EngineInv, LateInv, ContextInv, RequestInv,
        ReportInv, RunsInitialised, ReportsBelongToContext, Answer, TypesInv,
        BasicBehaviour, History
  <2>3. QED
    BY <2>1, <2>2 DEF BehaviourInv
<1>5. ASSUME Notify("main", "join") PROVE BehaviourInv'
  <2>1. /\ pc' \in [Threads -> Labels]
        /\ pc'["engine"] \in EngineLabels /\ pc'["main"] \in MainLabels
        /\ pc'["thread"] \in ThreadLabels
    BY <1>5, NotifyLabels
    DEF Notify, TypesInv, Labels, EngineLabels, MainLabels, ThreadLabels
  <2>2. TypesInv'
    <3>1. bb' \in BasicBehaviour
      BY <1>5 DEF Notify, TypesInv, BasicBehaviour
    <3>2. h' \in History /\ h'.lateRuns \in {0, 1}
      BY <1>5
      DEF Notify, TypesInv, BasicBehaviour, History, ThreadsInv, EngineInv, LateInv,
          Goto
    <3>3. QED
      BY <1>5, <2>1, <3>1, <3>2 DEF Notify, TypesInv, BasicBehaviour
  <2>3. ThreadsInv'
    BY <1>5
    DEF Notify, NotifyAll, Woken, ThreadsInv, EngineInv, LateInv, ContextInv,
        RequestInv, ReportInv, RunsInitialised, ReportsBelongToContext, Answer,
        TypesInv, BasicBehaviour, History
  <2>4. QED
    BY <2>2, <2>3 DEF BehaviourInv
<1>6. ASSUME Join PROVE BehaviourInv'
  <2>1. TypesInv'
    BY <1>6, GotoLabels
    DEF Join, TypesInv, BasicBehaviour, History, EngineInv, LateInv, ThreadsInv, Labels,
        MainLabels
  <2>2. ThreadsInv'
    BY <1>6
    DEF Join, Goto, ThreadsInv, EngineInv, LateInv, ContextInv, RequestInv, ReportInv,
        RunsInitialised, ReportsBelongToContext, Answer, TypesInv, BasicBehaviour,
        History
  <2>3. QED
    BY <2>1, <2>2 DEF BehaviourInv
<1>7. QED
  BY <1>1, <1>2, <1>3, <1>4, <1>5, <1>6 DEF ShutdownContinues

\* The loop of the behaviour's thread and its wake-ups keep the invariant.
LEMMA ThreadKeeps ==
  ASSUME BehaviourInv, ThreadContinues \/ Report \/ SpuriousWakeUp \/ Trigger
  PROVE  BehaviourInv'
<1> TypesInv /\ ThreadsInv
  BY DEF BehaviourInv
<1>1. ASSUME LoopStarts PROVE BehaviourInv'
  <2>1. TypesInv'
    BY <1>1, GotoLabels
    DEF LoopStarts, TypesInv, BasicBehaviour, History, EngineInv, LateInv, ThreadsInv,
        Labels, ThreadLabels
  <2>2. ThreadsInv'
    BY <1>1
    DEF LoopStarts, Goto, ThreadsInv, EngineInv, LateInv, ContextInv, RequestInv,
        ReportInv, RunsInitialised, ReportsBelongToContext, Answer, TypesInv,
        BasicBehaviour, History
  <2>3. QED
    BY <2>1, <2>2 DEF BehaviourInv
<1>2. ASSUME LoopHead PROVE BehaviourInv'
  <2>1. TypesInv'
    BY <1>2, GotoLabels
    DEF LoopHead, GoesOn, TypesInv, BasicBehaviour, History, EngineInv, LateInv,
        ThreadsInv, Labels, ThreadLabels
  <2>2. ThreadsInv'
    BY <1>2
    DEF LoopHead, GoesOn, Goto, ThreadsInv, EngineInv, LateInv, ContextInv, RequestInv,
        ReportInv, RunsInitialised, ReportsBelongToContext, Answer, TypesInv,
        BasicBehaviour, History
  <2>3. QED
    BY <2>1, <2>2 DEF BehaviourInv
<1>3. ASSUME OnTermination PROVE BehaviourInv'
  <2>1. TypesInv'
    BY <1>3, GotoLabels
    DEF OnTermination, LeaveContext, TypesInv, BasicBehaviour, History, EngineInv,
        LateInv, ThreadsInv, Labels, ThreadLabels
  <2>2. ThreadsInv'
    BY <1>3
    DEF OnTermination, LeaveContext, Goto, ThreadsInv, EngineInv, LateInv, ContextInv,
        RequestInv, ReportInv, RunsInitialised, ReportsBelongToContext, Answer,
        TypesInv, BasicBehaviour, History
  <2>3. QED
    BY <2>1, <2>2 DEF BehaviourInv
<1>4. ASSUME WaitTests PROVE BehaviourInv'
  <2>1. TypesInv'
    BY <1>4, GotoLabels
    DEF WaitTests, MayRun, TypesInv, BasicBehaviour, History, EngineInv, LateInv,
        ThreadsInv, Labels, ThreadLabels
  <2>2. ThreadsInv'
    BY <1>4
    DEF WaitTests, MayRun, Goto, ThreadsInv, EngineInv, LateInv, ContextInv, RequestInv,
        ReportInv, RunsInitialised, ReportsBelongToContext, Answer, TypesInv,
        BasicBehaviour, History
  <2>3. QED
    BY <2>1, <2>2 DEF BehaviourInv
<1>5. ASSUME WaitBlocks PROVE BehaviourInv'
  <2>1. TypesInv'
    BY <1>5, GotoLabels
    DEF WaitBlocks, TypesInv, BasicBehaviour, History, EngineInv, LateInv, ThreadsInv,
        Labels, ThreadLabels
  <2>2. ThreadsInv'
    BY <1>5
    DEF WaitBlocks, Goto, ThreadsInv, EngineInv, LateInv, ContextInv, RequestInv,
        ReportInv, RunsInitialised, ReportsBelongToContext, Answer, TypesInv,
        BasicBehaviour, History
  <2>3. QED
    BY <2>1, <2>2 DEF BehaviourInv
<1>6. ASSUME TakeContext PROVE BehaviourInv'
  <2>1. /\ pc' \in [Threads -> Labels]
        /\ pc'["engine"] \in EngineLabels /\ pc'["main"] \in MainLabels
        /\ pc'["thread"] \in ThreadLabels
    BY <1>6, GotoLabels DEF TakeContext, Taken, TypesInv, Labels, ThreadLabels
  <2>2. TypesInv'
    <3>1. bb' \in BasicBehaviour
      BY <1>6 DEF TakeContext, Taken, TypesInv, BasicBehaviour
    <3>2. h' \in History /\ h'.lateRuns \in {0, 1}
      BY <1>6
      DEF TakeContext, Taken, TypesInv, BasicBehaviour, History, ThreadsInv, EngineInv,
          LateInv, Goto
    <3>3. QED
      BY <1>6, <2>1, <3>1, <3>2 DEF TakeContext, Taken, TypesInv, BasicBehaviour
  <2>3. ThreadsInv'
    BY <1>6
    DEF TakeContext, Taken, Goto, ThreadsInv, EngineInv, LateInv, ContextInv,
        RequestInv, ReportInv, RunsInitialised, ReportsBelongToContext, Answer,
        TypesInv, BasicBehaviour, History
  <2>4. QED
    BY <2>2, <2>3 DEF BehaviourInv
<1>7. ASSUME Check PROVE BehaviourInv'
  <2>1. CASE ~ bb.started
    <3>1. bb' \in BasicBehaviour /\ h' = h
      BY <1>7, <2>1 DEF Check, LeaveContext, TypesInv, BasicBehaviour
    <3>2. TypesInv'
      BY <1>7, <2>1, <3>1, GotoLabels DEF Check, TypesInv, Labels, ThreadLabels
    <3>3. ThreadsInv'
      BY <1>7, <2>1
      DEF Check, LeaveContext, Goto, ThreadsInv, EngineInv, LateInv, ContextInv,
          RequestInv, ReportInv, RunsInitialised, ReportsBelongToContext, Answer,
          TypesInv, BasicBehaviour, History
    <3>4. QED
      BY <3>2, <3>3 DEF BehaviourInv
  <2>2. CASE bb.started /\ bb.callInit
    <3>1. bb' = bb /\ h' = h /\ Goto("thread", "initFlag")
      BY <1>7, <2>2 DEF Check
    <3>2. TypesInv'
      BY <1>7, <3>1, GotoLabels DEF Check, TypesInv, Labels, ThreadLabels
    <3>3. ThreadsInv'
      BY <1>7, <2>2, <3>1
      DEF Check, Goto, ThreadsInv, EngineInv, LateInv, ContextInv, RequestInv,
          ReportInv, RunsInitialised, ReportsBelongToContext, Answer, TypesInv,
          BasicBehaviour, History
    <3>4. QED
      BY <3>2, <3>3 DEF BehaviourInv
  <2>3. CASE bb.started /\ ~ bb.callInit
    <3>1. bb' = bb /\ BeginRun(h.initIn) /\ Goto("thread", "run")
      BY <1>7, <2>3 DEF Check
    <3>2. h.lateRuns = 0 /\ h.initIn \in Contexts \cup {None}
      BY <1>7, <2>3 DEF Check, TypesInv, History, ThreadsInv, LateInv
    <3>3. TypesInv'
      BY <1>7, <3>1, <3>2, GotoLabels, BeginRunCounts
      DEF Check, TypesInv, Labels, ThreadLabels
    <3>4. ThreadsInv'
      BY <1>7, <2>3, <3>1, <3>2, BeginRunCounts
      DEF Check, Goto, ThreadsInv, EngineInv, LateInv, ContextInv, RequestInv,
          ReportInv, RunsInitialised, ReportsBelongToContext, Answer, TypesInv,
          BasicBehaviour, History
    <3>5. QED
      BY <3>3, <3>4 DEF BehaviourInv
  <2>4. QED
    BY <2>1, <2>2, <2>3 DEF TypesInv, BasicBehaviour
<1>8. ASSUME InitReport PROVE BehaviourInv'
  <2>1. TypesInv'
    BY <1>8, GotoLabels
    DEF InitReport, TypesInv, BasicBehaviour, History, EngineInv, LateInv, ThreadsInv,
        Labels, ThreadLabels
  <2>2. ThreadsInv'
    BY <1>8
    DEF InitReport, Goto, ThreadsInv, EngineInv, LateInv, ContextInv, RequestInv,
        ReportInv, RunsInitialised, ReportsBelongToContext, Answer, TypesInv,
        BasicBehaviour, History
  <2>3. QED
    BY <2>1, <2>2 DEF BehaviourInv
<1>9. ASSUME InitCallInit PROVE BehaviourInv'
  <2>1. /\ pc' \in [Threads -> Labels]
        /\ pc'["engine"] \in EngineLabels /\ pc'["main"] \in MainLabels
        /\ pc'["thread"] \in ThreadLabels
    BY <1>9, GotoLabels DEF InitCallInit, TypesInv, Labels, ThreadLabels
  <2>2. TypesInv'
    <3>1. bb' \in BasicBehaviour
      BY <1>9 DEF InitCallInit, TypesInv, BasicBehaviour
    <3>2. h' \in History /\ h'.lateRuns \in {0, 1}
      BY <1>9
      DEF InitCallInit, TypesInv, BasicBehaviour, History, ThreadsInv, EngineInv,
          LateInv, Goto
    <3>3. QED
      BY <1>9, <2>1, <3>1, <3>2 DEF InitCallInit, TypesInv, BasicBehaviour
  <2>3. ThreadsInv'
    BY <1>9
    DEF InitCallInit, Goto, ThreadsInv, EngineInv, LateInv, ContextInv, RequestInv,
        ReportInv, RunsInitialised, ReportsBelongToContext, Answer, TypesInv,
        BasicBehaviour, History
  <2>4. QED
    BY <2>2, <2>3 DEF BehaviourInv
<1>10. ASSUME InitialiseParameters PROVE BehaviourInv'
  <2>1. h.lateRuns = 0 /\ bb.contextInRun \in Contexts
    BY <1>10
    DEF InitialiseParameters, TypesInv, BasicBehaviour, ThreadsInv, LateInv, ContextInv
  <2>2. BeginRun(bb.contextInRun)
    BY <1>10 DEF InitialiseParameters
  <2>3. TypesInv'
    BY <1>10, <2>1, <2>2, GotoLabels, BeginRunCounts
    DEF InitialiseParameters, TypesInv, Labels, ThreadLabels
  <2>4. ThreadsInv'
    BY <1>10, <2>1, <2>2, BeginRunCounts
    DEF InitialiseParameters, Goto, ThreadsInv, EngineInv, LateInv, ContextInv,
        RequestInv, ReportInv, RunsInitialised, ReportsBelongToContext, Answer,
        TypesInv, BasicBehaviour, History
  <2>5. QED
    BY <2>3, <2>4 DEF BehaviourInv
<1>11. ASSUME Report PROVE BehaviourInv'
  <2>1. TypesInv'
    BY <1>11, GotoLabels
    DEF Report, TypesInv, BasicBehaviour, History, EngineInv, LateInv, ThreadsInv,
        Labels, ThreadLabels
  <2>2. ThreadsInv'
    BY <1>11
    DEF Report, Goto, ThreadsInv, EngineInv, LateInv, ContextInv, RequestInv, ReportInv,
        RunsInitialised, ReportsBelongToContext, Answer, TypesInv, BasicBehaviour,
        History
  <2>3. QED
    BY <2>1, <2>2 DEF BehaviourInv
<1>12. ASSUME RunReturns PROVE BehaviourInv'
  <2>1. TypesInv'
    BY <1>12, GotoLabels
    DEF RunReturns, TypesInv, BasicBehaviour, History, EngineInv, LateInv, ThreadsInv,
        Labels, ThreadLabels
  <2>2. ThreadsInv'
    BY <1>12
    DEF RunReturns, Goto, ThreadsInv, EngineInv, LateInv, ContextInv, RequestInv,
        ReportInv, RunsInitialised, ReportsBelongToContext, Answer, TypesInv,
        BasicBehaviour, History
  <2>3. QED
    BY <2>1, <2>2 DEF BehaviourInv
<1>13. ASSUME SpuriousWakeUp PROVE BehaviourInv'
  <2>1. TypesInv'
    BY <1>13, GotoLabels
    DEF SpuriousWakeUp, TypesInv, BasicBehaviour, History, EngineInv, LateInv,
        ThreadsInv, Labels, ThreadLabels
  <2>2. ThreadsInv'
    BY <1>13
    DEF SpuriousWakeUp, Goto, ThreadsInv, EngineInv, LateInv, ContextInv, RequestInv,
        ReportInv, RunsInitialised, ReportsBelongToContext, Answer, TypesInv,
        BasicBehaviour, History
  <2>3. QED
    BY <2>1, <2>2 DEF BehaviourInv
<1>14. ASSUME Trigger PROVE BehaviourInv'
  <2>1. /\ pc' \in [Threads -> Labels]
        /\ pc'["engine"] \in EngineLabels /\ pc'["main"] \in MainLabels
        /\ pc'["thread"] \in ThreadLabels
    BY <1>14, WokenLabels
    DEF Trigger, TypesInv, Labels, EngineLabels, MainLabels, ThreadLabels
  <2>2. TypesInv'
    <3>1. bb' \in BasicBehaviour
      BY <1>14 DEF Trigger, TypesInv, BasicBehaviour
    <3>2. h' \in History /\ h'.lateRuns \in {0, 1}
      BY <1>14
      DEF Trigger, TypesInv, BasicBehaviour, History, ThreadsInv, EngineInv, LateInv,
          Goto
    <3>3. QED
      BY <1>14, <2>1, <3>1, <3>2 DEF Trigger, TypesInv, BasicBehaviour
  <2>3. ThreadsInv'
    BY <1>14
    DEF Trigger, Woken, ThreadsInv, EngineInv, LateInv, ContextInv, RequestInv,
        ReportInv, RunsInitialised, ReportsBelongToContext, Answer, TypesInv,
        BasicBehaviour, History
  <2>4. QED
    BY <2>2, <2>3 DEF BehaviourInv
<1>15. QED
  BY <1>1, <1>2, <1>3, <1>4, <1>5, <1>6, <1>7, <1>8, <1>9, <1>10, <1>11, <1>12, <1>13,
     <1>14
  DEF ThreadContinues

-------------------------------------------------------------------------------
(* The invariants of the runs *)

\* The inductive invariant holds in every state that is reached.
LEMMA BehaviourInvHolds == Spec => []BehaviourInv
<1>1. Init => BehaviourInv
  <2> SUFFICES ASSUME Init PROVE BehaviourInv
    OBVIOUS
  <2>1. bb \in BasicBehaviour /\ bb.context = None /\ bb.running = FALSE
        /\ bb.callInit = TRUE /\ bb.report = None
    BY DEF Init, BasicBehaviour
  <2>2. TypesInv
    <3>1. h \in History
      BY DEF Init, History
    <3>2. /\ pc \in [Threads -> Labels] /\ pc["engine"] \in EngineLabels
          /\ pc["main"] \in MainLabels /\ pc["thread"] \in ThreadLabels
      BY DEF Init, Labels, EngineLabels, MainLabels, ThreadLabels
    <3>3. QED
      BY <2>1, <3>1, <3>2 DEF Init, TypesInv
  <2>3. ThreadsInv
    BY <2>1
    DEF Init, ThreadsInv, EngineInv, LateInv, ContextInv, RequestInv, ReportInv,
        RunsInitialised, ReportsBelongToContext
  <2>4. QED
    BY <2>2, <2>3 DEF BehaviourInv
<1>2. BehaviourInv /\ [Next]_vars => BehaviourInv'
  <2> SUFFICES ASSUME BehaviourInv, [Next]_vars PROVE BehaviourInv'
    OBVIOUS
  <2>1. ASSUME NEW c \in Contexts, DeletePlan(c) PROVE BehaviourInv'
    <3>1. UNCHANGED <<bb, pc, asked, active, h>> /\ gone' \subseteq Contexts
      BY <2>1 DEF DeletePlan, BehaviourInv, TypesInv
    <3>2. TypesInv'
      BY <3>1 DEF BehaviourInv, TypesInv
    <3>3. ThreadsInv'
      BY <3>1
      DEF BehaviourInv, ThreadsInv, EngineInv, LateInv, ContextInv, RequestInv,
          ReportInv, RunsInitialised, ReportsBelongToContext, Answer
    <3>4. QED
      BY <3>2, <3>3 DEF BehaviourInv
  <2>2. CASE UNCHANGED vars
    BY <2>2
    DEF vars, BehaviourInv, TypesInv, ThreadsInv, EngineInv, LateInv, ContextInv,
        RequestInv, ReportInv, RunsInitialised, ReportsBelongToContext, Answer
  <2>3. QED
    BY <2>1, <2>2, EngineKeeps, MainKeeps, ThreadKeeps DEF Next
<1>3. QED
  BY <1>1, <1>2, PTL DEF Spec

\* However starts, stops, triggers and a shutdown are interleaved with the loop
\* of the behaviour, at most one run is begun after a stop() and before the next
\* start() (BasicBehaviour.cpp:94, 176).
THEOREM StoppedBehaviourRests == Spec => []RestsWhenStopped
<1>1. BehaviourInv => RestsWhenStopped
  <2> SUFFICES ASSUME BehaviourInv PROVE RestsWhenStopped
    OBVIOUS
  <2>1. pc \in [Threads -> Labels]
    BY DEF BehaviourInv, TypesInv
  <2>2. TypeOK
    BY <2>1
    DEF BehaviourInv, TypesInv, TypeOK, Labels, EngineLabels, MainLabels, ThreadLabels
  <2>3. OneLateRun
    BY DEF BehaviourInv, TypesInv, OneLateRun
  <2>4. QED
    BY <2>2, <2>3 DEF RestsWhenStopped
<1>2. QED
  BY <1>1, BehaviourInvHolds, PTL

\* A run in a context follows initialiseParameters for that context, unless its
\* start() met the thread between taking the context and clearing _callInit
\* (BasicBehaviour.cpp:107, 151).
THEOREM EveryRunInitialised == Spec => []RunsInitialised
<1>1. BehaviourInv => RunsInitialised
  BY DEF BehaviourInv, ThreadsInv
<1>2. QED
  BY <1>1, BehaviourInvHolds, PTL

\* isSuccess and isFailure tell what the behaviour reported in the context the
\* engine started last, but for the same window (BasicBehaviour.cpp:125).
THEOREM ReportsAreCurrent == Spec => []ReportsBelongToContext
<1>1. BehaviourInv => ReportsBelongToContext
  BY DEF BehaviourInv, ThreadsInv
<1>2. QED
  BY <1>1, BehaviourInvHolds, PTL

-------------------------------------------------------------------------------
(* The life of a behaviour *)

\* Each step of a thread is one of BehaviourLife or leaves its state alone.
LEMMA StepsImplementLife ==
  ASSUME BehaviourInv, [Next]_vars
  PROVE  [Life!LifeNext]_(Life!life)
<1> USE DEF Life!life, Life!LifeNext, Method
<1> TypesInv /\ ContextInv
  BY DEF BehaviourInv, ThreadsInv
<1>1. ASSUME UNCHANGED <<bb.contextInRun, h.last, Method>> PROVE UNCHANGED Life!life
  BY <1>1
<1>2. CASE TakeContext
  <2>1. Method = "none" /\ Method' = "none"
    BY <1>2 DEF TakeContext, Goto, TypesInv, Labels
  <2>2. CASE Taken(bb) = None
    <3>1. Life!LeaveContext
      BY <1>2, <2>1, <2>2
      DEF TakeContext, TypesInv, BasicBehaviour, History, Life!LeaveContext
    <3>2. QED
      BY <3>1
  <2>3. CASE Taken(bb) # None
    <3>1. Taken(bb) = bb.context
      BY <2>3 DEF Taken
    <3>2. Life!EnterContext(bb.context)
      BY <1>2, <2>1, <2>3, <3>1
      DEF TakeContext, TypesInv, ContextInv, BasicBehaviour, History, Life!EnterContext
    <3>3. QED
      BY <2>3, <3>1, <3>2 DEF TypesInv, BasicBehaviour
  <2>4. QED
    BY <2>2, <2>3
<1>3. CASE Check
  <2>1. CASE ~ bb.started
    BY <1>3, <2>1
    DEF Check, Goto, LeaveContext, TypesInv, BasicBehaviour, Life!LeaveContext
  <2>2. CASE bb.started /\ bb.callInit
    BY <1>3, <2>2 DEF Check, Goto, TypesInv, ContextInv, Life!Call
  <2>3. CASE bb.started /\ ~ bb.callInit
    BY <1>3, <2>3 DEF Check, Goto, TypesInv, History, ContextInv, BeginRun, Life!Call
  <2>4. QED
    BY <2>1, <2>2, <2>3 DEF TypesInv, BasicBehaviour
<1>4. CASE LoopHead
  BY <1>4 DEF LoopHead, Goto, TypesInv, ContextInv, Life!Call
<1>5. CASE OnTermination
  BY <1>5 DEF OnTermination, LeaveContext, Goto, TypesInv, BasicBehaviour, Life!Return
<1>6. CASE InitialiseParameters
  BY <1>6 DEF InitialiseParameters, BeginRun, Goto, TypesInv, History, Life!Return
<1>7. CASE RunReturns
  BY <1>7 DEF RunReturns, Goto, TypesInv, BasicBehaviour, Life!Return
<1>8. CASE LoopStarts \/ WaitTests \/ WaitBlocks \/ InitReport \/ InitCallInit
  BY <1>1, <1>8
  DEF LoopStarts, WaitTests, WaitBlocks, InitReport, InitCallInit, Goto, TypesInv,
      BasicBehaviour, History
<1>9. CASE Report \/ SpuriousWakeUp \/ Trigger
  BY <1>1, <1>9
  DEF Report, SpuriousWakeUp, Trigger, Goto, Woken, TypesInv, BasicBehaviour
<1>10. CASE StartBehaviour \/ StopBehaviour \/ EngineContinues \/ Ask
  BY <1>1, <1>10
  DEF StartBehaviour, StopBehaviour, EngineContinues, StartCallInit, RequestInit,
      StartRunning, Notify, NotifyAll, Woken, Stop, StopReport, Answered, Ask, Goto,
      TypesInv, BasicBehaviour, History
<1>11. CASE StopAll \/ ShutdownContinues
  BY <1>1, <1>11
  DEF StopAll, ShutdownContinues, Stop, StopReport, Terminate, Notify, NotifyAll, Woken,
      Join, Goto, TypesInv, BasicBehaviour, History
<1>12. ASSUME NEW c \in Contexts, DeletePlan(c) PROVE UNCHANGED Life!life
  BY <1>12 DEF DeletePlan
<1>13. CASE UNCHANGED vars
  BY <1>13 DEF vars
<1>14. QED
  BY <1>2, <1>3, <1>4, <1>5, <1>6, <1>7, <1>8, <1>9, <1>10, <1>11, <1>12, <1>13
  DEF Next, ThreadContinues

\* The threads implement BehaviourLife: domain code sees its methods one by one,
\* inside contexts that only go forward, and onTermination last in each.
THEOREM BehaviourImplementsLife == Spec => ImplementsLife
<1>1. Init => Life!LifeInit
  BY DEF Init, Life!LifeInit, Method
<1>2. BehaviourInv /\ [Next]_vars => [Life!LifeNext]_(Life!life)
  BY StepsImplementLife
<1>3. QED
  BY <1>1, <1>2, BehaviourInvHolds, PTL DEF Spec, ImplementsLife, Life!LifeSpec
===============================================================================
