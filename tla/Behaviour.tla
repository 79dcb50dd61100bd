------------------------------- MODULE Behaviour -------------------------------
(***************************************************************************)
(* One BasicBehaviour and the threads that touch it: the engine thread,    *)
(* which starts and stops it and asks for its success, its own thread,     *)
(* which runs the loop runInternalTimed or runInternalTriggered, and the   *)
(* main thread, which shuts the engine down.  start, stop and terminate    *)
(* hold no lock, so every read and write of a shared field is one step.    *)
(*                                                                         *)
(* The plans a behaviour is started for are numbered in order: context c   *)
(* is the RunningPlan of the c-th start.  The mutex of the loop is taken by *)
(* the behaviour's thread only and is left out; times are left out too.    *)
(* _success and _failure are handled alike, and one flag stands for both.  *)
(***************************************************************************)
EXTENDS Naturals

CONSTANTS MaxContexts    \* bound: how often the behaviour is started

ASSUME BehaviourAssumption == MaxContexts \in Nat \ {0}

None     == 0            \* the null RunningPlan
Contexts == 1..MaxContexts
Threads  == {"engine", "thread", "main"}

VARIABLES
  bb,       \* the BasicBehaviour
  pc,       \* what each thread does next
  asked,    \* the flag that isSuccess or isFailure has read
  active,   \* the plan of the behaviour's context is in the tree
  gone,     \* contexts whose plan the engine has deleted
  h         \* history, read by properties only

vars == <<bb, pc, asked, active, gone, h>>

\* report: the context in which the flag was raised, None while it is not set.
\* notified: isNotifyCalled of the trigger.  eventDriven never changes.
BasicBehaviour ==
  [eventDriven : BOOLEAN, started : BOOLEAN, running : BOOLEAN, callInit : BOOLEAN,
   context : Contexts \cup {None}, contextInRun : Contexts \cup {None},
   report : Contexts \cup {None}, notified : BOOLEAN]

\* last: context entered last; initIn: where initialiseParameters ran last;
\* lateRuns: runs begun since the last stop; raced: contexts whose start met the
\* thread between the entry of a context and the end of its initialisation;
\* lost: a notification met the thread between its test and its wait.
History == [last : Contexts \cup {None}, initIn : Contexts \cup {None},
            lateRuns : 0..2, raced : SUBSET Contexts, lost : BOOLEAN]

Goto(t, l) == pc' = [pc EXCEPT ![t] = l]

Woken(p) == [p EXCEPT !["thread"] = IF @ = "asleep" THEN "pred" ELSE @]

\* Mutant: only the trigger wakes the thread.
WakeNobody(t, l) == Goto(t, l)

\* notify_all
NotifyAll(t, l) == pc' = Woken([pc EXCEPT ![t] = l])

-------------------------------------------------------------------------------
(* The engine thread *)

\* BehaviourPool::startBehaviour sets the context and calls start().
StartBehaviour ==
  /\ pc["engine"] = "idle" /\ ~ active /\ bb.context < MaxContexts
  /\ bb' = [bb EXCEPT !.context = @ + 1]
  /\ active' = TRUE
  /\ h' = [h EXCEPT !.lateRuns = 0]
  /\ Goto("engine", "callInit")
  /\ UNCHANGED <<asked, gone>>

InitUnderWay == pc["thread"] \in {"check", "initFlag", "initCall"}

\* Mutant: the behaviour is initialised only once.
KeepCallInit(b) == b

RequestInit(b) == [b EXCEPT !.callInit = TRUE]

StartCallInit ==
  /\ pc["engine"] = "callInit"
  /\ bb' = RequestInit(bb)
  /\ h' = IF InitUnderWay THEN [h EXCEPT !.raced = @ \cup {bb.context}] ELSE h
  /\ Goto("engine", "running")
  /\ UNCHANGED <<asked, active, gone>>

StartRunning ==
  /\ pc["engine"] = "running"
  /\ bb' = [bb EXCEPT !.running = TRUE]
  /\ Goto("engine", IF bb.eventDriven THEN "idle" ELSE "notify")
  /\ UNCHANGED <<asked, active, gone, h>>

Notify(t, next) ==
  /\ pc[t] = "notify"
  /\ NotifyAll(t, next)
  /\ h' = [h EXCEPT !.lost = @ \/ pc["thread"] = "block"]
  /\ UNCHANGED <<bb, asked, active, gone>>

StopBehaviour ==
  /\ pc["engine"] = "idle" /\ active
  /\ active' = FALSE
  /\ Goto("engine", "stop")
  /\ UNCHANGED <<bb, asked, gone, h>>

\* stop(), by the engine thread or in stopAll: _running, then the flag.
Stop(t) ==
  /\ pc[t] = "stop"
  /\ bb' = [bb EXCEPT !.running = FALSE]
  /\ Goto(t, "flag")
  /\ UNCHANGED <<asked, active, gone, h>>

StopReport(t, next) ==
  /\ pc[t] = "flag"
  /\ bb' = [bb EXCEPT !.report = None]
  /\ Goto(t, next)
  /\ UNCHANGED <<asked, active, gone, h>>

\* isSuccess and isFailure of a plan in the tree read the flag, then _callInit.
Ask ==
  /\ pc["engine"] = "idle" /\ active
  /\ asked' = bb.report
  /\ Goto("engine", "answer")
  /\ UNCHANGED <<bb, active, gone, h>>

\* Mutant: the flag alone.
AnswerFlag == asked # None

Answer == asked # None /\ ~ bb.callInit

Answered ==
  /\ pc["engine"] = "answer"
  /\ asked' = None
  /\ Goto("engine", "idle")
  /\ UNCHANGED <<bb, active, gone, h>>

IsRunningInContext(c) ==
  \/ bb.contextInRun = c
  \/ bb.contextInRun = None /\ bb.context = c /\ bb.started /\ bb.running

\* A retired plan is deleted once the behaviour does not run in it.
DeletePlan(c) ==
  /\ pc["engine"] = "idle"
  /\ c \notin gone
  /\ c < bb.context \/ (c = bb.context /\ ~ active)
  /\ ~ IsRunningInContext(c)
  /\ gone' = gone \cup {c}
  /\ UNCHANGED <<bb, pc, asked, active, h>>

EngineContinues ==
  \/ StartCallInit \/ StartRunning \/ Notify("engine", "idle") \/ Stop("engine")
  \/ StopReport("engine", "idle") \/ Answered

-------------------------------------------------------------------------------
(* The main thread: shutdown calls stopAll, then terminateAll *)

StopAll ==
  /\ pc["main"] = "idle"
  /\ Goto("main", "stop")
  /\ UNCHANGED <<bb, asked, active, gone, h>>

Terminate ==
  /\ pc["main"] = "terminate"
  /\ bb' = [bb EXCEPT !.started = FALSE]
  /\ Goto("main", "notify")
  /\ UNCHANGED <<asked, active, gone, h>>

Join ==
  /\ pc["main"] = "join" /\ pc["thread"] = "ended"
  /\ Goto("main", "done")
  /\ UNCHANGED <<bb, asked, active, gone, h>>

ShutdownContinues ==
  \/ Stop("main") \/ StopReport("main", "terminate")
  \/ Terminate \/ Notify("main", "join") \/ Join

-------------------------------------------------------------------------------
(* The behaviour's thread *)

\* while (_started)
LoopStarts ==
  /\ pc["thread"] = "loop"
  /\ Goto("thread", IF bb.started THEN "head" ELSE "ended")
  /\ UNCHANGED <<bb, asked, active, gone, h>>

\* Mutant: a timed behaviour goes on as long as it has a context.
GoesOnInContext == ~ bb.eventDriven /\ (bb.running \/ bb.contextInRun # None)

\* A timed behaviour that is still running goes on without waiting.
GoesOn == ~ bb.eventDriven /\ bb.running

\* A context that was entered is left with onTermination: by a timed behaviour
\* that was stopped, by an event-driven one after every run.
LoopHead ==
  /\ pc["thread"] = "head"
  /\ Goto("thread", IF GoesOn THEN "take"
                    ELSE IF bb.contextInRun # None THEN "term" ELSE "pred")
  /\ UNCHANGED <<bb, asked, active, gone, h>>

\* Mutant: the context stays.
StayInContext(b) == b

LeaveContext(b) == [b EXCEPT !.contextInRun = None]

OnTermination ==
  /\ pc["thread"] = "term"
  /\ bb' = LeaveContext(bb)
  /\ Goto("thread", "pred")
  /\ UNCHANGED <<asked, active, gone, h>>

\* The predicate of _runCV.wait; a thread that does not wait takes the context.
MayRun == ~ bb.started \/ (bb.running /\ (bb.eventDriven => bb.notified))

WaitTests ==
  /\ pc["thread"] = "pred"
  /\ Goto("thread", IF MayRun THEN "take" ELSE "block")
  /\ UNCHANGED <<bb, asked, active, gone, h>>

WaitBlocks ==
  /\ pc["thread"] = "block"
  /\ Goto("thread", "asleep")
  /\ UNCHANGED <<bb, asked, active, gone, h>>

SpuriousWakeUp ==
  /\ pc["thread"] = "asleep"
  /\ Goto("thread", "pred")
  /\ UNCHANGED <<bb, asked, active, gone, h>>

\* Mutant: the run goes on in the context it had.
TakeFirst(b) == IF b.contextInRun = None THEN b.context ELSE b.contextInRun

\* _contextInRun = _context: a start under way has not set _running yet, but its
\* context counts.
Taken(b) == IF b.eventDriven /\ ~ b.started THEN None ELSE b.context

TakeContext ==
  /\ pc["thread"] = "take"
  /\ bb' = [bb EXCEPT !.contextInRun = Taken(bb)]
  /\ h' = [h EXCEPT !.last = IF Taken(bb) = None THEN @ ELSE Taken(bb),
                    !.raced = IF pc["engine"] = "callInit"
                              THEN @ \cup {bb.context} ELSE @]
  /\ Goto("thread", "check")
  /\ UNCHANGED <<asked, active, gone>>

BeginRun(initIn) ==
  h' = [h EXCEPT !.initIn = initIn, !.lateRuns = IF active \/ bb.running THEN 0 ELSE @ + 1]

\* if (! _started) return; if (_callInit) initInternal().
Check ==
  /\ pc["thread"] = "check"
  /\ \/ /\ ~ bb.started
        /\ bb' = IF bb.eventDriven THEN bb ELSE LeaveContext(bb)
        /\ Goto("thread", "ended")
        /\ UNCHANGED h
     \/ /\ bb.started /\ bb.callInit
        /\ Goto("thread", "initFlag")
        /\ UNCHANGED <<bb, h>>
     \/ /\ bb.started /\ ~ bb.callInit
        /\ BeginRun(h.initIn)
        /\ Goto("thread", "run")
        /\ UNCHANGED bb
  /\ UNCHANGED <<asked, active, gone>>

\* initInternal: the flag, _callInit, initialiseParameters; then run.
InitReport ==
  /\ pc["thread"] = "initFlag"
  /\ bb' = [bb EXCEPT !.report = None]
  /\ Goto("thread", "initCall")
  /\ UNCHANGED <<asked, active, gone, h>>

InitCallInit ==
  /\ pc["thread"] = "initCall"
  /\ bb' = [bb EXCEPT !.callInit = FALSE]
  /\ h' = IF pc["engine"] = "answer" THEN [h EXCEPT !.raced = @ \cup {bb.context}] ELSE h
  /\ Goto("thread", "init")
  /\ UNCHANGED <<asked, active, gone>>

InitialiseParameters ==
  /\ pc["thread"] = "init"
  /\ BeginRun(bb.contextInRun)
  /\ Goto("thread", "run")
  /\ UNCHANGED <<bb, asked, active, gone>>

\* setSuccess, setFailure inside run(): the first call raises the flag.
Report ==
  /\ pc["thread"] = "run"
  /\ bb.report = None
  /\ bb' = [bb EXCEPT !.report = bb.contextInRun]
  /\ UNCHANGED <<pc, asked, active, gone, h>>

RunReturns ==
  /\ pc["thread"] = "run"
  /\ bb' = [bb EXCEPT !.notified = FALSE]
  /\ Goto("thread", "loop")
  /\ UNCHANGED <<asked, active, gone, h>>

ThreadContinues ==
  \/ LoopStarts \/ LoopHead \/ OnTermination \/ WaitTests \/ WaitBlocks
  \/ TakeContext \/ Check
  \/ InitReport \/ InitCallInit \/ InitialiseParameters \/ RunReturns

\* The trigger of an event-driven behaviour is set and notifies its thread.
Trigger ==
  /\ bb.eventDriven
  /\ bb' = [bb EXCEPT !.notified = TRUE]
  /\ pc' = Woken(pc)
  /\ UNCHANGED <<asked, active, gone, h>>

-------------------------------------------------------------------------------
\* BehaviourPool::init: the thread runs from setConfiguration on.
Init ==
  /\ bb \in [eventDriven : BOOLEAN, started : {TRUE}, running : {FALSE},
             callInit : {TRUE}, context : {None}, contextInRun : {None},
             report : {None}, notified : {FALSE}]
  /\ pc = [engine |-> "idle", thread |-> "loop", main |-> "idle"]
  /\ asked = None
  /\ active = FALSE
  /\ gone = {}
  /\ h = [last |-> None, initIn |-> None, lateRuns |-> 0, raced |-> {}, lost |-> FALSE]

Next ==
  \/ StartBehaviour \/ StopBehaviour \/ EngineContinues
  \/ Ask \/ Report
  \/ \E c \in Contexts : DeletePlan(c)
  \/ StopAll \/ ShutdownContinues
  \/ ThreadContinues \/ SpuriousWakeUp \/ Trigger

Spec == Init /\ [][Next]_vars

\* Threads go on with what they have begun, and run() returns.
Fairness ==
  WF_vars(EngineContinues) /\ WF_vars(ShutdownContinues) /\ WF_vars(ThreadContinues)

FairSpec == Spec /\ Fairness
===============================================================================
