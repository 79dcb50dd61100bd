-------------------------- MODULE BehaviourProperties --------------------------
(* What the threads of a behaviour keep, and what a comment claims they keep. *)
EXTENDS Behaviour

\* Types; at most one run is begun after a stop until the next start
\* (History.lateRuns), so that a stopped behaviour comes to rest.
TypeOK ==
  /\ bb \in BasicBehaviour
  /\ pc \in [Threads ->
       {"idle", "callInit", "running", "notify", "stop", "flag", "answer",
        "terminate", "join", "done", "loop", "head", "term", "pred", "block",
        "asleep", "take", "check", "initFlag", "initCall", "init", "run", "ended"}]
  /\ asked \in Contexts \cup {None}
  /\ active \in BOOLEAN
  /\ gone \subseteq Contexts
  /\ h \in History

\* stop() does not wait for the thread (BasicBehaviour.cpp:94): it may be past
\* its test of _running, or in a run.  It begins at most one more.
OneLateRun == h.lateRuns <= 1

\* A behaviour that was stopped comes to rest (BasicBehaviour.cpp:94, 176): its
\* flags and threads are in step but for that one run.
RestsWhenStopped == TypeOK /\ OneLateRun

\* "Called whenever a basic behaviour is started" (BasicBehaviour.h:82): a run
\* in a context follows initialiseParameters for that context, unless its
\* start() met the thread on its way from taking a context to clearing
\* _callInit (BasicBehaviour.cpp:107, 151), when the request may be lost.
RunsInitialised ==
  pc["thread"] = "run" =>
    h.initIn = bb.contextInRun \/ bb.contextInRun \in h.raced

\* Rules take the success and failure of a behaviour for those of the plan that
\* runs it now (RunningPlan::getStatus): flags raised in an older context, by a
\* run that was stopped but not over, are hidden by _callInit (line 125) until
\* initInternal has cleared them, but for the same window.
ReportsBelongToContext ==
  pc["engine"] = "answer" /\ Answer => asked = bb.context \/ bb.context \in h.raced

Method ==
  CASE pc["thread"] \in {"initFlag", "initCall", "init"} -> "init"
    [] pc["thread"] \in {"run", "term"} -> pc["thread"]
    [] OTHER -> "none"

Life == INSTANCE BehaviourLife
          WITH inside <- bb.contextInRun, last <- h.last, method <- Method

\* Whatever is started, stopped, triggered or shut down meanwhile, domain code
\* sees methods one by one, inside contexts that only go forward.
ImplementsLife == Life!LifeSpec

\* A timed behaviour that was started is run in that plan unless it is stopped
\* again, shut down, or the notification fell between test and wait of its
\* thread, since start() does not hold _runLoopMutex (line 108).
StartedRuns ==
  \A c \in Contexts :
    (bb.running /\ bb.context = c /\ ~ bb.eventDriven) ~>
      (bb.contextInRun = c \/ ~ bb.running \/ bb.context # c \/ ~ bb.started \/ h.lost)

\* The context of a plan that was left is left too, so that the plan can be
\* deleted, as long as the engine is not shut down.
ContextsLeft ==
  \A c \in Contexts :
    (bb.contextInRun = c /\ (bb.context > c \/ ~ active)) ~>
      (bb.contextInRun # c \/ ~ bb.started)

\* terminate() joins the thread: it ends, unless the same notification is lost.
TerminateReturns == (pc["main"] = "terminate") ~> (pc["main"] = "done" \/ h.lost)
===============================================================================
