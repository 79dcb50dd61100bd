----------------------------- MODULE BehaviourLife -----------------------------
(***************************************************************************)
(* What the engine promises to the code of a behaviour: its methods run one *)
(* at a time and only inside the context of a plan, contexts never go back  *)
(* to an older plan, and onTermination is the last call inside a context.   *)
(***************************************************************************)
EXTENDS Naturals

CONSTANTS MaxContexts    \* contexts are numbered in the order of their starts

VARIABLES
  inside,    \* the context the behaviour is in, 0 for none
  last,      \* the context it entered last
  method     \* the method of the behaviour that runs

life == <<inside, last, method>>

LifeInit == inside = 0 /\ last = 0 /\ method = "none"

\* The behaviour enters a context, possibly straight from an older one.
EnterContext(c) ==
  /\ method = "none"
  /\ c >= last
  /\ inside' = c /\ last' = c
  /\ UNCHANGED method

Call(m) ==
  /\ method = "none" /\ inside # 0
  /\ method' = m
  /\ UNCHANGED <<inside, last>>

\* initialiseParameters is followed by run, onTermination leaves the context.
Return ==
  \/ method = "init" /\ method' = "run" /\ UNCHANGED <<inside, last>>
  \/ method = "run"  /\ method' = "none" /\ UNCHANGED <<inside, last>>
  \/ method = "term" /\ method' = "none" /\ inside' = 0 /\ UNCHANGED last

\* The behaviour is shut down.
LeaveContext ==
  /\ method = "none"
  /\ inside' = 0
  /\ UNCHANGED <<last, method>>

LifeNext ==
  \/ \E c \in 1..MaxContexts : EnterContext(c)
  \/ \E m \in {"init", "run", "term"} : Call(m)
  \/ Return \/ LeaveContext

LifeSpec == LifeInit /\ [][LifeNext]_life
===============================================================================
