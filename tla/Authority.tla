------------------------------- MODULE Authority -------------------------------
(***************************************************************************)
(* Allocation authority: the CycleManagers of one plan on all robots and   *)
(* the AuthorityManagers that exchange their claims.                       *)
(*                                                                         *)
(* A robot that sees its plan go round between an allocation it finds      *)
(* better and what the others report overrides the others for a while: it  *)
(* shouts its assignment, and robots with lower identifiers adopt it.      *)
(*                                                                         *)
(* Time is abstract: intervals may be over at any time, but a new claim is  *)
(* shouted first.  All robots take part in one plan; plan types and robots *)
(* that leave the plan are left out.                                       *)
(***************************************************************************)
EXTENDS Naturals, FiniteSets, Sequences, SequencesExt

CONSTANTS
  NumRobots,        \* robots are their identifiers 1 .. NumRobots
  Agents,           \* robots that are assigned a task in the plan
  EntryPoints,      \* the tasks of the plan
  HistorySize,      \* CycleDetection.HistorySize
  MaxCycles,        \* CycleDetection.CycleCount
  MaxDetections,    \* bound: cycles detected altogether
  Deciders          \* bound: robots whose assignment utilities and reports change

Robots == 1..NumRobots

ASSUME AuthorityAssumption ==
  /\ NumRobots \in Nat \ {0}
  /\ HistorySize \in Nat \ {0}
  /\ MaxCycles \in Nat
  /\ MaxDetections \in Nat
  /\ Agents \subseteq Nat
  /\ Deciders \subseteq Robots

VARIABLES
  ass,          \* ass[r]: the assignment of the plan as r sees it
  hist,         \* hist[r]: its changes, _allocationHistory, newest last
  cm,           \* cm[r]: the CycleManager of r
  net,          \* net[r]: messages in flight to r
  detections,   \* number of cycles detected
  claimed       \* history: robots that have claimed authority

vars == <<ass, hist, cm, net, detections, claimed>>

Assignment == [Agents -> EntryPoints]

\* AllocationAuthorityInfo
Info   == [authority : Robots, ass : Assignment]
NoInfo == [authority |-> 0]

CycleState == {"observing", "overridden", "overriding"}

\* mustShout: overrideShoutTime is zero.
CycleManager == [state : CycleState, fixed : Info \cup {NoInfo}, mustShout : BOOLEAN]

\* A slot of the history: the assignments before and after, and the reason.
NoChange == [reason |-> "empty"]
Change   == [reason : {"message", "utility"}, before : Assignment, after : Assignment]

-------------------------------------------------------------------------------
(* AllocationDifference *)

NoDifference == [add |-> {}, sub |-> {}]

Pairs(a) == {<<q, a[q]>> : q \in Agents}

\* setNewAllocDiff
Difference(c) == [add |-> Pairs(c.after) \ Pairs(c.before),
                  sub |-> Pairs(c.before) \ Pairs(c.after)]

\* d followed by o, each pair undoing its opposite.
ApplyDifference(d, o) ==
  LET add == d.add \cup (o.add \ d.sub)
  IN  [add |-> add \ o.sub, sub |-> (d.sub \ o.add) \cup (o.sub \ add)]

\* Mutant: off by one.
AtLeast(cycles) == cycles >= MaxCycles

TooMany(cycles) == cycles > MaxCycles

\* One slot of the walk: a utility change begins a cycle, the messages before it
\* close the cycle; two utility changes or an empty slot end the search.
Look(w, c) ==
  IF w.over THEN w
  ELSE IF c.reason = "utility"
  THEN IF w.open THEN [w EXCEPT !.over = TRUE]
       ELSE [w EXCEPT !.open = TRUE, !.temp = ApplyDifference(NoDifference, Difference(c))]
  ELSE IF c.reason = "empty" THEN [w EXCEPT !.over = TRUE]
  ELSE IF ~ w.open THEN w
  ELSE LET temp == ApplyDifference(w.temp, Difference(c))
       IN  IF temp # NoDifference THEN [w EXCEPT !.temp = temp]
           ELSE [w EXCEPT !.temp = temp, !.open = FALSE, !.cycles = @ + 1,
                          !.found = TooMany(w.cycles + 1), !.over = TooMany(w.cycles + 1)]

\* detectAllocationCycle, from the newest slot to the oldest.
DetectAllocationCycle(changes) ==
  LET walk[n \in 0..Len(changes)] ==
        IF n = 0 THEN [open |-> FALSE, temp |-> NoDifference, cycles |-> 0,
                       found |-> FALSE, over |-> FALSE]
        ELSE Look(walk[n - 1], changes[Len(changes) + 1 - n])
  IN  walk[Len(changes)].found

EmptyHistory == [k \in 1..HistorySize |-> NoChange]

\* editNextDifference: the oldest slot is used again.
Record(r, reason, after) ==
  hist' = [hist EXCEPT ![r] =
             Append(Tail(@), [reason |-> reason, before |-> ass[r], after |-> after])]

-------------------------------------------------------------------------------
(* What changes an assignment *)

\* dynamicAllocationRule finds a better one: not while overridden.
UtilityChange(r) ==
  /\ r \in Deciders
  /\ cm[r].state # "overridden"
  /\ \E a \in Assignment \ {ass[r]} :
       /\ ass' = [ass EXCEPT ![r] = a]
       /\ Record(r, "utility", a)
  /\ UNCHANGED <<cm, net, detections, claimed>>

\* keepTask || auth: an overriding robot does not move the others.
MayMove(r) == cm[r].state # "overriding"

\* recursiveUpdateAssignment with the plan tree of q, or with none: recorded
\* whether or not it changes anything.
MessageChange(r) ==
  /\ r \in Deciders
  /\ \E q \in Agents \ {r} : \E e \in EntryPoints :
       /\ e # ass[r][q] => MayMove(r)
       /\ ass' = [ass EXCEPT ![r][q] = e]
       /\ Record(r, "message", ass'[r])
  /\ UNCHANGED <<cm, net, detections, claimed>>

\* authorityOverrideRule: applyAssignment is not recorded.
ApplyAssignment(r) ==
  /\ cm[r].state = "overridden" /\ cm[r].fixed # NoInfo
  /\ ass' = [ass EXCEPT ![r] = cm[r].fixed.ass]
  /\ UNCHANGED <<hist, cm, net, detections, claimed>>

-------------------------------------------------------------------------------
(* CycleManager::update *)

Overriding(c) == [c EXCEPT !.state = "overriding", !.mustShout = TRUE]

DetectCycle(r) ==
  /\ cm[r].state = "observing"
  /\ detections < MaxDetections
  /\ DetectAllocationCycle(hist[r])
  /\ hist' = [hist EXCEPT ![r] = EmptyHistory]
  /\ cm' = [cm EXCEPT ![r] = Overriding(@)]
  /\ detections' = detections + 1
  /\ claimed' = claimed \cup {r}
  /\ UNCHANGED <<ass, net>>

Observing(c) == [c EXCEPT !.state = "observing", !.fixed = NoInfo]

\* The authority's time is over, or nothing was heard of it for that time.
ResumeObserving(r) ==
  /\ cm[r].state # "observing"
  /\ cm' = [cm EXCEPT ![r] = Observing(@)]
  /\ UNCHANGED <<ass, hist, net, detections, claimed>>

-------------------------------------------------------------------------------
(* AuthorityManager::tick *)

\* Mutant: every claim of another robot is rejected.
RejectAll(r, c, m) == IF c.state = "overriding" THEN c ELSE Overriding(c)

\* Mutant: identifiers compared the wrong way round.
ObeyLower(r, c, m) ==
  IF m.authority < r THEN [c EXCEPT !.state = "overridden", !.fixed = m]
  ELSE IF c.state = "overriding" THEN c ELSE Overriding(c)

\* handleAuthorityInfo: a higher robot is obeyed, a lower one is rejected.
HandleAuthorityInfo(r, c, m) ==
  IF m.authority = r THEN c
  ELSE IF m.authority > r
  THEN [c EXCEPT !.state = "overridden", !.fixed = m, !.mustShout = FALSE]
  ELSE IF c.state = "overriding" THEN c ELSE Overriding(c)

\* The queue, from its front.
HandleAll(r, before, heard) ==
  LET c[k \in 0..Len(heard)] ==
        IF k = 0 THEN before ELSE HandleAuthorityInfo(r, c[k - 1], heard[k])
  IN  c[Len(heard)]

Shout(r) == [authority |-> r, ass |-> ass[r]]

\* An overriding robot shouts when its interval is over; each of the others may
\* miss it, and one message per sender waits.  Then the messages that have
\* arrived, in any order, are handled.  A rejection that a later message of the
\* same tick overrides is no claim.
TickWith(r, shouts, heard, reached) ==
  LET before == IF shouts THEN [cm[r] EXCEPT !.mustShout = FALSE] ELSE cm[r]
      after  == HandleAll(r, before, heard)
  IN  /\ cm' = [cm EXCEPT ![r] = after]
      /\ claimed' = IF after.state = "overriding" THEN claimed \cup {r} ELSE claimed
      /\ net' = [q \in Robots |->
                   IF q = r THEN net[r] \ ToSet(heard)
                   ELSE IF q \in reached
                   THEN {m \in net[q] : m.authority # r} \cup {Shout(r)}
                   ELSE net[q]]

Tick(r) ==
  /\ \E shouts \in BOOLEAN : \E heardSet \in SUBSET net[r] :
     \E heard \in SetToSeqs(heardSet) : \E reached \in SUBSET (Robots \ {r}) :
       /\ shouts => cm[r].state = "overriding"
       /\ cm[r].state = "overriding" /\ cm[r].mustShout => shouts
       /\ ~ shouts => reached = {}
       /\ shouts \/ heard # << >>
       /\ TickWith(r, shouts, heard, reached)
  /\ UNCHANGED <<ass, hist, detections>>

-------------------------------------------------------------------------------
Init ==
  /\ \E a \in Assignment : ass = [r \in Robots |-> a]
  /\ hist = [r \in Robots |-> EmptyHistory]
  /\ cm = [r \in Robots |->
             [state |-> "observing", fixed |-> NoInfo, mustShout |-> FALSE]]
  /\ net = [r \in Robots |-> {}]
  /\ detections = 0
  /\ claimed = {}

Next ==
  \E r \in Robots :
    \/ UtilityChange(r) \/ MessageChange(r) \/ ApplyAssignment(r)
    \/ DetectCycle(r) \/ ResumeObserving(r) \/ Tick(r)

Spec == Init /\ [][Next]_vars

\* Messages in flight are heard in the end, and intervals pass: a claim ends, and
\* a robot that no claim is on its way to is no longer overridden.
Fairness ==
  \A r \in Robots :
    /\ WF_vars(Tick(r) /\ net'[r] = {})
    /\ WF_vars(cm[r].state = "overriding" /\ ResumeObserving(r))
    /\ WF_vars(cm[r].state = "overridden" /\ net[r] = {} /\ ResumeObserving(r))

FairSpec == Spec /\ Fairness
===============================================================================
