-------------------------------- MODULE PlanFiles -------------------------------
(***************************************************************************)
(* What a set of plan files describes, whatever the order they are read in. *)
(*                                                                         *)
(* One step of this specification answers what the engine may make of the  *)
(* files.                                                                   *)
(***************************************************************************)
EXTENDS Naturals, FiniteSets, Sequences, Functions, PlanNodes

CONSTANTS
  Files,        \* file names
  Extension,    \* Extension[f]: the kind of root element its ending stands for
  MasterFile,   \* the file of the master plan
  RoleFile,     \* the file of the role set
  Projects      \* the contents of the disk that are considered

\* content[f]: the nodes of the files that exist; fits: the role set is the
\* default one or usable with the master plan.
Project == [content : UNION {[S -> Seq([what : {"element", "reference"}, kind : STRING,
                                         id : Nat, of : Nat, file : Files \cup {Here}])] :
                                S \in SUBSET Files},
            fits : BOOLEAN]

VARIABLES
  disk,     \* the files
  outcome   \* what was made of them: nothing yet, a repository, or how it went wrong

None      == [how |-> "none"]
Aborted   == [how |-> "aborted"]
Undefined == [how |-> "undefined"]

-------------------------------------------------------------------------------
(* What is written where.                                                   *)

Exists == DOMAIN disk.content
Nodes(f) == Range(disk.content[f])
Named(f) == {n.file : n \in Nodes(f)} \ {Here}

\* The files that are found from a first one by following references.
Found(first) ==
  {f \in Files : \A S \in SUBSET Files :
     first \in S /\ (\A g \in S \cap Exists : Named(g) \subseteq S) => f \in S}

PlanSide == Found(MasterFile)
RoleSide == Found(RoleFile)

ElementsIn(S)   == {n \in UNION {Nodes(f) : f \in S} : n.what = "element"}
ReferencesIn(S) == {n \in UNION {Nodes(f) : f \in S} : n.what = "reference"}

Places(S) ==
  UNION {{<<f, i>> : i \in {i \in DOMAIN disk.content[f] : disk.content[f][i].what = "element"}} :
           f \in S \cap Exists}

At(p) == disk.content[p[1]][p[2]]

\* Two elements of one identifier.  Configurations are not checked for it: an
\* element read later aborts, one read before stays in the configuration's place.
Doubles(S)  == {pq \in Places(S) \X Places(S) : pq[1] # pq[2] /\ At(pq[1]).id = At(pq[2]).id}
Shadows(S)  == {pq \in Doubles(S) : "BehaviourConfiguration" \in {At(pq[1]).kind, At(pq[2]).kind}}

KindOf(S, id) == {e.kind : e \in {e \in ElementsIn(S) : e.id = id}}

-------------------------------------------------------------------------------
(* What can be wrong with them.                                              *)

PlanKinds == {"Plan", "TaskRepository", "Behaviour", "PlanType", "PlanningProblem"}
RoleKinds == {"RoleDefinitionSet", "CapabilityDefinitionSet"}

AbstractPlans == {"Plan", "PlanType", "BehaviourConfiguration", "PlanningProblem"}

\* The kinds of element a reference may name.
Wanted(tag) ==
  CASE tag \in {"plans", "subplan"}                         -> AbstractPlans
    [] tag \in {"waitPlan", "alternativePlan"}              -> {"Plan"}
    [] tag \in {"inState", "outState", "state"}             -> {"State", "SuccessState", "FailureState"}
    [] tag \in {"inTransitions", "outTransitions"}          -> {"Transition"}
    [] tag \in {"vars", "var", "subvar"}                    -> {"Variable"}
    [] tag = "synchronisation"                              -> {"SyncTransition"}
    [] tag = "task"                                         -> {"Task"}
    [] tag = "role"                                         -> {"Role"}
    [] tag = "capability"                                   -> {"Capability"}
    [] tag = "value"                                        -> {"CapValue"}
    [] tag = "scope"                                        -> AbstractPlans \cup {"State", "EntryPoint"}

\* Something is missing, of an unknown kind, of a double identifier, or read twice.
\* PlanWriter spells the type of a plan's post condition in a way not known.
Unreadable(first, S, kinds) ==
  \/ ~ S \subseteq Exists
  \/ \E f \in S \ {first} : Extension[f] \notin kinds
  \/ \E f \in S : f \in Named(f)
  \/ Doubles(S) \ Shadows(S) # {}
  \/ \E e \in ElementsIn(S) : e.kind = "postCondition"

Dangling(S, all) ==
  \E r \in ReferencesIn(S) : r.kind # "inState" /\ KindOf(all, r.id) \cap Wanted(r.kind) = {}

\* A state claims an incoming transition that leads elsewhere.
Contradiction(S) ==
  \E r \in ReferencesIn(S) : r.kind = "inTransitions"
    /\ ~ \E a \in ReferencesIn(S) : a.kind = "outState" /\ a.of = r.id /\ a.id = r.of

-------------------------------------------------------------------------------
(* The repository they describe.                                            *)

\* The states of a transition follow from the transitions of the states.
Links(S) == {<<r.kind, r.of, r.id>> :
               r \in {r \in ReferencesIn(S) : r.kind \notin {"inState", "inTransitions"}}}

PlanOf(S, id) == (CHOOSE e \in ElementsIn(S) : e.id = id).of

\* States one can get to by the outgoing transitions of states.
Steps(S) ==
  {<<o.of, a.id>> : <<o, a>> \in {<<o, a>> \in ReferencesIn(S) \X ReferencesIn(S) :
     o.kind = "outTransitions" /\ a.kind = "outState" /\ a.of = o.id}}

StartOf(S, ep) == {r.id : r \in {r \in ReferencesIn(S) : r.kind = "state" /\ r.of = ep}}

StatesOf(S) == {e.id : e \in {e \in ElementsIn(S) : e.kind \in Wanted("state")}}

ReachedFrom(S, ep) ==
  LET steps == Steps(S)
      start == StartOf(S, ep)
  IN {s \in StatesOf(S) : \A T \in SUBSET StatesOf(S) :
        start \subseteq T /\ (\A st \in steps : st[1] \in T => st[2] \in T) => s \in T}

EntryPointsOf(S) == {e.id : e \in {e \in ElementsIn(S) : e.kind = "EntryPoint"}}

\* Every state belongs to one of the entry points that reach it.
BackPointers(S) ==
  LET reached == [ep \in EntryPointsOf(S) |-> ReachedFrom(S, ep)]
      owned   == UNION Range(reached)
  IN {own \in [owned -> EntryPointsOf(S)] : \A s \in owned : s \in reached[own[s]]}

\* Transitions that some state has as its own.
Used(S) ==
  {e.id : e \in {e \in ElementsIn(S) : e.kind = "Transition"
     /\ \E r \in ReferencesIn(S) : r.kind = "outTransitions" /\ r.id = e.id}}

Repositories ==
  LET all == PlanSide \cup RoleSide
  IN {[how |-> "repository", elements |-> {<<e.id, e.kind, e.of>> : e \in ElementsIn(all)},
       links |-> Links(all), transitions |-> Used(PlanSide), entryPoint |-> own] :
        own \in BackPointers(PlanSide)}

AllTasked == \A ep \in EntryPointsOf(PlanSide) :
               \E r \in ReferencesIn(PlanSide) : r.kind = "task" /\ r.of = ep

Outcomes ==
  LET all == PlanSide \cup RoleSide
  IN IF Unreadable(MasterFile, PlanSide, PlanKinds)     THEN {Aborted}
     ELSE IF Shadows(PlanSide) # {}                     THEN {Aborted, Undefined}
     ELSE IF Dangling(PlanSide, PlanSide) \/ Contradiction(PlanSide)
       THEN {Undefined : x \in {x \in {1} : Dangling(PlanSide, PlanSide)}}
              \cup {Aborted : x \in {x \in {1} : Contradiction(PlanSide)}}
     ELSE IF ~ disk.fits                                THEN {Aborted}
     ELSE IF Unreadable(RoleFile, RoleSide, RoleKinds)
             \/ Doubles(all) # {}                       THEN {Aborted}
     ELSE IF Dangling(RoleSide, all)                    THEN {Undefined}
     ELSE IF ~ AllTasked                                THEN {Aborted}
     ELSE Repositories

-------------------------------------------------------------------------------

Init ==
  /\ disk \in Projects
  /\ outcome = None

Answer ==
  /\ outcome = None
  /\ outcome' # None
  /\ outcome' \in Outcomes
  /\ UNCHANGED disk

\* The files are replaced and read anew.
Replace ==
  /\ outcome.how = "repository"
  /\ outcome' = None

Spec == Init /\ [][Answer \/ Replace]_<<disk, outcome>>
================================================================================
