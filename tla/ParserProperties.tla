----------------------------- MODULE ParserProperties ----------------------------
(***************************************************************************)
(* What reading the plan and role files has to achieve.                     *)
(***************************************************************************)
EXTENDS PlanParser

(* Types of the variables.                                                  *)
TypeOK ==
  /\ phase \in Phases
  /\ filesToParse \in Seq(Files)
  /\ filesParsed \in Seq(Files)
  /\ \A id \in DOMAIN elements : elements[id].kind \in DOMAIN Creators
  /\ \A l \in Lists : \A i \in DOMAIN pending[l] :
       pending[l][i][1] \in DOMAIN elements /\ pending[l][i][2] \in Nat
  /\ \A a \in attached : a[1] \in Lists /\ {a[2], a[3]} \subseteq DOMAIN elements
  /\ transitions \subseteq DOMAIN elements
  /\ DOMAIN entryPoint \subseteq DOMAIN elements
  /\ toReach \subseteq DOMAIN elements

(* However files refer to each other, in a circle or several to one, no      *)
(* existing file is read twice or read and queued: the search of fetchId in  *)
(* the files parsed and the files to parse.  The file being read is in       *)
(* neither, so one that names itself is the exception.                       *)
NoDoubleRead ==
  LET files == filesParsed \o filesToParse
  IN \A i, j \in DOMAIN files :
       i # j /\ files[i] = files[j] =>
         files[i] \notin Exists \/ files[i] \in PF!Named(files[i])

(* Each file once, and every reference that waits leads from a created element *)
(* to an identifier.                                                         *)
FilesReadOnce == TypeOK /\ NoDoubleRead

(* What the constructor of the engine ends with is what the files describe,   *)
(* whatever the order they are queued in and the entry points are visited    *)
(* in: all elements and links of the files found from the master plan and    *)
(* the role set, transitions that belong to a state, an entry point for each *)
(* state that has one reaching it; or an abort if and only if they are       *)
(* contradictory.                                                            *)
ReadTags(ref) ==
  {tag \in DOMAIN Creators[elements[ref[2]].kind].lists :
     Creators[elements[ref[2]].kind].lists[tag] = ref[1]}

Result ==
  IF phase = "done"
    THEN [how |-> "repository",
          elements    |-> {<<id, elements[id].kind, elements[id].of>> : id \in DOMAIN elements},
          links       |-> {<<CHOOSE tag \in ReadTags(a) : TRUE, a[2], a[3]>> : a \in attached},
          transitions |-> transitions,
          entryPoint  |-> entryPoint]
    ELSE [how |-> IF phase \in {"aborted", "undefined"} THEN phase ELSE "none"]

(* The plans that PlanWriter writes are read back as they were, elements,      *)
(* references and transitions, as its test expects of the files.  Left out   *)
(* are plans with a post condition, which is written so that it is not read,  *)
(* and with a transition that no state has as its own, which is not written  *)
(* while the state it leads to still names it.                               *)
Readable(was, links, kept) ==
  /\ \A a \in links : a[1] = "transitionAim" => a[2] \in kept
  /\ \A id \in DOMAIN was : was[id].kind = "PostCondition" => was[was[id].of].kind # "Plan"

SavedPlansReadBack ==
  written # << >> /\ Readable(written[1], written[2], written[3]) =>
    /\ phase \notin {"aborted", "undefined"}
    /\ phase = "done" => written = <<elements, attached, transitions>>

Described == INSTANCE PlanFiles WITH outcome <- Result

ImplementsFiles == Described!Spec
================================================================================
