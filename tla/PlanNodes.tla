-------------------------------- MODULE PlanNodes -------------------------------
(***************************************************************************)
(* The form of a plan file: the sequence of its XML nodes in document      *)
(* order.  A node creates an element, or refers to one by the file that    *)
(* holds it and its identifier; attributes that refer to nothing are left  *)
(* out.                                                                    *)
(***************************************************************************)
Here == "here"         \* a reference without a locator
NoElement == 0         \* what the root of a file belongs to

Element(kind, id, of)     == [what |-> "element", kind |-> kind, id |-> id, of |-> of, file |-> Here]
Reference(tag, of, id, f) == [what |-> "reference", kind |-> tag, id |-> id, of |-> of, file |-> f]
================================================================================
