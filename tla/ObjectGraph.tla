----------------------------- MODULE ObjectGraph -----------------------------
(***************************************************************************)
(* What resolving the object table of a binary property list promises,     *)
(* without a stack, an order or a memo discipline: objects get their       *)
(* values one at a time, each from the values of the objects it refers     *)
(* to, a value once given never changes, and the document is the value of  *)
(* its top object.  A resolver may give up at any time.                    *)
(*                                                                         *)
(* What an object's value is, and which values it needs, is a parameter.   *)
(* BinaryParser implements this specification.                             *)
(***************************************************************************)
CONSTANTS
  Documents,
  Indices(_),        (* the objects of a document *)
  Solvable(_, _, _), (* the memo holds what the object's value needs *)
  ValueOf(_, _, _)   (* the value it then has *)

VARIABLES
  doc,           (* the document being read *)
  objects,       (* the values found so far, by object index *)
  outcome        (* "running", "ok" or "error" *)

vars == <<doc, objects, outcome>>

Init ==
  /\ doc \in Documents
  /\ objects = << >>
  /\ outcome = "running"

(* The value of an object whose needs are met: in a cycle they never are. *)
Solve(i) ==
  /\ outcome = "running"
  /\ i \notin DOMAIN objects
  /\ Solvable(doc, i, objects)
  /\ objects' = [j \in DOMAIN objects \cup {i} |->
                   IF j = i THEN ValueOf(doc, i, objects) ELSE objects[j]]
  /\ UNCHANGED <<doc, outcome>>

Succeed ==
  /\ outcome = "running"
  /\ doc.top \in DOMAIN objects
  /\ outcome' = "ok"
  /\ UNCHANGED <<doc, objects>>

GiveUp ==
  /\ outcome = "running"
  /\ outcome' = "error"
  /\ UNCHANGED <<doc, objects>>

Next ==
  \/ \E i \in Indices(doc) : Solve(i)
  \/ Succeed
  \/ GiveUp

Spec == Init /\ [][Next]_vars

=============================================================================
