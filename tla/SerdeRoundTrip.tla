---------------------------- MODULE SerdeRoundTrip ----------------------------
(***************************************************************************)
(* What serialization and deserialization make of a whole value.  For TLC  *)
(* only.                                                                   *)
(***************************************************************************)
EXTENDS Serde

(* How deep a value nests, counting the containers on the way in. *)
Nest == INSTANCE ValueNesting

(* What the visitor of Value gets is a Value again. *)
RECURSIVE Rebuilt(_)
Rebuilt(r) ==
  CASE r.type = "map"   -> Dictionary([k \in DOMAIN r.got |->
                             Entry(r.got[k].key.text, Rebuilt(CHOOSE w \in r.got[k].value : TRUE))])
    [] r.type = "array" -> Array([k \in DOMAIN r.items |-> Rebuilt(r.items[k])])
    [] OTHER            -> r

(* A Value is serialized into itself, whatever its depth, and any Value is *)
(* deserialized into itself, lax or not, if it nests no deeper than the    *)
(* cap; if it does the answer is that it is too deep (ser.rs:699-759,      *)
(* de.rs:275-296, 794-934).                                                *)
RoundTrip ==
  /\ result # {} => \A v \in source : result = {Ok(v)}
  /\ visitor = "Value" /\ answer # {} /\ accesses = << >> =>
       IF Nest!Nesting(Made_Value.value) <= MaxParseDepth
       THEN Answer.ok /\ Rebuilt(Answer.value) = Made_Value.value
       ELSE Answer = Bad("MaxDepthExceeded")

=============================================================================
