--------------------------- MODULE BinaryRoundTrip ---------------------------
(***************************************************************************)
(* The binary parser reading what the binary generator wrote: the same     *)
(* object table, once as it is built and once as it is resolved.           *)
(***************************************************************************)
EXTENDS BinaryGenerator, ValueNesting

CONSTANT MaxParseDepth   (* depth.rs: 128 in the program *)

VARIABLES objects, stack, step   (* the parser's, see BinaryParser *)

TheDocument == CHOOSE d \in document : TRUE

Reader == INSTANCE BinaryParser WITH Documents <- {}, doc <- TheDocument

Idle    == [op |-> "Idle"]
allVars == <<vars, objects, stack, step>>

RoundTripInit == Init /\ objects = << >> /\ stack = << >> /\ step = Idle

(* The parser starts on the document when there is one. *)
Generate ==
  /\ Next
  /\ step' = IF document' # {} /\ document' # {Failed}
             THEN Reader!Resolve((CHOOSE d \in document' : TRUE).top) ELSE step
  /\ UNCHANGED <<objects, stack>>

Parse ==
  /\ step # Idle
  /\ UNCHANGED vars
  /\ Reader!Next

Refused == document = {Failed} /\ UNCHANGED allVars

RoundTripNext == Generate \/ Parse \/ Refused
RoundTripSpec == RoundTripInit /\ [][RoundTripNext]_allVars

-----------------------------------------------------------------------------
(***************************************************************************)
(* What survives: everything but the sign flag of an integer, the sign of  *)
(* a zero and what data with the same checksum differ in.                  *)
(***************************************************************************)
RECURSIVE Essence(_)
Essence(v) ==
  CASE v.type = "integer" -> Integer(v.number)
    [] v.type = "real"    -> [v EXCEPT !.real = zero_normalized(@)]
    [] v.type = "data"    -> [type |-> "data", crc |-> Crc(v.bytes)]
    [] v.type = "array"   -> Array([k \in DOMAIN v.items |-> Essence(v.items[k])])
    [] v.type = "dictionary" ->
         Dictionary([k \in DOMAIN v.entries |-> Entry(v.entries[k].key, Essence(v.entries[k].value))])
    [] OTHER -> v

RECURSIVE HoldsNaN(_)
HoldsNaN(v) ==
  CASE v.type = "array"      -> \E k \in DOMAIN v.items : HoldsNaN(v.items[k])
    [] v.type = "dictionary" -> \E k \in DOMAIN v.entries : HoldsNaN(v.entries[k].value)
    [] OTHER                 -> IsNaN(v)

(* What the generator wrote the parser reads back: the same value, with    *)
(* the uniquing of scalars, the last-wins booleans and UIDs, the orphans   *)
(* they leave and the integer widths unseen; a value nested beyond the cap *)
(* is written all the same and answered with MaxDepthExceeded.  The one    *)
(* value that is not written is a container with a NaN in it               *)
(* (generator.rs:30-33).                                                   *)
RoundTrip ==
  /\ step.op = "Ok"  => Nesting(root) <= MaxParseDepth /\ Essence(step.value) = Essence(root)
  /\ step.op = "Err" => Nesting(root) > MaxParseDepth /\ step.kind = "MaxDepthExceeded"
  /\ document # {} => (document = {Failed} <=> IsHolder(root) /\ HoldsNaN(root))

=============================================================================
