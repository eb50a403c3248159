--------------------------- MODULE ValueDeserializer ---------------------------
(***************************************************************************)
(* Deserialization from values (src/src/value/de.rs): a type asks a        *)
(* ValueDeserializer for what it expects, and its visitor gets a scalar,   *)
(* or an access it takes elements from as long as it likes.                *)
(*                                                                         *)
(* The visitor that is running is the one of the top access.  seed is the  *)
(* deserializer that was just handed out; what deserializing it returned   *)
(* is left in answer, for the visitor below.  A visitor that gets an error *)
(* returns it, or makes do without; it may let go of what it is handed.    *)
(* option, and newtype_struct but for the sentinels, hand on the           *)
(* deserializer they get and have no step of their own.                    *)
(***************************************************************************)
EXTENDS PlistValue, NumberText, Functions

CONSTANTS
  MaxParseDepth,   (* depth.rs: 128 in the program *)
  ByteOf(_)        (* the number of a byte of data *)

ASSUME DeserializerAssumption == MaxParseDepth \in Nat

VARIABLES
  accesses,   (* the accesses in use, outermost first *)
  seed,       (* the deserializer handed out: a set *)
  answer      (* what deserializing it returned: a set *)

deVars == <<accesses, seed, answer>>

Good(value) == [ok |-> TRUE, value |-> value]
Bad(kind)   == [ok |-> FALSE, kind |-> kind]

(* What is made of a deserializer without asking it. *)
Nothing == [type |-> "nothing"]

At(value, depth, lax) == [value |-> value, depth |-> depth, lax |-> lax]

(* An access into a container: what is left, the value of a key that was   *)
(* handed out, and what the visitor has got.  An enum access holds its     *)
(* variant and its payload, and is asked for them in this order.           *)
Access(name, from, rest, pending, depth, lax) ==
  [name |-> name, from |-> from, rest |-> rest, pending |-> pending, depth |-> depth, lax |-> lax, got |-> << >>]

Inner        == accesses[Len(accesses)]
Outer        == SubSeq(accesses, 1, Len(accesses) - 1)
WithInner(a) == [accesses EXCEPT ![Len(accesses)] = a]
InnerIs(ns)  == accesses # << >> /\ Inner.name \in ns
Seed         == CHOOSE s \in seed : TRUE
Answer       == CHOOSE a \in answer : TRUE

-----------------------------------------------------------------------------
(***************************************************************************)
(* What a deserializer does when it is asked: call the visitor with a      *)
(* scalar, give it an access, or fail.                                     *)
(***************************************************************************)
Visit(value)  == [does |-> "visit", value |-> value]
Fail(kind)    == [does |-> "fail", kind |-> kind]
Enter(access) == [does |-> "enter", access |-> access]
Mismatch      == Fail("TypeMismatch")

(* A lax text: the scalar it reads as. *)
Coerced(scalars) == IF scalars = {} THEN Fail("ParseScalar") ELSE Visit(CHOOSE v \in scalars : TRUE)

DescendLate(depth) == IF depth > MaxParseDepth THEN {} ELSE {depth + 1}   (* mutant: > for >= *)

(* guard_descent: the depth inside a container, if there may be one. *)
Descend(depth) == IF depth >= MaxParseDepth THEN {} ELSE {depth + 1}

EnterAt(name, s, rest, depths) ==
  IF depths = {} THEN Fail("MaxDepthExceeded")
  ELSE Enter(Access(name, s.value, rest, {}, CHOOSE d \in depths : TRUE, s.lax))

visit_array(s)      == EnterAt("seq", s, s.value.items, Descend(s.depth))
visit_dictionary(s) == EnterAt("map", s, s.value.entries, Descend(s.depth))

(* Data as a sequence of integers, which is no container of its own. *)
visit_bytes(s) ==
  EnterAt("seq", s, [k \in DOMAIN s.value.bytes |-> Integer(ByteOf(s.value.bytes[k]))], {s.depth})

(* The text of a date is what its visitor gets. *)
visit_date(dates) ==
  IF dates = {} THEN Fail("ParseScalar")
  ELSE Visit(String(format_sentinel_date(CHOOSE d \in dates : TRUE)))

(* A UID is its number to an integer target. *)
integer_target(s, parsed) ==
  CASE s.value.type = "integer"          -> Visit(s.value)
    [] s.value.type = "uid"              -> Visit(Integer(s.value.bits))
    [] s.value.type = "string" /\ s.lax  -> Coerced({Integer(n) : n \in parsed})
    [] OTHER                             -> Mismatch

(* A narrow real is widened. *)
float_target(s) ==
  CASE s.value.type = "real"             -> Visit(Real(s.value.real, TRUE))
    [] s.value.type = "string" /\ s.lax  -> Coerced({Real(f, TRUE) : f \in parse_f64(s.value.text)})
    [] OTHER                             -> Mismatch

deserialize_bool(s) ==
  CASE s.value.type = "boolean"          -> Visit(s.value)
    [] s.value.type = "string" /\ s.lax  -> Coerced({Boolean(b) : b \in parse_bool(s.value.text)})
    [] OTHER                             -> Mismatch

string_target(s) == IF s.value.type = "string" THEN Visit(s.value) ELSE Mismatch

date_sentinel(s) ==
  CASE s.value.type = "date"             -> visit_date({s.value.instant})
    [] s.value.type = "string" /\ s.lax  -> visit_date(parse_text_layout(s.value.text))
    [] OTHER                             -> Mismatch

(* A string is a unit variant, a dictionary of one entry a variant with a  *)
(* payload. *)
deserialize_enum(s) ==
  CASE s.value.type = "string" ->
         Enter(Access("enum", s.value, <<s.value.text>>, {}, s.depth, s.lax))
    [] s.value.type = "dictionary" ->
         IF Descend(s.depth) # {} /\ Len(s.value.entries) # 1 THEN Fail("Message")
         ELSE EnterAt("enum", s, [k \in DOMAIN s.value.entries |-> s.value.entries[k].key], Descend(s.depth))
    [] OTHER -> Mismatch

(* visit_newtype_struct of the visitor of a Value, which gets a UID as its *)
(* number and a date as its text, and tells them apart by that.            *)
ReplayedDate(dates) == IF dates = {} THEN Fail("Message") ELSE Visit(Date(CHOOSE d \in dates : TRUE))
Replayed(payload) ==
  CASE payload.type = "integer" -> IF payload.number >= 0 THEN Visit(Uid(payload.number)) ELSE Fail("Message")
    [] payload.type = "string"  -> ReplayedDate(parse_sentinel_date(payload.text))

(* Nothing is coerced here: the type of the value decides. *)
deserialize_any(s) ==
  CASE s.value.type = "dictionary" -> visit_dictionary(s)
    [] s.value.type = "array"      -> visit_array(s)
    [] s.value.type = "uid"        -> Replayed(Integer(s.value.bits))
    [] s.value.type = "date"       -> Replayed(String(format_sentinel_date(s.value.instant)))
    [] OTHER                       -> Visit(s.value)

Hints == {"any", "bool", "signed", "unsigned", "float", "string", "bytes", "unit", "uid", "date",
          "seq", "map", "enum"}

(* guard_entry comes first in each of them. *)
Asked(hint, s) ==
  IF s.depth > MaxParseDepth THEN Fail("MaxDepthExceeded")
  ELSE
  CASE hint = "any"      -> deserialize_any(s)
    [] hint = "bool"     -> deserialize_bool(s)
    [] hint = "signed"   -> integer_target(s, IF s.value.type = "string" THEN parse_i64(s.value.text, 10) ELSE {})
    [] hint \in {"unsigned", "uid"} ->
         integer_target(s, IF s.value.type = "string" THEN parse_u64(s.value.text, 10) ELSE {})
    [] hint = "float"    -> float_target(s)
    [] hint = "string"   -> string_target(s)
    [] hint = "date"     -> date_sentinel(s)
    [] hint = "unit"     -> Mismatch
    [] hint = "bytes"    -> IF s.value.type = "data" THEN Visit(s.value)
                            ELSE IF s.value.type = "array" THEN visit_array(s) ELSE Mismatch
    [] hint = "seq"      -> IF s.value.type = "data" THEN visit_bytes(s)
                            ELSE IF s.value.type = "array" THEN visit_array(s) ELSE Mismatch
    [] hint = "map"      -> IF s.value.type = "dictionary" THEN visit_dictionary(s) ELSE Mismatch
    [] hint = "enum"     -> deserialize_enum(s)

-----------------------------------------------------------------------------
(***************************************************************************)
(* The seed is asked.                                                      *)
(***************************************************************************)
Ask(hint) ==
  /\ seed # {}
  /\ \E does \in {Asked(hint, Seed)} :
     \/ does.does = "visit" /\ answer' = {Good(does.value)} /\ UNCHANGED accesses
     \/ does.does = "fail"  /\ answer' = {Bad(does.kind)} /\ UNCHANGED accesses
     \/ does.does = "enter" /\ accesses' = Append(accesses, does.access) /\ UNCHANGED answer
  /\ seed' = {}

(* The visitor of a scalar, or of an access, refuses. *)
Refuse ==
  /\ seed = {}
  /\ \/ answer # {} /\ Answer.ok /\ UNCHANGED accesses
     \/ answer = {} /\ accesses # << >> /\ accesses' = Outer
  /\ answer' = {Bad("Message")}
  /\ UNCHANGED seed

(* A type lets go of its deserializer, or takes a default for what failed. *)
MakeDo ==
  /\ seed # {} \/ (answer # {} /\ ~ Answer.ok)
  /\ seed' = {} /\ answer' = {Good(Nothing)}
  /\ UNCHANGED accesses

-----------------------------------------------------------------------------
(***************************************************************************)
(* The visitor of an access takes what it wants.                           *)
(***************************************************************************)
Visiting(name) == seed = {} /\ answer = {} /\ InnerIs({name})

HandOut(s, a) ==
  /\ seed' = {s}
  /\ accesses' = WithInner(a)
  /\ UNCHANGED answer

NextElement ==
  /\ Visiting("seq") /\ Inner.rest # << >>
  /\ HandOut(At(Head(Inner.rest), Inner.depth, Inner.lax), [Inner EXCEPT !.rest = Tail(@)])

(* A key is never coerced, and a value that was not asked for is lost. *)
NextKey ==
  /\ Visiting("map") /\ Inner.rest # << >>
  /\ HandOut(At(String(Head(Inner.rest).key), Inner.depth, FALSE),
             [Inner EXCEPT !.rest = Tail(@), !.pending = {Head(Inner.rest).value}])

NextValueKeeping ==   (* mutant: the value stays pending *)
  /\ Visiting("map")
  /\ \E value \in Inner.pending : HandOut(At(value, Inner.depth, Inner.lax), Inner)

NextValue ==
  /\ Visiting("map")
  /\ \E value \in Inner.pending :
       HandOut(At(value, Inner.depth, Inner.lax), [Inner EXCEPT !.pending = {}])

(* map value requested before its key *)
ValueRequestedFirst ==
  /\ Visiting("map") /\ Inner.pending = {}
  /\ accesses' = Outer
  /\ answer' = {Bad("Message")}
  /\ UNCHANGED seed

(* variant_seed: the name, and then the payload waits. *)
NextVariant ==
  /\ Visiting("enum") /\ Inner.rest # << >>
  /\ HandOut(At(String(Head(Inner.rest)), Inner.depth, Inner.lax),
             [Inner EXCEPT !.rest = << >>,
                          !.pending = IF Inner.from.type = "dictionary" THEN {Inner.from.entries[1].value} ELSE {}])

(* unit_variant, newtype_variant_seed, tuple_variant and struct_variant. *)
VariantNamed == Visiting("enum") /\ Inner.rest = << >>

UnitVariant ==
  /\ VariantNamed
  /\ answer' = {IF Inner.pending = {} THEN Good(Inner.got[1]) ELSE Bad("Message")}
  /\ accesses' = Outer
  /\ UNCHANGED seed

NewtypeVariant ==
  /\ VariantNamed
  /\ \E value \in Inner.pending :
       HandOut(At(value, Inner.depth, Inner.lax), [Inner EXCEPT !.pending = {}])

ContainerVariant(type) ==
  /\ VariantNamed
  /\ \E value \in Inner.pending :
       /\ value.type = type /\ Descend(Inner.depth) # {}
       /\ LET s == At(value, Inner.depth, Inner.lax)
              inside == IF type = "array" THEN visit_array(s) ELSE visit_dictionary(s)
          IN accesses' = Append(WithInner([Inner EXCEPT !.pending = {}]), inside.access)
  /\ UNCHANGED <<seed, answer>>

VariantFails ==
  /\ VariantNamed
  /\ \E type \in {"any", "array", "dictionary"} :   (* any is the newtype's *)
       \/ /\ Inner.pending = {} \/ (type # "any" /\ \E value \in Inner.pending : value.type # type)
          /\ answer' = {Bad("Message")}
       \/ /\ \E value \in Inner.pending : value.type = type /\ Descend(Inner.depth) = {}
          /\ answer' = {Bad("MaxDepthExceeded")}
  /\ accesses' = Outer
  /\ UNCHANGED seed

VariantMade(name, payload) == [type |-> "variant", name |-> name, payload |-> payload]

(* What visit_enum returns is not looked at: its visitor may let go of the *)
(* EnumAccess, or of the VariantAccess and the payload with it.            *)
DropEnum ==
  /\ Visiting("enum") /\ Inner.rest # << >>
  /\ answer' = {Good(Nothing)}
  /\ accesses' = Outer
  /\ UNCHANGED seed

DropVariant ==
  /\ VariantNamed /\ Inner.pending # {}
  /\ answer' = {Good(VariantMade(Inner.got[1], Nothing))}
  /\ accesses' = Outer
  /\ UNCHANGED seed

(* visit_array and visit_dictionary, when the visitor is done: nothing may *)
(* be left.                                                                *)
Made(a) ==
  CASE a.name = "seq" -> Array(a.got)
    [] a.name = "map" -> [type |-> "map", got |-> a.got]

FinishUnchecked ==   (* mutant: what is left is not looked at *)
  /\ Visiting("seq") \/ Visiting("map")
  /\ answer' = {Good(Made(Inner))}
  /\ accesses' = Outer
  /\ UNCHANGED seed

Finish ==
  /\ Visiting("seq") \/ Visiting("map")
  /\ answer' = {IF Inner.rest = << >> /\ Inner.pending = {} THEN Good(Made(Inner)) ELSE Bad("Message")}
  /\ accesses' = Outer
  /\ UNCHANGED seed

-----------------------------------------------------------------------------
(***************************************************************************)
(* Returns.                                                                *)
(***************************************************************************)
(* What a visitor gets: elements, a variant, or keys with their values,    *)
(* which are told apart by whether the value still waits.                  *)
Got(a, result) ==
  CASE a.name # "map"                    -> Append(a.got, result)
    [] a.name = "map" /\ a.pending # {} -> Append(a.got, [key |-> result, value |-> {}])
    [] a.name = "map" /\ a.pending = {} -> [a.got EXCEPT ![Len(a.got)].value = {result}]

TakeAnswer ==
  /\ accesses # << >> /\ answer # {} /\ Answer.ok /\ ~ (InnerIs({"enum"}) /\ Inner.got # << >>)
  /\ accesses' = WithInner([Inner EXCEPT !.got = Got(Inner, Answer.value)])
  /\ answer' = {}
  /\ UNCHANGED seed

(* The payload of a variant is the last thing its visitor needs. *)
FinishVariant ==
  /\ InnerIs({"enum"}) /\ Inner.got # << >> /\ answer # {} /\ Answer.ok
  /\ answer' = {Good(VariantMade(Inner.got[1], Answer.value))}
  /\ accesses' = Outer
  /\ UNCHANGED seed

ReturnError ==
  /\ accesses # << >> /\ answer # {} /\ ~ Answer.ok
  /\ accesses' = Outer
  /\ UNCHANGED <<seed, answer>>

-----------------------------------------------------------------------------
(***************************************************************************)
(* Properties.                                                             *)
(***************************************************************************)
(* The depth is the number of arrays and dictionaries around a value, of   *)
(* an enum's too and of data's not, and never above the cap (de.rs:62-70). *)
DepthCountsContainers ==
  LET containers(d) == {k \in 1 .. d : accesses[k].from.type \in {"array", "dictionary"}} IN
  /\ \A d \in DOMAIN accesses : accesses[d].depth = Cardinality(containers(d)) /\ accesses[d].depth <= MaxParseDepth
  /\ \A s \in seed : s.depth = Cardinality(containers(Len(accesses)))

=============================================================================
