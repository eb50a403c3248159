-------------------------------- MODULE Serde --------------------------------
(***************************************************************************)
(* to_value and from_value in a row: a Serialize impl, any at all or the   *)
(* one of a Value, makes a Value, and a visitor, the one of Value or any   *)
(* other, is given it.                                                     *)
(***************************************************************************)
EXTENDS ValueSerializer, ValueDeserializer, Stacks

CONSTANTS
  Values,                      (* the values that are serialized *)
  Leaves, Openings, KeyCalls,  (* the calls of any other impl *)
  MaxCalls                     (* bound: how many it makes *)

VARIABLES
  source,    (* the value that is serialized: a set, {} for any other impl *)
  script,    (* the calls it has yet to make, and the values *)
  visitor,   (* "none" yet, that of "Value", an "orderly" one, or "any" *)
  lax        (* strings are coerced *)

(* A date that is written for serde reads back as that date.               *)
ReadsBack(date)  == parse_sentinel_date(format_sentinel_date(date)) = {date}
TextSettles(text) == \A date \in parse_sentinel_date(text) : ReadsBack(date)

(* A value as builders and parsers make it, and the values inside of it.   *)
IsValue(v) ==
  /\ v.type \in {"array", "dictionary", "string", "integer", "real", "boolean", "data", "uid", "date"}
  /\ v.type = "array"      => IsSequence(v.items)
  /\ v.type = "dictionary" => IsSequence(v.entries)
  /\ v.type = "data"       => IsSequence(v.bytes)
  /\ v.type = "uid"        => v = Uid(v.bits)
  /\ v.type = "date"       => v = Date(v.instant) /\ ReadsBack(v.instant)
  /\ v.type = "string"     => v = String(v.text) /\ TextSettles(v.text)

Contents(v) ==
  CASE v.type = "array"      -> {v.items[k] : k \in DOMAIN v.items}
    [] v.type = "dictionary" -> {v.entries[k].value : k \in DOMAIN v.entries}
    [] OTHER                 -> {}

ASSUME ValuesAssumption == \A v \in Values : IsValue(v) /\ Contents(v) \subseteq Values

(* The calls that hold no value, and those that do: newtype_struct is one  *)
(* for a sentinel only.                                                    *)
IsLeaf(call) ==
  /\ call.method \in {"none", "unit", "unit_struct", "i128", "u128", "i64", "u64", "bool", "f32", "f64",
                       "char", "str", "unit_variant", "bytes"}
  /\ call.method = "bytes"                           => IsSequence(call.payload)
  /\ call.method \in {"char", "str", "unit_variant"} => TextSettles(call.payload)

IsOpening(call) == call.method = "newtype_struct" => call.name \in {UidNewtype, DateNewtype}

ASSUME LeavesAssumption   == \A leaf \in Leaves : IsLeaf(leaf)
ASSUME OpeningsAssumption == \A opening \in Openings : IsOpening(opening)

serdeVars == <<serVars, deVars, source, script, visitor, lax>>

(* impl Serialize for Value, Integer, Real, Uid and Date, as the calls     *)
(* they make, and the values they hand on in between.                      *)
Calls(v) ==
  LET leaf(method, payload) == <<[does |-> "leaf", call |-> [method |-> method, payload |-> payload]]>>
      key(text)     == [does |-> "key", call |-> [method |-> "str", payload |-> text]]
      open(m, name) == <<[does |-> "open", call |-> [method |-> m, name |-> name]]>>
      value(w)      == [does |-> "value", value |-> w]
      end           == <<[does |-> "end"]>>
  IN
  CASE v.type = "dictionary" ->
         open("map", "")
         \o [k \in 1 .. 2 * Len(v.entries) |->
               IF k % 2 = 1 THEN key(v.entries[(k + 1) \div 2].key) ELSE value(v.entries[k \div 2].value)]
         \o end
    [] v.type = "array"   -> open("seq", "") \o [k \in DOMAIN v.items |-> value(v.items[k])] \o end
    [] v.type = "string"  -> leaf("str", v.text)
    [] v.type = "integer" -> leaf(IF v.number < 0 THEN "i64" ELSE "u64", v.number)
    [] v.type = "real"    -> leaf(IF v.wide THEN "f64" ELSE "f32", v.real)
    [] v.type = "boolean" -> leaf("bool", v.truth)
    [] v.type = "data"    -> leaf("bytes", v.bytes)
    [] v.type = "uid"     -> open("newtype_struct", UidNewtype) \o leaf("u64", v.bits)
    [] v.type = "date"    -> open("newtype_struct", DateNewtype) \o leaf("str", format_sentinel_date(v.instant))

SerdeInit ==
  /\ SerInit
  /\ accesses = << >> /\ seed = {} /\ answer = {}
  /\ visitor = "none" /\ lax = FALSE
  /\ \/ source = {} /\ script = << >>
     \/ \E v \in Values : source = {v} /\ script = <<[does |-> "value", value |-> v]>>

(* Any impl at all: errors can be ignored too. *)
MakeAnyCall ==
  /\ source = {} /\ calls < MaxCalls
  /\ \/ \E leaf \in Leaves : SerializeLeaf(leaf)
     \/ \E opening \in Openings : OpenBuilder(opening)
     \/ \E keyCall \in KeyCalls : SerializeKey(keyCall) \/ RefuseKey(keyCall)
     \/ ValueBeforeKey \/ End
  /\ UNCHANGED script

(* The Serialize impl of a Value makes its calls in order. *)
MakeNextCall ==
  /\ script # << >>
  /\ LET todo == IF Head(script).does = "value" THEN Calls(Head(script).value) ELSE <<Head(script)>>
         next == Head(todo)
     IN
     /\ script' = Tail(todo) \o Tail(script)
     /\ \/ next.does = "leaf" /\ SerializeLeaf(next.call)
        \/ next.does = "open" /\ OpenBuilder(next.call)
        \/ next.does = "key"  /\ SerializeKey(next.call)
        \/ next.does = "end"  /\ End

Serialize ==
  /\ MakeAnyCall \/ MakeNextCall \/ (Return /\ UNCHANGED script)
  /\ UNCHANGED <<deVars, source, visitor, lax>>

(* from_value; the decoder's lax mode for OpenStep differs in the flag. *)
HandOver ==
  /\ visitor = "none"
  /\ IF source = {} THEN visitor' = "Value" /\ lax' = FALSE
     ELSE visitor' \in {"Value", "orderly", "any"} /\ lax' \in BOOLEAN
  /\ \E r \in result : r.ok /\ seed' = {At(r.value, 0, lax')}
  /\ UNCHANGED <<serVars, source, script, accesses, answer>>

-----------------------------------------------------------------------------
(* ValueVisitor: everything there is, as it is, keys as strings. *)
ForKey == InnerIs({"map"}) /\ Inner.pending # {}

VisitValue ==
  \/ Ask(IF ForKey THEN "string" ELSE "any")
  \/ NextElement
  \/ Visiting("map") /\ Inner.pending = {} /\ NextKey
  \/ NextValue
  \/ (InnerIs({"seq", "map"}) => Inner.rest = << >> /\ Inner.pending = {}) /\ Finish
  \/ TakeAnswer \/ ReturnError

(* Any other visitor; an orderly one asks for the value after each key,    *)
(* and for what it is handed.  The name of a variant is asked for as a     *)
(* string, or it could be an enum for ever.                                *)
VisitOther ==
  \/ \E hint \in IF InnerIs({"enum"}) /\ Inner.got = << >> THEN {"string"} ELSE Hints : Ask(hint)
  \/ Refuse
  \/ NextElement
  \/ (InnerIs({"map"}) /\ Inner.pending # {} => visitor = "any") /\ NextKey
  \/ NextValue \/ ValueRequestedFirst
  \/ NextVariant \/ UnitVariant \/ NewtypeVariant \/ VariantFails
  \/ ContainerVariant("array") \/ ContainerVariant("dictionary")
  \/ Finish \/ TakeAnswer \/ FinishVariant \/ ReturnError
  \/ visitor = "any" /\ (MakeDo \/ DropEnum \/ DropVariant)

Deserialize ==
  /\ visitor # "none"
  /\ IF visitor = "Value" THEN VisitValue ELSE VisitOther
  /\ UNCHANGED <<serVars, source, script, visitor, lax>>

Stop ==
  /\ \/ \E r \in result : ~ r.ok
     \/ answer # {} /\ accesses = << >>
     \/ source = {} /\ calls = MaxCalls /\ returned = {} /\ result = {}   (* MaxCalls *)
  /\ UNCHANGED serdeVars

SerdeNext == Serialize \/ HandOver \/ Deserialize \/ Stop

SerdeSpec == SerdeInit /\ [][SerdeNext]_serdeVars

-----------------------------------------------------------------------------
(***************************************************************************)
(* Properties.                                                             *)
(***************************************************************************)
Made_Value == CHOOSE r \in result : TRUE

(* What a visitor may make of a value, as far as it can be told without    *)
(* looking at what is inside: a container with as many parts, each key     *)
(* itself and with its value; a scalar of a kind the visitor asked for; of *)
(* a text, if texts are coerced, any scalar.  A careless visitor may make  *)
(* nothing of a value, and of an entry just the key, unless it is the last.*)
Unasked(r, careful)     == ~ careful /\ r = Nothing
IsKept(r, v, careful)   == r = v \/ Unasked(r, careful)

RepresentsData(r, v, careful) ==
  \/ r = v
  \/ /\ r.type = "array" /\ Len(r.items) = Len(v.bytes)
     /\ \A k \in DOMAIN v.bytes : IsKept(r.items[k], Integer(ByteOf(v.bytes[k])), careful)

RepresentsDictionary(r, v, careful) ==
  \/ /\ r.type = "map" /\ Len(r.got) = Len(v.entries)
     /\ \A k \in DOMAIN v.entries :
          /\ IsKept(r.got[k].key, String(v.entries[k].key), careful)
          /\ careful \/ k = Len(v.entries) => r.got[k].value # {}
  \/ r.type = "variant" /\ Len(v.entries) = 1

Represents(r, v, coerced, careful) ==
  \/ Unasked(r, careful)
  \/ CASE v.type = "array"      -> r.type = "array" /\ Len(r.items) = Len(v.items)
       [] v.type = "dictionary" -> RepresentsDictionary(r, v, careful)
       [] v.type = "data"       -> RepresentsData(r, v, careful)
       [] v.type = "string"     -> r = v \/ (coerced /\ r.type \in {"boolean", "integer", "real", "string"})
       [] v.type = "real"       -> r \in {v, Real(v.real, TRUE)}
       [] v.type = "uid"        -> r \in {v, Integer(v.bits)}
       [] v.type = "date"       -> r \in {v, String(format_sentinel_date(v.instant))}
       [] OTHER                 -> r = v

(* What is inside of the two, each with what it stands for.                *)
Matched(r, v) ==
  CASE v.type = "array" /\ r.type = "array"       -> {<<r.items[k], v.items[k]>> : k \in DOMAIN v.items}
    [] v.type = "dictionary" /\ r.type = "map"     ->
         UNION {{<<w, v.entries[k].value>> : w \in r.got[k].value} : k \in DOMAIN v.entries}
    [] v.type = "dictionary" /\ r.type = "variant" ->
         {<<r.name, String(v.entries[1].key)>>, <<r.payload, v.entries[1].value>>}
    [] OTHER                                       -> {}

(* The answer and the value, level by level: below n containers.           *)
Level[n \in Nat] ==
  IF n = 0 THEN {<<Answer.value, Made_Value.value>>}
  ELSE UNION {Matched(p[1], p[2]) : p \in Level[n - 1]}

(* When a deserialization succeeds, every container that was read was read *)
(* to its end: its elements and its keys were handed out, once each and in *)
(* order, and the last value too (de.rs:87-130).  A visitor that asks for  *)
(* each value and for what it is handed has every part of the value in its *)
(* place.  Any other lacks the values it did not ask for before the next   *)
(* key, what it let go of or made do without, and the payloads of the      *)
(* variants it let go of, which deserialize_enum does not look for         *)
(* (de.rs:514-553), but nothing else.  No container is entered below       *)
(* MaxParseDepth others, so no level lies further down.                    *)
PartsAccountedFor ==
  answer # {} /\ accesses = << >> /\ Answer.ok =>
    \A n \in 0 .. MaxParseDepth : \A p \in Level[n] : Represents(p[1], p[2], lax, visitor # "any")

=============================================================================
