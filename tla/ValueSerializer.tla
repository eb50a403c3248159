---------------------------- MODULE ValueSerializer ----------------------------
(***************************************************************************)
(* Serialization to values (src/src/value/ser.rs): a Serialize impl makes  *)
(* serde calls in any order its types allow, and the builders they go to   *)
(* make a Value.                                                           *)
(*                                                                         *)
(* The impl that is running is the one of the top builder.  A call that    *)
(* has finished leaves what it returned in returned, for the builder       *)
(* below.  An impl that gets an error returns it, or goes on without what  *)
(* failed.  newtype_struct and some, but for the two sentinels, are the    *)
(* calls of what they hold and have no step of their own.                  *)
(***************************************************************************)
EXTENDS PlistValue, NumberText, Functions

CONSTANTS UidNewtype, DateNewtype   (* the names of the sentinels *)

VARIABLES
  builders,    (* the builders and wrappers at work, outermost first *)
  returned,    (* what the call that just finished returned: a set *)
  result,      (* what to_value returned: a set *)
  calls        (* how many calls there were *)

serVars == <<builders, returned, result, calls>>

Ok(value) == [ok |-> TRUE, value |-> value]
Err(kind) == [ok |-> FALSE, kind |-> kind]
Null      == Err("NullNotRepresentable")

(* Dictionary::from of one entry: the externally tagged form of a variant. *)
Tagged(name, value) == Mapping(<<Entry(name, value)>>)

(* The methods by the builder they start. *)
SeqMethods  == {"seq", "tuple", "tuple_struct", "tuple_variant"}
MapMethods  == {"map", "struct", "struct_variant"}
Fielded     == {"struct", "struct_variant"}
Wrapping    == {"newtype_variant", "newtype_struct"}

(* pending is the key that awaits its value, key the one whose value is    *)
(* serialized.  given is what the impl has handed over so far: keys,       *)
(* values, and the holes that nulls and failures leave.                    *)
Builder(opening) ==
  [method |-> opening.method, name |-> opening.name, elements |-> << >>, entries |-> << >>,
   pending |-> {}, key |-> {}, given |-> << >>]

Top         == builders[Len(builders)]
Below       == SubSeq(builders, 1, Len(builders) - 1)
WithTop(b)  == [builders EXCEPT ![Len(builders)] = b]
Outcome     == CHOOSE o \in returned : TRUE
TopIs(ms)   == builders # << >> /\ Top.method \in ms
Give(event) == [Top EXCEPT !.given = Append(@, event), !.key = {}]

KeyGiven(text)    == [what |-> "key", text |-> text]
ValueGiven(value) == [what |-> "value", value |-> value]
Hole              == [what |-> "hole"]

SerInit ==
  builders = << >> /\ returned = {} /\ result = {} /\ calls = 0

-----------------------------------------------------------------------------
(***************************************************************************)
(* The scalar methods of ValueSerializer, and MapKeySerializer.            *)
(***************************************************************************)
serialize_scalar(leaf) ==
  LET p == leaf.payload IN
  CASE leaf.method \in {"none", "unit", "unit_struct"}  -> Null
    [] leaf.method \in {"i128", "u128"} -> IF p \in IntMin .. Word - 1 THEN Ok(Integer(p)) ELSE Err("UnknownType")
    [] leaf.method \in {"i64", "u64"}   -> Ok(Integer(p))
    [] leaf.method = "bool"             -> Ok(Boolean(p))
    [] leaf.method \in {"f32", "f64"}   -> Ok(Real(p, leaf.method = "f64"))
    [] leaf.method \in {"char", "str", "unit_variant"}  -> Ok(String(p))
    [] leaf.method = "bytes"            -> Ok(Data(p))

(* Only strings and unit variants are keys. *)
serialize_map_key(keyCall) ==
  IF keyCall.method \in {"str", "unit_variant"} THEN Ok(keyCall.payload) ELSE Err("UnknownType")

-----------------------------------------------------------------------------
(***************************************************************************)
(* Calls: those that hold no other value are [method, payload], those that *)
(* do [method, name].                                                      *)
(***************************************************************************)
Calling ==
  /\ returned = {} /\ result = {}
  /\ calls' = calls + 1
  /\ UNCHANGED result

(* A value may come first, into a sequence or a wrapper, or after a key. *)
TakesValue ==
  \/ builders = << >> /\ calls = 0
  \/ TopIs(SeqMethods \cup Wrapping)
  \/ TopIs(MapMethods) /\ Top.pending # {}

(* insert_pending takes the key before it serializes the value. *)
Begun ==
  IF TopIs(MapMethods) THEN WithTop([Top EXCEPT !.key = Top.pending, !.pending = {}]) ELSE builders

SerializeLeaf(leaf) ==
  /\ Calling /\ TakesValue
  /\ builders' = Begun
  /\ returned' = {serialize_scalar(leaf)}

OpenBuilder(opening) ==
  /\ Calling /\ TakesValue
  /\ builders' = Append(Begun, Builder(opening))
  /\ UNCHANGED returned

(* map value serialized before its key *)
ValueBeforeKey ==
  /\ Calling /\ TopIs({"map"}) /\ Top.pending = {}
  /\ builders' = Below
  /\ returned' = {Err("Message")}

(* serialize_key, and the key of serialize_field: an earlier key that had  *)
(* no value is forgotten.                                                  *)
SerializeKey(keyCall) ==
  /\ Calling
  /\ TopIs(MapMethods) /\ (TopIs(Fielded) => Top.pending = {} /\ keyCall.method = "str")
  /\ serialize_map_key(keyCall).ok
  /\ builders' = WithTop([Give(KeyGiven(keyCall.payload)) EXCEPT !.pending = {keyCall.payload}])
  /\ UNCHANGED returned

(* A key that fails changes nothing: the impl goes on, or returns it. *)
RefuseKey(keyCall) ==
  /\ Calling /\ TopIs({"map"}) /\ ~ serialize_map_key(keyCall).ok
  /\ \/ UNCHANGED <<builders, returned>>
     \/ builders' = Below /\ returned' = {serialize_map_key(keyCall)}

Finished(b) ==
  CASE b.method \in {"seq", "tuple", "tuple_struct"} -> Array(b.elements)
    [] b.method = "tuple_variant"                    -> Tagged(b.name, Array(b.elements))
    [] b.method \in {"map", "struct"}                -> Mapping(b.entries)
    [] b.method = "struct_variant"                   -> Tagged(b.name, Mapping(b.entries))

End ==
  /\ Calling
  /\ TopIs(SeqMethods \cup MapMethods) /\ (TopIs(Fielded) => Top.pending = {})
  /\ builders' = Below
  /\ returned' = {Ok(Finished(Top))}

-----------------------------------------------------------------------------
(***************************************************************************)
(* Returns.                                                                *)
(***************************************************************************)
Returning(ms) ==
  /\ returned # {} /\ TopIs(ms)
  /\ UNCHANGED <<result, calls>>

(* push: nulls are dropped. *)
PushElement ==
  /\ Returning(SeqMethods) /\ (Outcome.ok \/ Outcome = Null)
  /\ builders' = WithTop(IF Outcome.ok
                         THEN [Give(ValueGiven(Outcome.value)) EXCEPT !.elements = Append(@, Outcome.value)]
                         ELSE Give(Hole))
  /\ returned' = {}

InsertEntryFirst ==   (* mutant: the first value of a key wins *)
  /\ Returning(MapMethods) /\ (Outcome.ok \/ Outcome = Null)
  /\ builders' = WithTop(IF Outcome.ok
       THEN [Give(ValueGiven(Outcome.value)) EXCEPT
               !.entries = IF \E e \in Range(@) : e.key \in Top.key THEN @
                           ELSE Append(@, Entry(CHOOSE k \in Top.key : TRUE, Outcome.value))]
       ELSE Give(Hole))
  /\ returned' = {}

(* insert_pending: the last value of a key wins, and a null is none. *)
InsertEntry ==
  /\ Returning(MapMethods) /\ (Outcome.ok \/ Outcome = Null)
  /\ builders' = WithTop(IF Outcome.ok
       THEN [Give(ValueGiven(Outcome.value)) EXCEPT
               !.entries = Insert(@, Entry(CHOOSE k \in Top.key : TRUE, Outcome.value))]
       ELSE Give(Hole))
  /\ returned' = {}

(* An error that is not a null: the impl goes on without the value, or     *)
(* returns the error.                                                      *)
IgnoreError ==
  /\ Returning(SeqMethods \cup MapMethods) /\ ~ Outcome.ok /\ Outcome # Null
  /\ builders' = WithTop(Give(Hole))
  /\ returned' = {}

PassError ==
  /\ Returning(SeqMethods \cup MapMethods) /\ ~ Outcome.ok /\ Outcome # Null
  /\ builders' = Below
  /\ UNCHANGED returned

(* newtype_variant and the sentinels give any error on, a null too, so     *)
(* that it takes the whole entry or element with it.                       *)
OkDate(dates) == IF dates = {} THEN Err("Message") ELSE Ok(Date(CHOOSE d \in dates : TRUE))
Wrapped(b, value) ==
  CASE b.method = "newtype_variant" -> Ok(Tagged(b.name, value))
    [] b.name = UidNewtype ->
         IF value.type = "integer" /\ value.number >= 0 THEN Ok(Uid(value.number)) ELSE Err("Message")
    [] b.name = DateNewtype ->
         IF value.type = "string" THEN OkDate(parse_sentinel_date(value.text)) ELSE Err("Message")

Wrap ==
  /\ Returning(Wrapping)
  /\ builders' = Below
  /\ returned' = IF Outcome.ok THEN {Wrapped(Top, Outcome.value)} ELSE returned

(* to_value: a root that is null is no root. *)
ReturnRoot ==
  /\ returned # {} /\ builders = << >>
  /\ result' = {IF Outcome = Null THEN Err("NoRootElement") ELSE Outcome}
  /\ returned' = {}
  /\ UNCHANGED <<builders, calls>>

Return ==
  \/ PushElement \/ InsertEntry \/ IgnoreError \/ PassError \/ Wrap \/ ReturnRoot

-----------------------------------------------------------------------------
(***************************************************************************)
(* Properties.                                                             *)
(***************************************************************************)
ValuesOf(b)    == {j \in DOMAIN b.given : b.given[j].what = "value"}
Paired(b)      == {j \in 1 .. Len(b.given) - 1 : b.given[j].what = "key" /\ b.given[j + 1].what = "value"}
FirstOf(b, j)  == \A i \in Paired(b) : b.given[i].text = b.given[j].text => j <= i
LastOf(b, j)   == \A i \in Paired(b) : b.given[i].text = b.given[j].text => i <= j

(* from says at which place each element was given. *)
Gathered(b) ==
  \E from \in [1 .. Len(b.elements) -> ValuesOf(b)] :
    /\ \A n \in 1 .. Len(b.elements) : b.elements[n] = b.given[from[n]].value
    /\ \A m, n \in 1 .. Len(b.elements) : m < n => from[m] < from[n]
    /\ \A j \in ValuesOf(b) : \E n \in 1 .. Len(b.elements) : from[n] = j

HoldsWhatWasGiven(b) ==
  /\ IF b.method \in SeqMethods THEN Gathered(b) ELSE b.elements = << >>
  /\ {<<e.key, e.value>> : e \in Range(b.entries)}
       = IF b.method \in MapMethods
         THEN {<<b.given[j].text, b.given[j + 1].value>> : j \in {i \in Paired(b) : LastOf(b, i)}}
         ELSE {}
  /\ \A k, l \in DOMAIN b.entries : k < l =>
       \E i, j \in Paired(b) : /\ FirstOf(b, i) /\ FirstOf(b, j) /\ i < j
                               /\ b.given[i].text = b.entries[k].key
                               /\ b.given[j].text = b.entries[l].key

(* A builder holds what its impl handed over and nothing else, in the      *)
(* order it was handed over: an array its values; a dictionary, under each *)
(* key, the last value that came straight after that key, first keys       *)
(* first.  A null or a failed value is no value, takes its key with it,    *)
(* and leaves an earlier entry of that key alone (ser.rs:368-369, 465-467). *)
BuildersHoldWhatWasGiven == \A d \in DOMAIN builders : HoldsWhatWasGiven(builders[d])

=============================================================================
