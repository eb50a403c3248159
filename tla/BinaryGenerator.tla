--------------------------- MODULE BinaryGenerator ---------------------------
(***************************************************************************)
(* The binary generator (src/src/binary/generator.rs): a preorder walk     *)
(* that puts every object in a table, uniquing most scalars through a map, *)
(* and only then resolves the references of the containers.                *)
(*                                                                         *)
(* flatten_value recurses: frames are its open calls, and each action is   *)
(* one call of it, or the return of one.  Integers are written in the      *)
(* width their tag has; the bytes of the other scalars are left out.       *)
(***************************************************************************)
EXTENDS Integers, Sequences, FiniteSets, PlistValue

CONSTANTS
  Roots,        (* the values that may be generated *)
  Crc(_),       (* crc32fast::hash (external) *)
  Max8, Max16, Max32,  (* the greatest integers of one, two and four bytes *)
  Word          (* the number of 64-bit words *)

ASSUME WidthsAssumption ==
  /\ Word \in Nat
  /\ Max8 \in Nat /\ Max16 \in Nat /\ Max32 \in Nat
  /\ Max8 < Max16 /\ Max16 < Max32 /\ 2 * (Max32 + 1) <= Word

VARIABLES
  root,       (* the value being generated *)
  frames,     (* the open calls of flatten_dictionary and flatten_array *)
  objmap,     (* the uniquing map, from keys to object indices *)
  objtable,   (* the object table; the index of an object is its position less one *)
  rootSlot,   (* what flatten_value returned for the root: a set, {} before *)
  document    (* the document: a set, {} while it is not written *)

vars == <<root, frames, objmap, objtable, rootSlot, document>>

-----------------------------------------------------------------------------
(***************************************************************************)
(* enum UniqueKey.  A written integer has a sign flag, a real a width and  *)
(* a value that is a name; +0 and -0 share a key.                          *)
(***************************************************************************)
zero_normalized(value) == IF value \in {"+0", "-0"} THEN "0" ELSE value

UniqueKeyNumeric(v) ==   (* mutant: integers keyed by their bits alone *)
  CASE v.type = "string"  -> [string |-> v.text]
    [] v.type = "integer" -> [raw |-> v.number % Word]
    [] v.type = "real"    -> [real |-> zero_normalized(v.real), wide |-> v.wide]
    [] v.type = "boolean" -> [boolean |-> v.truth]
    [] v.type = "uid"     -> [uid |-> v.bits]
    [] v.type = "data"    -> [crc |-> Crc(v.bytes)]
    [] v.type = "date"    -> [date |-> v.instant]

UniqueKey(v) ==
  CASE v.type = "string"  -> [string |-> v.text]
    [] v.type = "integer" -> [raw |-> v.number % Word, signed |-> v.signed]
    [] v.type = "real"    -> [real |-> zero_normalized(v.real), wide |-> v.wide]
    [] v.type = "boolean" -> [boolean |-> v.truth]
    [] v.type = "uid"     -> [uid |-> v.bits]
    [] v.type = "data"    -> [crc |-> Crc(v.bytes)]
    [] v.type = "date"    -> [date |-> v.instant]

IsHolder(v)     == v.type \in {"array", "dictionary"}
IsNaN(v)        == v.type = "real" /\ v.real = "nan"
LastWins(v)     == v.type \in {"boolean", "uid"}
FirstWins(v)    == ~ IsHolder(v) /\ ~ IsNaN(v) /\ ~ LastWins(v)

(* enum RefSlot, enum FlatEntry. *)
Fixed(index) == [slot |-> "Fixed", index |-> index]
Find(key)    == [slot |-> "Find", key |-> key]
Missing      == [slot |-> "Missing"]

Leaf(v)              == [tag |-> "scalar", value |-> v]
Container(tag, refs) == [tag |-> tag, refs |-> refs]

(* What a container flattens, in order: a dictionary's keys, then its values. *)
Parts(v) ==
  IF v.type = "array" THEN v.items
  ELSE [k \in DOMAIN v.entries |-> String(v.entries[k].key)]
       \o [k \in DOMAIN v.entries |-> v.entries[k].value]

-----------------------------------------------------------------------------
Init ==
  /\ root \in Roots
  /\ frames = << >> /\ objmap = << >> /\ objtable = << >>
  /\ rootSlot = {} /\ document = {}

Top == frames[Len(frames)]

(* A value is to be flattened: the root, or the next part of the top frame. *)
Flattening == rootSlot = {} /\ (frames # << >> => Top.todo # << >>)
Current    == IF frames = << >> THEN root ELSE Head(Top.todo)

(* A call with the slot of the part it was flattening. *)
Filled(call, slot) == [call EXCEPT !.todo = Tail(@), !.slots = Append(@, slot)]

(* The slot of the value just flattened goes to the container around it. *)
Give(outer, slot) ==
  IF outer = << >>
  THEN frames' = outer /\ rootSlot' = {slot}
  ELSE /\ frames' = [outer EXCEPT ![Len(outer)] = Filled(@, slot)]
       /\ UNCHANGED rootSlot

BindAfter(key) ==   (* mutant: the index is taken after the push *)
  objmap' = [k \in DOMAIN objmap \cup {key} |-> IF k = key THEN Len(objtable) + 1 ELSE objmap[k]]

Bind(key) ==
  objmap' = [k \in DOMAIN objmap \cup {key} |-> IF k = key THEN Len(objtable) ELSE objmap[k]]

(* flatten_unique: a present key keeps its slot. *)
FlattenUnique ==
  /\ Flattening
  /\ FirstWins(Current)
  /\ IF UniqueKey(Current) \in DOMAIN objmap
     THEN UNCHANGED <<objmap, objtable>>
     ELSE Bind(UniqueKey(Current)) /\ objtable' = Append(objtable, Leaf(Current))
  /\ Give(frames, Find(UniqueKey(Current)))
  /\ UNCHANGED <<root, document>>

(* flatten_overwrite: booleans and UIDs append unconditionally. *)
FlattenOverwrite ==
  /\ Flattening
  /\ LastWins(Current)
  /\ Bind(UniqueKey(Current))
  /\ objtable' = Append(objtable, Leaf(Current))
  /\ Give(frames, Find(UniqueKey(Current)))
  /\ UNCHANGED <<root, document>>

FlattenNaN ==
  /\ Flattening
  /\ IsNaN(Current)
  /\ objtable' = Append(objtable, Leaf(Current))
  /\ Give(frames, Missing)
  /\ UNCHANGED <<root, objmap, document>>

(* flatten_dictionary, flatten_array: a place in the table comes first. *)
OpenContainer ==
  /\ Flattening
  /\ IsHolder(Current)
  /\ objtable' = Append(objtable, Container(Current.type, << >>))
  /\ frames' = Append(frames, [index |-> Len(objtable), todo |-> Parts(Current), slots |-> << >>])
  /\ UNCHANGED <<root, objmap, rootSlot, document>>

(* set_refs, once the parts are flattened. *)
CloseContainer ==
  /\ frames # << >>
  /\ Top.todo = << >>
  /\ objtable' = [objtable EXCEPT ![Top.index + 1] = [@ EXCEPT !.refs = Top.slots]]
  /\ Give(SubSeq(frames, 1, Len(frames) - 1), Fixed(Top.index))
  /\ UNCHANGED <<root, objmap, document>>

-----------------------------------------------------------------------------
(***************************************************************************)
(* write_int_tag, and parse_integer_at of the parser, which takes eight    *)
(* bytes with the top bit set as a negative number.                        *)
(***************************************************************************)
MaxSigned == Word \div 2 - 1

IntWidth(signed, raw) ==
  CASE raw <= Max8 -> 1
    [] Max8 < raw /\ raw <= Max16 -> 2
    [] Max16 < raw /\ raw <= Max32 -> 4
    [] raw > MaxSigned /\ ~ signed -> 16
    [] OTHER -> 8

ReadInteger(width, raw) ==
  IF width = 8 /\ raw > MaxSigned THEN Integer(raw - Word) ELSE Integer(raw)

(* What a scalar entry reads as. *)
ReadBack(v) ==
  IF v.type = "integer"
  THEN ReadInteger(IntWidth(v.signed, v.number % Word), v.number % Word)
  ELSE v

(* resolve. *)
Resolves(slot) == slot.slot = "Fixed" \/ (slot.slot = "Find" /\ slot.key \in DOMAIN objmap)
Target(slot)   == IF slot.slot = "Fixed" THEN slot.index ELSE objmap[slot.key]

RefsOf(entry) == IF entry.tag = "scalar" THEN << >> ELSE entry.refs

(* write_entry: the marker an entry becomes. *)
MarkerOf(entry) ==
  [tag   |-> entry.tag,
   value |-> IF entry.tag = "scalar" THEN ReadBack(entry.value) ELSE Array(<< >>),
   refs  |-> [k \in DOMAIN RefsOf(entry) |-> Target(RefsOf(entry)[k])],
   sound |-> TRUE]

Writable == \A p \in DOMAIN objtable : \A k \in DOMAIN RefsOf(objtable[p]) :
              Resolves(RefsOf(objtable[p])[k])

(* The root's slot; a missed lookup falls back to object 0. *)
TopObject(slot) == IF Resolves(slot) THEN Target(slot) ELSE 0

(* The document: each entry has a place of its own, the widths are legal.  *)
Written(slot) ==
  [numObjects |-> Len(objtable), top |-> TopObject(slot),
   offset |-> [i \in 0 .. Len(objtable) - 1 |-> i],
   region |-> [i \in 0 .. Len(objtable) - 1 |-> MarkerOf(objtable[i + 1])],
   entrySizeLegal |-> TRUE, refSizeLegal |-> TRUE]

Failed == [error |-> "Message"]

Write ==
  /\ rootSlot # {}
  /\ document = {}
  /\ document' = {IF Writable THEN Written(CHOOSE s \in rootSlot : TRUE) ELSE Failed}
  /\ UNCHANGED <<root, frames, objmap, objtable, rootSlot>>

Next ==
  \/ FlattenUnique \/ FlattenOverwrite \/ FlattenNaN
  \/ OpenContainer \/ CloseContainer
  \/ Write

Spec == Init /\ [][Next]_vars

-----------------------------------------------------------------------------
(***************************************************************************)
(* Properties.                                                             *)
(***************************************************************************)
Indices == 0 .. Len(objtable) - 1

(* Every slot that exists: in the open calls, in the table, of the root. *)
Slots ==
  (UNION {{frames[d].slots[k] : k \in DOMAIN frames[d].slots} : d \in DOMAIN frames})
  \cup (UNION {{RefsOf(objtable[p])[k] : k \in DOMAIN RefsOf(objtable[p])} : p \in DOMAIN objtable})
  \cup rootSlot

(* The deferred lookups are safe: whatever a slot will be looked up by is  *)
(* in the map by then, and the map leads to an entry with that very key,   *)
(* however often booleans and UIDs have overwritten theirs.                *)
LookupsFaithful ==
  /\ \A slot \in Slots : slot.slot = "Find" => slot.key \in DOMAIN objmap
  /\ \A key \in DOMAIN objmap :
       /\ objmap[key] \in Indices
       /\ LET entry == objtable[objmap[key] + 1] IN
            entry.tag = "scalar" /\ UniqueKey(entry.value) = key

(* Of all the entries only booleans, UIDs and NaN occur twice. *)
Repeatable(entry) == entry.tag # "scalar" \/ LastWins(entry.value) \/ IsNaN(entry.value)

UniquedOnce ==
  \A p, q \in DOMAIN objtable :
    p < q /\ ~ Repeatable(objtable[p]) /\ ~ Repeatable(objtable[q]) =>
      UniqueKey(objtable[p].value) # UniqueKey(objtable[q].value)

(* A container refers to containers behind it only. *)
ContainersForward ==
  \A p \in DOMAIN objtable : \A k \in DOMAIN RefsOf(objtable[p]) :
    LET slot == RefsOf(objtable[p])[k] IN
      slot.slot = "Fixed" =>
        /\ slot.index > p - 1
        /\ slot.index \in Indices /\ objtable[slot.index + 1].tag # "scalar"

(* The table that is built is one that can be written at the end: every    *)
(* lookup that was put off finds its object, nothing that is uniqued is in *)
(* it twice, and no container is reached from itself (generator.rs:87-95,  *)
(* 172-222).                                                               *)
TableFaithful == LookupsFaithful /\ UniquedOnce /\ ContainersForward

=============================================================================
