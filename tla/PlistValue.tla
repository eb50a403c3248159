----------------------------- MODULE PlistValue -----------------------------
(***************************************************************************)
(* The property-list value tree (enum Value) and how the entries of a      *)
(* dictionary are collected.                                               *)
(*                                                                         *)
(* The payload of a scalar is compared, not computed with, but for         *)
(* integers and UIDs.  A dictionary is the sequence of its entries,        *)
(* because IndexMap keeps insertion order.                                 *)
(***************************************************************************)
LOCAL INSTANCE Integers
LOCAL INSTANCE Sequences

Scalar(type, text) == [type |-> type, text |-> text]
String(text)       == Scalar("string", text)
Integer(n)         == [type |-> "integer", number |-> n]
Boolean(b)         == [type |-> "boolean", truth |-> b]
Uid(n)             == [type |-> "uid", bits |-> n]
Real(number, wide) == [type |-> "real", real |-> number, wide |-> wide]
Data(bytes)        == [type |-> "data", bytes |-> bytes]
Date(instant)      == [type |-> "date", instant |-> instant]
Array(items)       == [type |-> "array", items |-> items]
Entry(key, value)  == [key |-> key, value |-> value]
Mapping(entries)   == [type |-> "dictionary", entries |-> entries]

IsString(value)    == value.type = "string"

(***************************************************************************)
(* IndexMap::insert: a key that is already there keeps its position and    *)
(* takes the new value.                                                    *)
(***************************************************************************)
Insert(entries, entry) ==
  IF \E p \in 1 .. Len(entries) : entries[p].key = entry.key
  THEN [p \in 1 .. Len(entries) |->
          IF entries[p].key = entry.key THEN entry ELSE entries[p]]
  ELSE Append(entries, entry)

(* Collecting entries, in order, into a Dictionary. *)
Dictionary(entries) ==
  LET collected[n \in 0 .. Len(entries)] ==
        IF n = 0 THEN << >> ELSE Insert(collected[n - 1], entries[n])
  IN  Mapping(collected[Len(entries)])

=============================================================================
