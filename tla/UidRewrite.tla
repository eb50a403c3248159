----------------------------- MODULE UidRewrite -----------------------------
(***************************************************************************)
(* maybe_uid (value/mod.rs): the CF$UID rewrite the XML and text parsers   *)
(* apply to the raw entries of a dictionary they have just read, before    *)
(* duplicate keys collapse.                                                *)
(***************************************************************************)
EXTENDS PlistValue
LOCAL INSTANCE Integers
LOCAL INSTANCE Sequences

CONSTANTS
  UidKey,        (* the key CF$UID *)
  Word,          (* the number of 64-bit words *)
  ParseU64(_)    (* the number a text reads as in base 10: a set, {} if none *)

ASSUME WordAssumption == Word \in Nat \ {0}

(* The raw bits of the entry's value, if it can be a UID. *)
UidBits(value, lax) ==
  CASE value.type = "integer"        -> {value.number % Word}
    [] value.type = "string" /\ lax  -> ParseU64(value.text)
    [] OTHER                         -> {}

(* The value of a dictionary with these raw entries. *)
maybe_uid(entries, lax) ==
  IF Len(entries) = 1 /\ entries[1].key = UidKey /\ UidBits(entries[1].value, lax) # {}
  THEN Uid(CHOOSE bits \in UidBits(entries[1].value, lax) : TRUE)
  ELSE Dictionary(entries)

=============================================================================
