---------------------------- MODULE ValueNesting ----------------------------
(***************************************************************************)
(* How deep a value nests.  A reference definition, for TLC only.          *)
(***************************************************************************)
LOCAL INSTANCE Naturals

Deepest(depths) == CHOOSE m \in depths \cup {0} : \A n \in depths : n <= m

(* Containers count, leaves do not. *)
RECURSIVE Nesting(_)
Nesting(value) ==
  CASE value.type = "array"      -> 1 + Deepest({Nesting(value.items[k]) : k \in DOMAIN value.items})
    [] value.type = "dictionary" -> 1 + Deepest({Nesting(value.entries[k].value) : k \in DOMAIN value.entries})
    [] OTHER                     -> 0

=============================================================================
