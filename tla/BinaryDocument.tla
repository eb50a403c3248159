--------------------------- MODULE BinaryDocument ---------------------------
(***************************************************************************)
(* A binary property list as its parser sees it: a table that gives every  *)
(* object an offset, and at each offset below the table the bytes of one   *)
(* marker.  Offsets may coincide, overlap or point outside the region:     *)
(* nothing but what the trailer checks establish (BinaryLayout) is         *)
(* assumed of a document.                                                  *)
(*                                                                         *)
(*   numObjects      entries of the offset table                           *)
(*   top             index of the top object                               *)
(*   offset          the table: the offset of each object                  *)
(*   region          the marker at each offset below the offset table      *)
(*   entrySizeLegal  the width of a table entry is one sized_integer reads *)
(*   refSizeLegal    so is the width of an object reference                *)
(*                                                                         *)
(* A marker has a tag ("scalar", "array", "dictionary"), the value of a    *)
(* scalar, the references of a container, and sound: whether the scalar    *)
(* decodes, or the container's count is legal and its reference list ends  *)
(* at or before the table.                                                 *)
(***************************************************************************)
EXTENDS Naturals, Sequences, PlistValue

CONSTANT Documents   (* the documents that may be given to the parser *)

Indices(d)   == 0 .. d.numObjects - 1
Offsets(d)   == DOMAIN d.region
Marker(d, i) == d.region[d.offset[i]]

IsContainer(marker) == marker.tag \in {"array", "dictionary"}

(* What the trailer checks and the layout of a marker establish. *)
IsDocument(d) ==
  /\ d.numObjects \in Nat
  /\ d.top \in Indices(d)
  /\ d.offset \in [Indices(d) -> Nat]
  /\ \A o \in Offsets(d) :
       /\ d.region[o].tag \in {"scalar", "array", "dictionary"}
       /\ d.region[o].refs \in Seq(Nat)

ASSUME DocumentsAssumption == \A d \in Documents : IsDocument(d)

(* The table entry of i can be read and points below the table. *)
HasMarker(d, i) ==
  /\ i \in Indices(d)
  /\ d.entrySizeLegal
  /\ d.offset[i] \in Offsets(d)

(***************************************************************************)
(* build_dictionary: the first half of the collected values are the keys,  *)
(* which must be strings, the second half their values in the same order.  *)
(***************************************************************************)
Pairs(collected) == Len(collected) \div 2

KeysAreStrings(collected) == \A k \in 1 .. Pairs(collected) : IsString(collected[k])

build_dictionary(collected) ==
  Dictionary([k \in 1 .. Pairs(collected) |->
                Entry(collected[k].text, collected[k + Pairs(collected)])])

(* The node a container's collected children make, and whether they do. *)
Buildable(marker, collected) == marker.tag = "dictionary" => KeysAreStrings(collected)

Build(marker, collected) ==
  IF marker.tag = "dictionary" THEN build_dictionary(collected) ELSE Array(collected)

(***************************************************************************)
(* A memo is a function from the indices of the finished objects to their  *)
(* values.                                                                 *)
(***************************************************************************)
With(memo, i, value) ==
  [j \in DOMAIN memo \cup {i} |-> IF j = i THEN value ELSE memo[j]]

AllIn(refs, indices) == \A k \in 1 .. Len(refs) : refs[k] \in indices

(* The values of the objects a marker refers to. *)
Children(marker, memo) == [k \in 1 .. Len(marker.refs) |-> memo[marker.refs[k]]]

(***************************************************************************)
(* The equations a document poses, one for each object: the memo holds all *)
(* the object needs, and the value the object then has.                    *)
(***************************************************************************)
Solvable(d, i, memo) ==
  /\ HasMarker(d, i)
  /\ Marker(d, i).sound
  /\ IsContainer(Marker(d, i)) =>
       /\ AllIn(Marker(d, i).refs, DOMAIN memo)
       /\ Buildable(Marker(d, i), Children(Marker(d, i), memo))

ValueOf(d, i, memo) ==
  IF IsContainer(Marker(d, i))
  THEN Build(Marker(d, i), Children(Marker(d, i), memo))
  ELSE Marker(d, i).value

=============================================================================
