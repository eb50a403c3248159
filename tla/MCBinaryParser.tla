--------------------------- MODULE MCBinaryParser ---------------------------
(***************************************************************************)
(* Small documents for TLC: every graph of three objects over a set of     *)
(* markers that covers each tag, each kind of damage, sharing, cycles,     *)
(* dangling references and offsets two objects share.                      *)
(***************************************************************************)
EXTENDS BinaryParserReference, FiniteSetsExt

(* The value of a marker that has none. *)
NoValue == Scalar("none", "")

Leaf(value, sound)       == [tag |-> "scalar", value |-> value, refs |-> << >>, sound |-> sound]
Holder(tag, refs, sound) == [tag |-> tag, value |-> NoValue, refs |-> refs, sound |-> sound]

StringA == Leaf(String("a"), TRUE)
Atom    == Leaf(Integer(1), TRUE)
Damaged == Leaf(NoValue, FALSE)

(* Array and dictionary reference lists over the objects is. *)
Lists(is) == {<< >>} \cup {<<i>> : i \in is} \cup (is \X is)

Markers ==
  {StringA, Atom, Damaged}
  \cup {Holder("array", refs, TRUE) : refs \in Lists(0 .. 2) \cup {<<1, 3>>}}
  \cup {Holder("dictionary", refs, TRUE) :
          refs \in {<< >>, <<1, 2>>, <<2, 1>>, <<2, 0>>, <<2, 2, 1, 0>>, <<2, 2, 2, 1>>}}
  \cup {Holder("array", <<1>>, FALSE)}

Document(offset, region, entries, refs) ==
  [numObjects |-> Cardinality(DOMAIN offset), top |-> 0, offset |-> offset,
   region |-> region, entrySizeLegal |-> entries, refSizeLegal |-> refs]

Table(a, b, c) == [i \in 0 .. 2 |-> <<a, b, c>>[i + 1]]

(* Object 0 is the top, a container: a scalar top needs no table. *)
Tops == {m \in Markers : IsContainer(m) /\ m.sound /\ m.refs # << >>}

Region(a, b, c) == [o \in 0 .. 2 |-> <<a, b, c>>[o + 1]]

(* The two ways the widths the trailer gives can be ones nothing reads. *)
OddWidths ==
  {Document(Table(0, 1, 2), [o \in 0 .. 2 |-> Holder("array", refs, TRUE)], e, r) :
     e \in BOOLEAN, r \in BOOLEAN, refs \in {<< >>, <<1>>}}

(* Every region, each object with an offset of its own. *)
PlainDocuments ==
  {Document(Table(0, 1, 2), Region(a, b, c), TRUE, TRUE) :
     a \in Tops, b \in Markers, c \in Markers} \cup OddWidths

(* Objects that share an offset, or whose offset is beyond the table. *)
AliasDocuments ==
  {Document(t, Region(a, b, c), TRUE, TRUE) :
     t \in {Table(0, 0, 1), Table(0, 1, 0), Table(0, 1, 1), Table(0, 1, 7), Table(0, 7, 2), Table(1, 0, 2)},
     a \in Tops,
     b \in {StringA} \cup {Holder("array", refs, TRUE) : refs \in {<<2>>, <<1, 2>>}}
            \cup {Holder("dictionary", <<2, 0>>, TRUE)},
     c \in {StringA} \cup {Holder("array", refs, TRUE) : refs \in {<<0>>, <<1>>}}}

(* A chain of nested arrays that ends in a shorter chain met before. *)
ChainDocuments ==
  {Document([i \in 0 .. 4 |-> i],
            [o \in 0 .. 4 |->
               CASE o = 0 -> Holder("array", first, TRUE)
                 [] o = 1 -> Holder("array", <<2>>, TRUE)
                 [] o = 2 -> Holder("array", <<4>>, TRUE)
                 [] o = 3 -> Holder("array", <<1>>, TRUE)
                 [] o = 4 -> Atom], TRUE, TRUE) :
     first \in {<<1, 3>>, <<3, 1>>, <<1>>, <<2, 3>>}}

AllDocuments == PlainDocuments \cup AliasDocuments \cup ChainDocuments

=============================================================================
