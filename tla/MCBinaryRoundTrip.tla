-------------------------- MODULE MCBinaryRoundTrip --------------------------
(***************************************************************************)
(* Small values for TLC: scalars of every type, integers around each       *)
(* width's limit on a machine of 64 words, and containers that repeat      *)
(* scalars in every order.                                                 *)
(***************************************************************************)
EXTENDS BinaryRoundTrip

Written0(n, signed) == [type |-> "integer", number |-> n, signed |-> signed]

(* Two payloads with one checksum. *)
MCCrc(bytes) == IF bytes \in {"collide1", "collide2"} THEN 1 ELSE 0

Integers ==
  {Written0(n, TRUE) : n \in -32 .. 31} \cup {Written0(n, FALSE) : n \in 0 .. 63}

Scalars ==
  {String("a"), String("b"), Written0(1, TRUE), Written0(1, FALSE), Written0(-1, TRUE), Written0(63, FALSE),
   Real("+0", TRUE), Real("-0", TRUE), Real("-0", FALSE), Real("nan", TRUE),
   Boolean(TRUE), Boolean(FALSE), Uid(1), Uid(2),
   Data("collide1"), Data("collide2"), Date("d")}

Dict(k, v, l, w) == Dictionary(<<Entry(k, v), Entry(l, w)>>)

Pairs == {Array(<<v, w>>) : v \in Scalars, w \in Scalars}
Few   == {String("a"), Boolean(TRUE), Uid(1), Written0(1, TRUE), Real("nan", TRUE)}
Inner == {Array(<<v, w>>) : v \in Few, w \in Few} \cup {Dict("a", v, "b", w) : v \in Few, w \in Few}

MCRoots ==
  Scalars \cup Integers \cup Pairs \cup Inner
  \cup {Array(<< >>), Dictionary(<< >>)}
  \cup {Array(<<x, v, x>>) : x \in {Boolean(TRUE), Uid(1), String("a")}, v \in Inner}
  \cup {Dict("b", v, "a", x) : v \in Inner, x \in Few}
  \cup {Array(<<v, w>>) : v \in Inner, w \in Inner}
  \cup {Array(<<Array(<<v, x>>), x>>) : v \in Inner, x \in Few}
  \cup {Array(<<Array(<<Array(<<v>>)>>)>>) : v \in Inner}

=============================================================================
