-------------------------------- MODULE MCSerde --------------------------------
EXTENDS SerdeRoundTrip

Leaf(method, payload) == [method |-> method, payload |-> payload]
Opening(method, name) == [method |-> method, name |-> name]

A == <<"a">>
B == <<"b">>
D(y, m, d, sec, nano) == [day |-> DayOf(y, m, d), sec |-> sec, nano |-> nano]
Ancient == D(-1, 12, 31, 86399, 120000000)
Recent  == D(2001, 1, 1, 0, 5)
Float   == [float |-> "decimal", negative |-> FALSE, digits |-> <<"5">>, exp |-> 0]

MCIntMin     == -4
MCMinDecimal == -7
MCByteOf(b)  == IF b = "x" THEN 1 ELSE 7

MCLeaves ==
  {Leaf("none", << >>), Leaf("u128", 8), Leaf("i64", -1), Leaf("u64", 7), Leaf("f32", Float), Leaf("str", A),
   Leaf("bytes", <<"x">>)}
MCOpenings ==
  {Opening("seq", ""), Opening("tuple_variant", B), Opening("map", ""), Opening("struct", ""),
   Opening("struct_variant", A), Opening("newtype_variant", A), Opening("newtype_struct", "$uid"),
   Opening("newtype_struct", "$date")}
MCKeyCalls == {Leaf("str", A), Leaf("unit_variant", B), Leaf("i64", -1)}

Scalars ==
  {String(A), String(<<"-", "3">>), String(<<"1">>), String(<<"0", "x", "1", "p", "1">>),
   String(format_text_layout(Recent)), Integer(-4), Integer(7), Boolean(TRUE), Real(Float, FALSE), Real(Float, TRUE),
   Uid(7), Data(<<"x", "y">>), Date(Ancient), Date(Recent)}
Nested ==
  {Array(<<v>>) : v \in {Array(<<Array(<< >>)>>), Data(<<"x">>), Mapping(<<Entry(A, Array(<<Uid(0)>>))>>)}}
    \cup {Array(<<Integer(1), String(A)>>), Array(<< >>), Mapping(<< >>),
          Mapping(<<Entry(A, Integer(1)), Entry(B, String(A))>>),
          Mapping(<<Entry(A, Array(<<Integer(1)>>)), Entry(B, Mapping(<<Entry(A, Array(<< >>))>>))>>),
          Mapping(<<Entry(<<"1">>, String(<<"1">>))>>)}
    \cup {Mapping(<<Entry(B, v)>>) : v \in {Uid(1), Date(Recent), Array(<<String(B), Data(<< >>)>>),
                                             Mapping(<<Entry(A, String(A)), Entry(B, Boolean(FALSE))>>)}}
Inside == UNION {Contents(v) : v \in Nested}
MCValues == Scalars \cup Nested \cup Inside \cup UNION {Contents(v) : v \in Inside}
              \cup UNION {Contents(w) : w \in UNION {Contents(v) : v \in Inside}}

=============================================================================
