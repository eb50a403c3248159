------------------------------- MODULE MCScalars -------------------------------
(* Dates of both ends, both eras and both sides of 1970; doubles of seven  *)
(* bits, with 24 nanoseconds in a second and 20 seconds from 1970 to 2001, *)
(* which puts the last exact second behind the second 2001 of the epoch as *)
(* the program's constants do; floats of three bits and three of exponent. *)
EXTENDS Scalars

At(y, m, d, sec, nano) == [day |-> DayOf(y, m, d), sec |-> sec, nano |-> nano]
MCDates ==
  {MinInstant, MaxInstant, At(-1, 12, 31, 86399, 1), At(0, 2, 29, 0, 120000000), At(1969, 12, 31, 86399, 999999999),
   At(1970, 1, 1, 0, 0), At(2000, 2, 29, 35999, 5), At(9999, 12, 31, 80000, 0), At(-400, 3, 1, 3600, 0)}
MCOffsets == {-86400, -19800, 0, 45060}

MCFirstNano == -1200
MCNanos     == {-1201, -1200, -1199, -1032, -1009, -1008, -984, -481, -480, -24, -1, 0, 1, 5, 7, 23, 24, 168,
                479, 480, 481, 486, 491, 492, 504, 600, 1008, 1010, 1032, 1179, 1200, 1201, 1300}

MCIntMin     == -4
MCMinDecimal == -7
HexText     == <<"0", "x">>
MinusText   == <<"-">>
PointText   == <<"1", "0", ".">>
MCBeginnings == {HexText, MinusText, << >>, PointText}
MCKeys ==
  [b \in MCBeginnings |->
     CASE b = HexText   -> {"0", "1", "7", "f", ".", "p", "-"}
       [] b = MinusText -> {"0", "2", "_", "x", "a", "p"}
       [] b = << >>     -> {"0", "3", ".", "e", "-"}
       [] b = PointText -> {"0", "4", "e", "+", "_"}]

=============================================================================
