-------------------------------- MODULE Scalars --------------------------------
(***************************************************************************)
(* What becomes of dates that travel through codecs, of texts read as      *)
(* numbers while they are typed, and of integers that are compared.        *)
(***************************************************************************)
EXTENDS NumberText

CONSTANTS
  Dates,        (* instants of the calendar *)
  Nanos,        (* instants, as nanoseconds since 1970 *)
  Beginnings,   (* texts *)
  Keys,         (* what is typed after a beginning: its characters *)
  MaxText,      (* bound: characters of a text *)
  MaxTrips,     (* bound: codecs a date goes through *)
  Offsets,      (* seconds a foreign writer is east of UTC *)
  Precision,    (* significant bits of a double: 53 *)
  Grid,         (* a power of two: what is smaller is lost *)
  NanosPerSecond, AppleEpochSeconds,   (* 10 ^ 9, and from 1970 to 2001 *)
  FirstNano, LastNano

ASSUME AppleEpochAssumption ==
  /\ Precision \in Nat /\ Grid \in Nat \ {0} /\ NanosPerSecond \in Nat \ {0} /\ AppleEpochSeconds \in Nat
  /\ FirstNano \in Int /\ LastNano \in Int /\ FirstNano <= LastNano

VARIABLES
  subject,   (* what is looked at: "dates", "nanos", "text" or "integers" *)
  origin,    (* a date, two instants or integers, or a text, as it began *)
  now,       (* what has become of it *)
  trips      (* the codecs that had a hand in it *)

vars == <<subject, origin, now, trips>>

-----------------------------------------------------------------------------
(***************************************************************************)
(* Dates of binary documents (src/src/date.rs): seconds since 2001 as a    *)
(* double, for doubles of any precision and seconds of any length.  A      *)
(* double is a whole number of 1 / Grid, with Precision significant bits.  *)
(***************************************************************************)
Magnitude(n) == IF n < 0 THEN -n ELSE n
Sign(n)      == IF n < 0 THEN -1 ELSE 1
Truncated(p, q) == Sign(p) * (Magnitude(p) \div q)

(* p / q rounded to nearest, ties to even. *)
Double(p, q) ==
  LET a    == Magnitude(p)
      bits == CHOOSE k \in 0 .. 30 : /\ a * Grid < (2 ^ Precision) * q * (2 ^ k)
                                     /\ k > 0 => a * Grid >= (2 ^ Precision) * q * (2 ^ (k - 1))
      unit == q * (2 ^ bits)
      low  == (a * Grid) \div unit
      rest == 2 * ((a * Grid) % unit)
      up   == rest > unit \/ (rest = unit /\ low % 2 = 1)
  IN Sign(p) * (IF up THEN low + 1 ELSE low) * (2 ^ bits)

(* The total is rounded once, then divided, then the epoch comes off. *)
to_apple_epoch(nanos) ==
  LET total   == Double(nanos, 1)
      seconds == Double(total, NanosPerSecond * Grid)
  IN Double(seconds - AppleEpochSeconds * Grid, Grid)

Unclamped(nanos) == nanos   (* mutant: a date that is too far away is kept *)
Clamped(nanos)   == IF nanos < FirstNano THEN FirstNano ELSE IF nanos > LastNano THEN LastNano ELSE nanos

(* Whole seconds and nanoseconds both round toward zero; from_unix carries *)
(* and clamps.                                                             *)
from_apple_epoch(seconds) ==
  LET val   == Double(seconds + AppleEpochSeconds * Grid, Grid)
      secs  == Truncated(val, Grid)
      fract == Double((val - secs * Grid) * NanosPerSecond, Grid)
  IN Clamped(secs * NanosPerSecond + Truncated(fract, Grid))

-----------------------------------------------------------------------------

Init ==
  /\ trips = << >>
  /\ \/ subject = "dates"    /\ origin \in {<<date>> : date \in Dates}
     \/ subject = "nanos"    /\ origin \in Nanos \X Nanos
     \/ subject = "text"     /\ origin \in Beginnings
     \/ subject = "integers" /\ origin \in AllIntegers \X AllIntegers
  /\ now = origin

(* A foreign writer's form of a date: its own zone, if the date has a year *)
(* of four digits there, and a fraction longer than ours.                  *)
Foreign(date, mark, offset) ==
  LET abs == Magnitude(offset) \div 60 IN
  Civil(clamped(date.day, date.sec + offset, 0), mark) \o <<",">> \o Padded(date.nano, 9) \o <<"7">>
    \o (IF mark = "T" THEN << >> ELSE <<" ">>) \o <<IF offset < 0 THEN "-" ELSE "+">>
    \o Padded(abs \div 60, 2) \o (IF mark = "T" THEN <<":">> ELSE << >>) \o Padded(abs % 60, 2)

(* Written by a codec and read again; {} when the reader refuses. *)
Trip(codec, date) ==
  CASE codec = "xml"      -> parse_rfc3339(format_rfc3339(date))
    [] codec = "text"     -> parse_text_layout(format_text_layout(date))
    [] codec = "sentinel" -> parse_sentinel_date(format_sentinel_date(date))
    [] codec = "system"   -> {from_system_time(to_system_time(date))}
    [] codec = "foreign"  -> UNION {parse_rfc3339(Foreign(date, "T", o)) \cup
                                    parse_text_layout(Foreign(date, " ", o))
                                      : o \in {p \in Offsets : date.day + ((date.sec + p) \div 86400) <= MaxInstant.day}}

Travel(codec) ==
  /\ subject = "dates" /\ Len(trips) < MaxTrips
  /\ \E date \in Trip(codec, now[1]) : now' = <<date>>
  /\ trips' = Append(trips, codec)
  /\ UNCHANGED <<subject, origin>>

(* The reader refuses it. *)
Refused(codec) ==
  /\ subject = "dates" /\ Len(trips) < MaxTrips
  /\ Trip(codec, now[1]) = {}
  /\ subject' = "refused"
  /\ trips' = Append(trips, codec)
  /\ UNCHANGED <<origin, now>>

Archive ==
  /\ subject = "nanos" /\ Len(trips) < MaxTrips
  /\ now' = [k \in 1 .. 2 |-> from_apple_epoch(to_apple_epoch(now[k]))]
  /\ trips' = Append(trips, "binary")
  /\ UNCHANGED <<subject, origin>>

Type ==
  /\ subject = "text" /\ Len(now) < MaxText
  /\ \E c \in Keys[origin] : now' = Append(now, c)
  /\ UNCHANGED <<subject, origin, trips>>

Next ==
  \/ \E codec \in {"xml", "text", "sentinel", "system", "foreign"} : Travel(codec) \/ Refused(codec)
  \/ Archive \/ Type

Spec == Init /\ [][Next]_vars

-----------------------------------------------------------------------------
(***************************************************************************)
(* Properties.                                                             *)
(***************************************************************************)
Codecs == {trips[k] : k \in DOMAIN trips}

(* However many codecs a date goes through, it loses nothing but its part  *)
(* of a second, and that to XML and text alone; a reader refuses just the  *)
(* dates before year 0, and serde's sentinel and SystemTime not even       *)
(* these (date.rs:147-193, ser.rs:66-90).                                  *)
DatesSurvive ==
  LET civil == {"xml", "text"}
      ancient(date) == YearOf(date.day) < 0
  IN /\ subject = "dates" =>
          /\ now[1] = IF Codecs \cap civil = {} THEN origin[1] ELSE [origin[1] EXCEPT !.nano = 0]
          /\ Codecs \cap civil # {} => ~ ancient(origin[1])
     /\ subject = "refused" =>
          trips[Len(trips)] \in civil \cup {"foreign"} /\ ancient(origin[1])

(* Of two dates, the one that is not the later is not the later either     *)
(* once both went through binary documents, in range and out of it; what   *)
(* comes back is in range, goes through unchanged from then on, and is     *)
(* where it was if it was a whole second within the precision of a double. *)
(* (date.rs:82-108)                                                        *)
BinaryDatesSettle ==
  subject = "nanos" /\ trips # << >> =>
    LET odd == CHOOSE d \in 1 .. NanosPerSecond : d % 2 = 1 /\ \E k \in 0 .. 30 : d * (2 ^ k) = NanosPerSecond
    IN /\ origin[1] <= origin[2] => now[1] <= now[2]
       /\ \A k \in 1 .. 2 :
            /\ now[k] \in FirstNano .. LastNano
            /\ from_apple_epoch(to_apple_epoch(now[k])) = now[k]
            /\ /\ origin[k] % NanosPerSecond = 0 /\ origin[k] \in FirstNano .. LastNano
               /\ Magnitude(origin[k] \div NanosPerSecond) * odd < 2 ^ Precision
               => now[k] = origin[k]

(* Every float there is, and 2 ^ (MaxExp + 1), which is the first that is  *)
(* none: m * 2 ^ (e - MantBits).                                           *)
AllFloats ==
  {[m |-> m, e |-> e] : m \in 2 ^ MantBits .. 2 ^ (MantBits + 1) - 1, e \in MinExp .. MaxExp}
    \cup {[m |-> m, e |-> MinExp] : m \in 0 .. 2 ^ MantBits - 1}
    \cup {[m |-> 2 ^ MantBits, e |-> MaxExp + 1]}

(* The float nearest to n * 2 ^ x, of two the even one; what is beyond the *)
(* scale is far beyond the floats.  (n is at most 4 hex digits here.)      *)
Scale == 20
Nearest(n, x) ==
  LET value == IF n = 0 \/ x < -Scale THEN 0
               ELSE IF x > MaxExp + 2 \/ n >= 2 ^ (MaxExp + 2 - x)
               THEN 2 ^ (MaxExp + 1 + Scale)
               ELSE n * (2 ^ (x + Scale))
      away(f) == Magnitude(value - f.m * (2 ^ (f.e - MantBits + Scale)))
  IN CHOOSE f \in AllFloats :
       \A g \in AllFloats \ {f} : away(f) < away(g) \/ (away(f) = away(g) /\ f.m % 2 = 0)

(* A hex float is read as the float nearest to it, the even one of two,    *)
(* however many digits it has and wherever its point is; too small a one   *)
(* is subnormal or zero and too large a one, but no other, is refused      *)
(* (scalar.rs:222-365).                                                    *)
HexFloatsAreNearest ==
  subject = "text" /\ CharAt(now, 1) = "0" /\ CharAt(now, 2) = "x" =>
    \A p \in 3 .. Len(now) :
      LET head == SubSeq(now, 3, p - 1)
          dots == {q \in DOMAIN head : head[q] = "."}
          frac == IF dots = {} THEN 0 ELSE Len(head) - CHOOSE q \in dots : TRUE
      IN /\ now[p] = "p" /\ OnlyOf(head, HexSet \cup {"."}) /\ Cardinality(dots) < Len(head)
         /\ Cardinality(dots) <= 1 /\ OnlyOf(Unsign(SubSeq(now, p + 1, Len(now))), DigitSet)
         => LET e    == NumberOf(Unsign(SubSeq(now, p + 1, Len(now)))) * (IF CharAt(now, p + 1) = "-" THEN -1 ELSE 1)
                best == Nearest(InBase(SelectSeq(head, LAMBDA c : c # "."), 16), e - 4 * frac)
            IN {[m |-> f.mantissa + (IF f.exp = 0 THEN 0 ELSE 2 ^ MantBits),
                 e |-> IF f.exp = 0 THEN MinExp ELSE f.exp + Bias] : f \in parse_f64(now)}
                 = {best} \ {[m |-> 2 ^ MantBits, e |-> MaxExp + 1]}

(* A text with underscores is a float just if it is one without them and   *)
(* each stands between two digits, the base prefix being one; it is the    *)
(* same float then (scalar.rs:61-90, 124-160).                             *)
UnderscoresOnlyGroup ==
  subject = "text" =>
    LET bare  == SelectSeq(now, LAMBDA c : c # "_")
        first == IF IsSign(CharAt(now, 1)) THEN 2 ELSE 1
        based == CharAt(now, first) = "0" /\ CharAt(now, first + 1) = "x"
        digit(q) == CharAt(now, q) \in IF based THEN HexSet ELSE DigitSet
        bars  == {q \in DOMAIN now : now[q] = "_"}
    IN bars # {} =>
         parse_f64(now) = IF \A q \in bars : (digit(q - 1) \/ (based /\ q = first + 2)) /\ digit(q + 1)
                          THEN parse_f64(bare) ELSE {}

(* A decimal float that is formatted is read as the same float, in         *)
(* whichever of its forms it is formatted (scalar.rs:165-210, 372-420).    *)
DecimalsReadBack ==
  subject = "text" =>
    \A f \in parse_f64(now) : f.float = "decimal" => parse_f64(format_f64(f)) = {f}

(* Integers that are equal are so in every way: they hash alike, neither   *)
(* is less, and they are the same i64 or u64 if any.  Of others one is     *)
(* less, and no i64 or u64 is both; their hashes may be the same, as those *)
(* of -1 and u64::MAX are (integer.rs:48-134, 214-219).                    *)
IntegersAgree ==
  subject = "integers" =>
    LET i == now[1]  j == now[2] IN
    /\ equal(i, j) <=> ~ less(i, j) /\ ~ less(j, i)
    /\ equal(i, j) => hash(i) = hash(j)
    /\ equal(i, j) => as_signed(i) = as_signed(j) /\ as_unsigned(i) = as_unsigned(j)
    /\ to_raw_parts(i) = to_raw_parts(j) => i = j
    /\ equal(i, j) <=> \/ as_signed(i) # {} /\ as_signed(i) = as_signed(j)
                       \/ as_unsigned(i) # {} /\ as_unsigned(i) = as_unsigned(j)

=============================================================================
