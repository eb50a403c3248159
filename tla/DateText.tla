------------------------------- MODULE DateText -------------------------------
(***************************************************************************)
(* Dates (src/src/date.rs): the instant, the civil calendar, and the two   *)
(* text forms with the extension serde's sentinel makes of one of them.    *)
(*                                                                         *)
(* An instant is a day since 1970, a second of the day and a nanosecond; a *)
(* text is a sequence of characters.  What a reader returns is a set, {}   *)
(* when it refuses.                                                        *)
(***************************************************************************)
EXTENDS Integers, Sequences, FiniteSets, SequencesExt, FiniteSetsExt

DigitChars == <<"0", "1", "2", "3", "4", "5", "6", "7", "8", "9">>
DigitSet   == {DigitChars[k] : k \in 1 .. 10}
DigitValue == [c \in DigitSet |-> (CHOOSE k \in 1 .. 10 : DigitChars[k] = c) - 1]

(* The character at p, "end" when there is none. *)
CharAt(text, p)     == IF p \in 1 .. Len(text) THEN text[p] ELSE "end"
DigitRun(text, p)   == (CHOOSE q \in p .. Len(text) + 1 :
                          CharAt(text, q) \notin DigitSet /\ \A r \in p .. q - 1 : text[r] \in DigitSet) - p
NumberOf(digits)    == FoldLeft(LAMBDA n, c : 10 * n + DigitValue[c], 0, digits)
NumberAt(text, p, n) == NumberOf(SubSeq(text, p, p + n - 1))
FixedDigits(text, p, n) == p + n - 1 <= Len(text) /\ \A q \in p .. p + n - 1 : text[q] \in DigitSet

(* {:0n} of a number *)
Padded(n, width) == [k \in 1 .. width |-> DigitChars[((n \div (10 ^ (width - k))) % 10) + 1]]

-----------------------------------------------------------------------------
(***************************************************************************)
(* The calendar (the time crate), years -9999 to 9999.                     *)
(***************************************************************************)
IsLeap(y)           == y % 4 = 0 /\ (y % 100 # 0 \/ y % 400 = 0)
MonthLength(y, m)   == IF m = 2 THEN (IF IsLeap(y) THEN 29 ELSE 28)
                       ELSE IF m \in {4, 6, 9, 11} THEN 30 ELSE 31
YearStart(y)        == 365 * (y - 1970) + ((y - 1) \div 4) - ((y - 1) \div 100) + ((y - 1) \div 400) - 477
MonthStart(y, m)    == YearStart(y) + FoldLeft(+, 0, [k \in 1 .. m - 1 |-> MonthLength(y, k)])
DayOf(y, m, d)      == MonthStart(y, m) + d - 1

YearOf(day)         == LET guess == 1970 + (day \div 366) IN
                       CHOOSE y \in guess - 30 .. guess + 30 : YearStart(y) <= day /\ day < YearStart(y + 1)
MonthIn(y, day)     == CHOOSE m \in 1 .. 12 : MonthStart(y, m) <= day /\ day < MonthStart(y, m) + MonthLength(y, m)

MinInstant == [day |-> YearStart(-9999), sec |-> 0, nano |-> 0]
MaxInstant == [day |-> YearStart(10000) - 1, sec |-> 86399, nano |-> 999999999]

(* from_unix and clamped: nanoseconds carry into seconds, these into days, *)
(* and both ends are walls. *)
Billion == 1000000000
Carried(day, sec, nano) ==
  LET secs == sec + (nano \div Billion) IN
  [day |-> day + (secs \div 86400), sec |-> secs % 86400, nano |-> nano % Billion]
clamped(day, sec, nano) ==
  LET at == Carried(day, sec, nano) IN
  IF at.day < MinInstant.day THEN MinInstant ELSE IF at.day > MaxInstant.day THEN MaxInstant ELSE at

(* from_civil; offset is the zone's, in seconds. *)
from_civil(y, m, d, hour, minute, second, nano, offset) ==
  IF m \in 1 .. 12 /\ d \in 1 .. MonthLength(y, m) /\ hour < 24 /\ minute < 60 /\ second < 60
  THEN {clamped(DayOf(y, m, d), 3600 * hour + 60 * minute + second - offset, nano)}
  ELSE {}

(* From<SystemTime> and its inverse: a duration on either side of 1970,    *)
(* which has no negative parts.                                            *)
from_system_time(time) ==
  IF time.past THEN clamped(-time.span.day, -time.span.sec, -time.span.nano)
  ELSE clamped(time.span.day, time.span.sec, time.span.nano)

ToSystemTimeWhole(date) ==   (* mutant: the part of a second is added below 1970 too *)
  IF date.day >= 0 THEN [past |-> FALSE, span |-> date]
  ELSE [past |-> TRUE, span |-> Carried(-date.day, -date.sec, date.nano)]

to_system_time(date) ==
  IF date.day >= 0 THEN [past |-> FALSE, span |-> date]
  ELSE IF date.nano = 0 THEN [past |-> TRUE, span |-> Carried(-date.day, -date.sec, 0)]
  ELSE [past |-> TRUE, span |-> Carried(-date.day, -date.sec - 1, Billion - date.nano)]

-----------------------------------------------------------------------------
(***************************************************************************)
(* Cursor.  The fields stand where they must but for the hour, which has   *)
(* one digit or two, and what follows it.                                  *)
(***************************************************************************)
(* A fraction that has no digit is left for the zone to refuse; the digits *)
(* after the ninth are read over.                                          *)
FractionOf(text, p, run, kept) ==
  IF CharAt(text, p) \in {".", ","} /\ run > 0
  THEN [length |-> 1 + run, nano |-> NumberAt(text, p + 1, kept) * (10 ^ (9 - kept))]
  ELSE [length |-> 0, nano |-> 0]
FractionRun(text, p, run) == FractionOf(text, p, run, IF run < 9 THEN run ELSE 9)
fraction(text, p)         == FractionRun(text, p, DigitRun(text, p + 1))

zone_seconds(text, sign, hours, minutes) ==
  LET h == NumberAt(text, hours, 2)  m == NumberAt(text, minutes, 2) IN
  IF h > 24 \/ m > 60 THEN {} ELSE {(IF CharAt(text, sign) = "-" THEN -60 ELSE 60) * (60 * h + m)}

(* Z or +hh:mm to the end of the text *)
rfc3339_offset(text, p) ==
  IF CharAt(text, p) = "Z" /\ p = Len(text) THEN {0}
  ELSE IF /\ CharAt(text, p) \in {"+", "-"} /\ FixedDigits(text, p + 1, 2) /\ CharAt(text, p + 3) = ":"
          /\ FixedDigits(text, p + 4, 2) /\ p + 5 = Len(text)
       THEN zone_seconds(text, p, p + 1, p + 4) ELSE {}

(* +hhmm to the end of the text *)
numeric_offset(text, p) ==
  IF CharAt(text, p) \in {"+", "-"} /\ FixedDigits(text, p + 1, 4) /\ p + 4 = Len(text)
  THEN zone_seconds(text, p, p + 1, p + 3) ELSE {}

zone_offset(text, mark, p) ==
  IF mark = "T" THEN rfc3339_offset(text, p)
  ELSE IF CharAt(text, p) = " " THEN numeric_offset(text, p + 1) ELSE {}

(* The date, a mark, the clock; what is behind the seconds is the zone's. *)
FieldsAt(text, mark, colon, part) ==
  IF /\ FixedDigits(text, 1, 4) /\ CharAt(text, 5) = "-" /\ FixedDigits(text, 6, 2)
     /\ CharAt(text, 8) = "-" /\ FixedDigits(text, 9, 2) /\ CharAt(text, 11) = mark
     /\ FixedDigits(text, 12, colon - 12) /\ CharAt(text, colon) = ":"
     /\ FixedDigits(text, colon + 1, 2) /\ CharAt(text, colon + 3) = ":"
     /\ FixedDigits(text, colon + 4, 2)
  THEN UNION {from_civil(NumberAt(text, 1, 4), NumberAt(text, 6, 2), NumberAt(text, 9, 2),
                         NumberAt(text, 12, colon - 12), NumberAt(text, colon + 1, 2),
                         NumberAt(text, colon + 4, 2), part.nano, offset)
                : offset \in zone_offset(text, mark, colon + 6 + part.length)}
  ELSE {}
FieldsFrom(text, mark, colon) == FieldsAt(text, mark, colon, fraction(text, colon + 6))
Fields(text, mark)            == FieldsFrom(text, mark, IF CharAt(text, 13) \in DigitSet THEN 14 ELSE 13)

parse_rfc3339(text)     == Fields(text, "T")
parse_text_layout(text) == Fields(text, " ")

-----------------------------------------------------------------------------
(***************************************************************************)
(* Formatting.                                                             *)
(***************************************************************************)
format_year(y) == IF y < 0 THEN <<"-">> \o Padded(-y, 4) ELSE Padded(y, 4)

(* civil_parts around a mark *)
CivilOf(date, mark, y, m) ==
  format_year(y) \o <<"-">> \o Padded(m, 2) \o <<"-">> \o Padded(date.day - MonthStart(y, m) + 1, 2)
    \o <<mark>> \o Padded(date.sec \div 3600, 2) \o <<":">> \o Padded((date.sec \div 60) % 60, 2)
    \o <<":">> \o Padded(date.sec % 60, 2)
CivilIn(date, mark, y) == CivilOf(date, mark, y, MonthIn(y, date.day))
Civil(date, mark)      == CivilIn(date, mark, YearOf(date.day))

format_rfc3339(date)     == Civil(date, "T") \o <<"Z">>
format_text_layout(date) == Civil(date, " ") \o <<" ", "+", "0", "0", "0", "0">>

(* value/ser.rs: the fraction too, without its trailing zeros *)
format_sentinel_date(date) ==
  IF date.nano = 0 THEN format_rfc3339(date)
  ELSE LET digits == Padded(date.nano, 9)
           kept   == Max({k \in 1 .. 9 : digits[k] # "0"})
       IN Civil(date, "T") \o <<".">> \o SubSeq(digits, 1, kept) \o <<"Z">>

(* The form it gives to years before 0: all fields fixed, UTC, a fraction  *)
(* of at most nine digits.                                                 *)
parse_negative_year_date(rest) ==
  LET part == fraction(rest, 20) IN
  IF /\ FixedDigits(rest, 12, 2) /\ CharAt(rest, Len(rest)) = "Z"
     /\ \/ Len(rest) = 20
        \/ CharAt(rest, 20) = "." /\ part.length \in 2 .. 10 /\ Len(rest) = 20 + part.length
  THEN {[date EXCEPT !.day = DayOf(-NumberAt(rest, 1, 4), NumberAt(rest, 6, 2), NumberAt(rest, 9, 2))]
          : date \in parse_rfc3339(rest)}
  ELSE {}

parse_sentinel_date(text) ==
  IF CharAt(text, 1) = "-" THEN parse_negative_year_date(Tail(text)) ELSE parse_rfc3339(text)

=============================================================================
