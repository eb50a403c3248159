------------------------------ MODULE NumberText ------------------------------
(***************************************************************************)
(* Numbers and booleans as texts (src/src/scalar.rs), the two-headed       *)
(* integer (src/src/value/integer.rs).                                     *)
(*                                                                         *)
(* A text is a sequence of characters, and a reader returns a set, {} when *)
(* it refuses.  A decimal float is its significant digits and exponent:    *)
(* f64::from_str, outside, rounds it.  A hex float is rounded here, to a   *)
(* format of any width.                                                    *)
(***************************************************************************)
EXTENDS DateText, Integers, Sequences, FiniteSets, SequencesExt, FiniteSetsExt

CONSTANTS
  IntMin, Word,      (* i64 is IntMin .. -IntMin - 1, u64 is 0 .. Word - 1 *)
  MaxDecimal,        (* 10 ^ MaxDecimal overflows: 308 and a bit *)
  MinDecimal,        (* what is below 10 ^ MinDecimal is zero: -324 and a bit *)
  MantBits, ExpBits, (* 52 and 11 *)
  WordDigits         (* hex digits in a word: 16 *)

ASSUME NumberAssumption ==
  /\ Word \in Nat \ {0} /\ Word = -2 * IntMin /\ IntMin \in Int /\ MaxDecimal \in Nat /\ MinDecimal \in Int
  /\ MantBits \in Nat /\ ExpBits \in Nat \ {0} /\ 4 * WordDigits >= MantBits + 3

(***************************************************************************)
(* Integer: Signed or Unsigned, equal by value.                            *)
(***************************************************************************)
Signed(n)    == [form |-> "signed", n |-> n]
Unsigned(n)  == [form |-> "unsigned", n |-> n]
AllIntegers  == {Signed(n) : n \in IntMin .. -IntMin - 1} \cup {Unsigned(n) : n \in 0 .. Word - 1}

as_signed(i)    == IF i.form = "signed" \/ i.n <= -IntMin - 1 THEN {i.n} ELSE {}
as_unsigned(i)  == IF i.form = "unsigned" \/ i.n >= 0 THEN {i.n} ELSE {}
to_raw_parts(i) == [signed |-> i.form = "signed", bits |-> i.n % Word]
EqualBits(i, j) == i.n % Word = j.n % Word   (* mutant: a sign is no difference *)
equal(i, j)     == IF i.form = j.form THEN i.n = j.n
                   ELSE IF i.form = "signed" THEN i.n >= 0 /\ i.n % Word = j.n
                   ELSE j.n >= 0 /\ j.n % Word = i.n
hash(i)         == i.n % Word    (* what the hasher gets: write_i64 and write_u64 feed it the same bytes *)
less(i, j)      == i.n < j.n     (* widened to i128 *)

-----------------------------------------------------------------------------
(***************************************************************************)
(* Integers and booleans.                                                  *)
(***************************************************************************)
HexDigits  == <<"a", "b", "c", "d", "e", "f", "A", "B", "C", "D", "E", "F">>
HexValue   == [c \in DigitSet \cup {HexDigits[k] : k \in 1 .. 12} |->
                 IF c \in DigitSet THEN DigitValue[c] ELSE 10 + (((CHOOSE k \in 1 .. 12 : HexDigits[k] = c) - 1) % 6)]
HexSet     == DOMAIN HexValue
DigitsOf(base) == IF base = 16 THEN HexSet ELSE DigitSet
OnlyOf(text, set) == text # << >> /\ \A p \in DOMAIN text : text[p] \in set
InBase(digits, base) == FoldLeft(LAMBDA n, c : base * n + HexValue[c], 0, digits)

IsSign(c)      == c \in {"+", "-"}
Unsign(text)   == IF IsSign(CharAt(text, 1)) THEN Tail(text) ELSE text
IsNegative(text) == CharAt(text, 1) = "-"

(* No sign at all, unlike from_str_radix. *)
parse_u64(text, base) ==
  IF OnlyOf(text, DigitsOf(base)) /\ InBase(text, base) < Word THEN {InBase(text, base)} ELSE {}

parse_i64(text, base) ==
  IF OnlyOf(Unsign(text), DigitsOf(base))
  THEN LET n == InBase(Unsign(text), base) IN
       {m \in {IF IsNegative(text) THEN -n ELSE n} : m \in IntMin .. -IntMin - 1}
  ELSE {}

Trues  == {<<"1">>, <<"t">>, <<"T">>, <<"T", "R", "U", "E">>, <<"t", "r", "u", "e">>, <<"T", "r", "u", "e">>}
Falses == {<<"0">>, <<"f">>, <<"F">>, <<"F", "A", "L", "S", "E">>, <<"f", "a", "l", "s", "e">>,
           <<"F", "a", "l", "s", "e">>}
parse_bool(text) == IF text \in Trues THEN {TRUE} ELSE IF text \in Falses THEN {FALSE} ELSE {}

-----------------------------------------------------------------------------
(***************************************************************************)
(* Digit-group underscores: one pass that remembers the last character as  *)
(* the beginning, a digit, an underscore or another.                       *)
(***************************************************************************)
Saw(text) ==
  LET first  == IF IsSign(CharAt(text, 1)) THEN 2 ELSE 1
      prefix == CharAt(text, first) = "0" /\ CharAt(text, first + 1) \in {"b", "o", "x", "B", "O", "X"}
      hex    == prefix /\ CharAt(text, first + 1) \in {"x", "X"}
      step(saw, c) ==
        IF saw = "refused" THEN saw
        ELSE IF c \in DigitSet \/ (hex /\ c \in HexSet) THEN "digit"
        ELSE IF c = "_" THEN (IF saw = "digit" THEN "underscore" ELSE "refused")
        ELSE IF saw = "underscore" THEN "refused" ELSE "other"
  IN FoldLeft(step, IF prefix THEN "digit" ELSE "begin",
              SubSeq(text, IF prefix THEN first + 2 ELSE first, Len(text)))

UnderscoreTrailing(text) == Saw(text) # "refused"   (* mutant: the end is not looked at *)
underscore_ok(text)      == Saw(text) \notin {"underscore", "refused"}

-----------------------------------------------------------------------------
(***************************************************************************)
(* Floats.  What is read is a special, a decimal, or the fields of a hex   *)
(* float.                                                                  *)
(***************************************************************************)
Special(name, negative) == [float |-> "special", name |-> name, negative |-> negative]

(* The digits without the zeros around them, and the exponent of the first *)
(* of them; no digits for zero.                                            *)
Decimal(negative, digits, point) ==
  LET all == {k \in DOMAIN digits : digits[k] # "0"} IN
  [float |-> "decimal", negative |-> negative,
   digits |-> IF all = {} THEN << >> ELSE SubSeq(digits, Min(all), Max(all)),
   exp    |-> IF all = {} THEN 0 ELSE point - Min(all)]

SpecialLetters  == [c \in {"I", "N", "F", "T", "Y", "A"} |->
                      CASE c = "I" -> "i" [] c = "N" -> "n" [] c = "F" -> "f"
                        [] c = "T" -> "t" [] c = "Y" -> "y" [] c = "A" -> "a"]
AnyCase(text)   == [p \in DOMAIN text |-> IF text[p] \in DOMAIN SpecialLetters THEN SpecialLetters[text[p]] ELSE text[p]]
IsInf(text)     == AnyCase(Unsign(text)) \in {<<"i", "n", "f">>, <<"i", "n", "f", "i", "n", "i", "t", "y">>}
IsSpecial(text) == IsInf(text) \/ AnyCase(text) = <<"n", "a", "n">>
parse_special(text) == {IF IsInf(text) THEN Special("inf", IsNegative(text)) ELSE Special("nan", FALSE)}

(* What may follow a mantissa: an exponent behind its mark. *)
Exponent(text) ==
  IF OnlyOf(Unsign(text), DigitSet) THEN {NumberOf(Unsign(text)) * (IF IsNegative(text) THEN -1 ELSE 1)} ELSE {}
Marked(rest, marks) == IF CharAt(rest, 1) \in marks THEN Exponent(Tail(rest)) ELSE {}

(* Digits and at most one point, among the digits and in front of the rest *)
(* of a body.                                                              *)
Parts(body, whole, set) ==
  LET part == IF CharAt(body, whole + 1) = "."
              THEN (CHOOSE q \in whole + 2 .. Len(body) + 1 :
                      CharAt(body, q) \notin set /\ \A r \in whole + 2 .. q - 1 : body[r] \in set) - 1
              ELSE whole
  IN [digits |-> SubSeq(body, 1, whole) \o SubSeq(body, whole + 2, part), whole |-> whole,
      rest |-> SubSeq(body, part + 1, Len(body))]
Mantissa(body, set) ==
  Parts(body, (CHOOSE q \in 1 .. Len(body) + 1 :
                 CharAt(body, q) \notin set /\ \A r \in 1 .. q - 1 : body[r] \in set) - 1, set)

(* An overflow is refused, an underflow is zero. *)
Settled(f) == IF f.exp >= MaxDecimal THEN {}
              ELSE IF f.exp < MinDecimal THEN {Decimal(f.negative, << >>, 0)} ELSE {f}
DecimalOf(negative, m) ==
  IF m.digits = << >> THEN {}
  ELSE UNION {Settled(Decimal(negative, m.digits, m.whole + e))
                : e \in IF m.rest = << >> THEN {0} ELSE Marked(m.rest, {"e", "E"})}
parse_decimal_f64(text) == DecimalOf(IsNegative(text), Mantissa(Unsign(text), DigitSet))

-----------------------------------------------------------------------------
(***************************************************************************)
(* atof_hex: r.m * 2 ^ r.e, brought to MantBits + 3 bits, the two lowest   *)
(* for rounding to nearest, ties to even.  Bits that are shifted out stick *)
(* to the lowest.                                                          *)
(***************************************************************************)
Bias    == 1 - 2 ^ (ExpBits - 1)
MaxExp  == 2 ^ ExpBits + Bias - 2
MinExp  == Bias + 1

Shifts         == 0 .. 4 * WordDigits
Sticky(m, k)   == LET q == m \div (2 ^ k) IN IF q % 2 = 0 /\ m % (2 ^ k) # 0 THEN q + 1 ELSE q
Left(r, k)     == [m |-> r.m * (2 ^ k), e |-> r.e - k]
Right(r, k)    == [m |-> Sticky(r.m, k), e |-> r.e + k]

Widened(r)       == IF r.m = 0 THEN r ELSE Left(r, Min({k \in Shifts : r.m * (2 ^ k) >= 2 ^ (MantBits + 2)}))
Stuck(r, trunc) == IF trunc /\ r.m % 2 = 0 THEN [r EXCEPT !.m = @ + 1] ELSE r
Narrowed(r)      == Right(r, Min({k \in Shifts : r.m \div (2 ^ k) < 2 ^ (MantBits + 3)}))
(* Below the least exponent more bits go. *)
Lowered(r)       == Right(r, Min({k \in Shifts : Sticky(r.m, k) <= 1 \/ r.e + k >= MinExp - 2}))

RoundsHalfUp(m) == m % 4 >= 2                                  (* mutant: ties go up *)
(* Up from above the half, and from the half to even. *)
RoundsUp(m)     == m % 4 = 3 \/ (m % 4 = 2 /\ (m \div 4) % 2 = 1)
Rounded(r)      == [m |-> (r.m \div 4) + (IF RoundsUp(r.m) THEN 1 ELSE 0), e |-> r.e + 2]
Renormed(r)     == IF r.m = 2 ^ (MantBits + 1) THEN [m |-> r.m \div 2, e |-> r.e + 1] ELSE r

Packed(r, negative) ==
  LET exp == IF r.m < 2 ^ MantBits THEN Bias ELSE r.e IN
  IF exp > MaxExp THEN {}
  ELSE {[float |-> "hex", negative |-> negative, exp |-> exp - Bias, mantissa |-> r.m % (2 ^ MantBits)]}

atof_hex(mantissa, exp, negative, trunc) ==
  Packed(Renormed(Rounded(Lowered(Narrowed(
    Stuck(Widened([m |-> mantissa, e |-> exp + MantBits]), trunc))))), negative)

(* Hex digits and p with an exponent, which must be there.  The digits a   *)
(* word has no room for are seen but not kept.                             *)
HexOf(negative, kept, spare, point, exps) ==
  UNION {atof_hex(InBase(kept, 16), IF kept = << >> THEN 0 ELSE 4 * (point - Len(kept)) + e, negative,
                  \E k \in DOMAIN spare : spare[k] # "0") : e \in exps}
HexFrom(negative, m, zeros) ==
  LET room == Len(m.digits) - zeros < WordDigits
      last == IF room THEN Len(m.digits) ELSE zeros + WordDigits
  IN HexOf(negative, SubSeq(m.digits, zeros + 1, last), SubSeq(m.digits, last + 1, Len(m.digits)),
           m.whole - zeros, Marked(m.rest, {"p", "P"}))
HexRead(negative, m) ==
  IF m.digits = << >> THEN {}
  ELSE HexFrom(negative, m, CHOOSE k \in 0 .. Len(m.digits) : /\ \A l \in 1 .. k : m.digits[l] = "0"
                                                              /\ CharAt(m.digits, k + 1) # "0")
parse_hex_f64(body, negative) == HexRead(negative, Mantissa(body, HexSet))

Magnitude_f64(body, magnitude) ==
  IF CharAt(magnitude, 1) = "0" /\ CharAt(magnitude, 2) \in {"x", "X"}
  THEN parse_hex_f64(SubSeq(magnitude, 3, Len(magnitude)), IsNegative(body))
  ELSE parse_decimal_f64(body)
Body_f64(body) == Magnitude_f64(body, Unsign(body))

parse_f64(text) ==
  IF IsSpecial(text) THEN parse_special(text)
  ELSE IF (\E p \in DOMAIN text : text[p] = "_") /\ ~ underscore_ok(text) THEN {}
  ELSE Body_f64(SelectSeq(text, LAMBDA c : c # "_"))

-----------------------------------------------------------------------------
(***************************************************************************)
(* format_f64 of the shortest digits and their exponent.                   *)
(***************************************************************************)
Zeros(n) == [k \in 1 .. n |-> "0"]

LeadZerosLong(digits, exp) == <<"0", ".">> \o Zeros(-exp) \o digits   (* mutant: 0.. for 1.. *)
LeadZeros(digits, exp)     == <<"0", ".">> \o Zeros(-exp - 1) \o digits

FormatDigits(digits, exp) ==
  IF exp < -4 \/ exp >= 6
  THEN <<digits[1]>> \o (IF Len(digits) > 1 THEN <<".">> \o Tail(digits) ELSE << >>)
         \o (IF exp < 0 THEN <<"e", "-">> \o Padded(-exp, IF exp > -100 THEN 2 ELSE 3)
                        ELSE <<"e", "+">> \o Padded(exp, IF exp < 100 THEN 2 ELSE 3))
  ELSE IF exp < 0 THEN LeadZeros(digits, exp)
  ELSE IF Len(digits) > exp + 1
       THEN SubSeq(digits, 1, exp + 1) \o <<".">> \o SubSeq(digits, exp + 2, Len(digits))
       ELSE digits \o Zeros(exp + 1 - Len(digits))

format_f64(f) ==
  (IF f.negative THEN <<"-">> ELSE << >>) \o FormatDigits(IF f.digits = << >> THEN <<"0">> ELSE f.digits, f.exp)

=============================================================================
