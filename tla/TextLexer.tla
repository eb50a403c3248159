------------------------------- MODULE TextLexer -------------------------------
(***************************************************************************)
(* From the bytes of a text document to its lexemes: the encoding that     *)
(* src/src/text/parser.rs guesses, and the scanning below its walker.  A   *)
(* lexeme is the same wherever it stands, so that the walker's scanning as *)
(* it goes is the same as scanning everything before.  For TLC only.       *)
(*                                                                         *)
(* A scan is from a position of the document and returns a lexeme and the  *)
(* position behind it.                                                     *)
(***************************************************************************)
EXTENDS TextParser, TextGenerator
LOCAL INSTANCE FiniteSetsExt
LOCAL INSTANCE SequencesExt

Scanned(lexeme, next) == [lexeme |-> lexeme, next |-> next]
CharAt(doc, p)        == IF p \in DOMAIN doc THEN doc[p] ELSE "end"
(* Where the next character of a set is, or the next that is in none: the  *)
(* end of the document if there is none. *)
scan_until(doc, p, set) == Min({q \in p .. Len(doc) : doc[q] \in set} \cup {Len(doc) + 1})
scan_past(doc, p, set)  == Min({q \in p .. Len(doc) : doc[q] \notin set} \cup {Len(doc) + 1})

-----------------------------------------------------------------------------
(***************************************************************************)
(* guess_encoding_and_convert: a byte order mark, else a zero among the    *)
(* first two bytes, else eight bits.                                       *)
(***************************************************************************)
utf8_code(bytes, p, n) ==
  FoldLeft(LAMBDA code, b : 64 * code + (b % 64), bytes[p] % (IF n = 1 THEN 128 ELSE 2 ^ (7 - n)),
           SubSeq(bytes, p + 1, p + n - 1))

(* The length of the UTF-8 sequence at p, 0 when there is none: the        *)
(* shortest form of a code that is no surrogate's.                         *)
utf8_length(bytes, p) ==
  LET codes(n) ==
        IF p + n > Len(bytes) + 1 \/ \E q \in p + 1 .. p + n - 1 : bytes[q] \notin 128 .. 191 THEN {}
        ELSE {utf8_code(bytes, p, n)}
  IN
  CASE bytes[p] < 128                                                                    -> 1
    [] bytes[p] \in 192 .. 223 /\ codes(2) \cap 128 .. 2047 # {}                         -> 2
    [] bytes[p] \in 224 .. 239 /\ codes(3) \cap ((2048 .. 55295) \cup (57344 .. 65535)) # {} -> 3
    [] bytes[p] \in 240 .. 247 /\ codes(4) \cap 65536 .. 1114111 # {}                    -> 4
    [] OTHER                                                                             -> 0

(* A byte that is not part of a sequence is its Latin-1 character. *)
RECURSIVE decode_8bit(_, _)
decode_8bit(bytes, p) ==
  IF p > Len(bytes) THEN << >>
  ELSE LET n == utf8_length(bytes, p) IN
       <<CharOf(IF n = 0 THEN bytes[p] ELSE utf8_code(bytes, p, n))>> \o decode_8bit(bytes, p + Max({n, 1}))

(* Pairs of surrogates are joined; one alone is U+FFFD. *)
RECURSIVE decode_utf16(_, _)
decode_utf16(units, k) ==
  IF k > Len(units) THEN << >>
  ELSE IF units[k] \in 55296 .. 56319 /\ k < Len(units) /\ units[k + 1] \in 56320 .. 57343
  THEN <<CharOf(65536 + 1024 * (units[k] - 55296) + units[k + 1] - 56320)>> \o decode_utf16(units, k + 2)
  ELSE <<CharOf(IF units[k] \in 55296 .. 57343 THEN 65533 ELSE units[k])>> \o decode_utf16(units, k + 1)

convert_u16(bytes, big) ==
  IF Len(bytes) % 2 = 1 THEN {}
  ELSE {decode_utf16([k \in 1 .. Len(bytes) \div 2 |->
          IF big THEN 256 * bytes[2 * k - 1] + bytes[2 * k] ELSE 256 * bytes[2 * k] + bytes[2 * k - 1]], 1)}

guess_encoding_and_convert(bytes) ==
  LET starts(mark) == Len(bytes) >= Len(mark) /\ SubSeq(bytes, 1, Len(mark)) = mark
      from(p)      == SubSeq(bytes, p, Len(bytes)) IN
  IF starts(<<239, 187, 191>>) THEN {decode_8bit(from(4), 1)}
  ELSE IF Len(bytes) < 2 THEN {decode_8bit(bytes, 1)}
  ELSE IF starts(<<254, 255>>) THEN convert_u16(from(3), TRUE)
  ELSE IF bytes[1] = 0 /\ bytes[2] # 0 THEN convert_u16(bytes, TRUE)
  ELSE IF starts(<<255, 254>>) THEN convert_u16(from(3), FALSE)
  ELSE IF bytes[1] # 0 /\ bytes[2] = 0 THEN convert_u16(bytes, FALSE)
  ELSE {decode_8bit(bytes, 1)}

-----------------------------------------------------------------------------
(***************************************************************************)
(* Whitespace and comments; {} when a block comment does not end.  The     *)
(* star that opens one may be the one that closes it.                      *)
(***************************************************************************)
RECURSIVE skip_from(_, _)
skip_from(doc, p) ==
  IF CharAt(doc, p) = "/" /\ CharAt(doc, p + 1) = "/"
  THEN skip_from(doc, scan_past(doc, scan_until(doc, p, NEWLINE), WHITESPACE))
  ELSE IF CharAt(doc, p) = "/" /\ CharAt(doc, p + 1) = "*"
  THEN LET ends == {q \in p .. Len(doc) : doc[q] = "*" /\ CharAt(doc, q + 1) = "/"} IN
       IF ends = {} THEN {} ELSE skip_from(doc, scan_past(doc, Min(ends) + 2, WHITESPACE))
  ELSE {p}
skip_whitespace_and_comments(doc, p) == skip_from(doc, scan_past(doc, p, WHITESPACE))

-----------------------------------------------------------------------------
(***************************************************************************)
(* Strings.                                                                *)
(***************************************************************************)
escape_char(code) == CharOf(IF code \in 55296 .. 57343 THEN 65533 ELSE code)

(* At most max digits, then what is not one is content again. *)
DigitsEndGreedy(doc, p, max, digits) == scan_past(doc, p, digits)   (* mutant: any number of them *)
DigitsEnd(doc, p, max, digits)       == Min({scan_past(doc, p, digits), p + max})
parse_digits(doc, p, max, base) ==
  LET end == DigitsEnd(doc, p, max, {c \in Num!HexSet : Num!HexValue[c] < base})
  IN [text |-> <<escape_char(Num!InBase(SubSeq(doc, p, end - 1), base))>>, next |-> end]

Letters == [c \in {"a", "b", "v", "f", "t", "r", "n", "\\", "\""} |->
  CASE c = "a" -> "BEL" [] c = "b" -> "BS" [] c = "v" -> "VT" [] c = "f" -> "FF" [] c = "t" -> "\t"
    [] c = "r" -> "\r" [] c = "n" -> "\n" [] OTHER -> c]

(* Behind the backslash, which an escape that is none drops. *)
parse_escape(doc, p) ==
  LET c == CharAt(doc, p) IN
  CASE c \in DOMAIN Letters                             -> [text |-> <<Letters[c]>>, next |-> p + 1]
    [] c = "x"                                          -> parse_digits(doc, p + 1, 2, 16)
    [] c \in {"u", "U"}                                 -> parse_digits(doc, p + 1, 4, 16)
    [] c \in {"0", "1", "2", "3", "4", "5", "6", "7"}   -> parse_digits(doc, p, 3, 8)
    [] OTHER                                            -> [text |-> << >>, next |-> p]

(* The sections between escapes are built up. *)
RECURSIVE parse_quoted_string(_, _, _)
RECURSIVE section_end(_, _, _, _)
parse_quoted_string(doc, p, built) ==
  section_end(doc, p, scan_until(doc, p, {"\"", "\\"}), built)
section_end(doc, p, q, built) ==
  IF q > Len(doc) THEN Scanned(Bad, q)
  ELSE LET section == built \o SubSeq(doc, p, q - 1) IN
       IF doc[q] = "\"" THEN Scanned(Str(section), q + 1)
       ELSE LET e == parse_escape(doc, q + 1) IN
            parse_quoted_string(doc, e.next, section \o e.text)

parse_unquoted_string(doc, p) ==
  LET q == scan_until(doc, p, GS_QUOTABLE) IN
  Scanned(IF q = p THEN Bad ELSE Str(SubSeq(doc, p, q - 1)), q)

-----------------------------------------------------------------------------
(***************************************************************************)
(* What is in angle brackets.                                              *)
(***************************************************************************)
LiteralOf(dialect, values) == IF values = {} THEN Bad ELSE Literal(dialect, CHOOSE v \in values : TRUE)

gnustep_typed(letter, text) ==
  CASE letter = "I" /\ CharAt(text, 1) = "-" -> {Integer(n) : n \in Num!parse_i64(text, 10)}
    [] letter = "I" /\ CharAt(text, 1) # "-" -> {Integer(n) : n \in Num!parse_u64(text, 10)}
    [] letter = "R" -> {Real(f, TRUE) : f \in Num!parse_f64(text)}
    [] letter = "B" -> IF text = << >> THEN {} ELSE {Boolean(text[1] = "Y")}
    [] letter = "D" -> {Date(d) : d \in Num!parse_text_layout(text)}
    [] OTHER        -> {}

(* A letter, and a payload that may be quoted, badly. *)
parse_gnustep_value(doc, p) ==
  LET first == IF CharAt(doc, p + 1) = "\"" THEN p + 2 ELSE p + 1
      close == scan_until(doc, first, {">"})
      last  == IF CharAt(doc, close - 1) = "\"" THEN close - 2 ELSE close - 1
  IN Scanned(IF close > Len(doc) \/ close = first THEN Bad
             ELSE LiteralOf("GnuStep", gnustep_typed(CharAt(doc, p), SubSeq(doc, first, last))), close + 1)

parse_gnustep_base64(doc, p) ==
  LET close == scan_until(doc, p, {"]"})
      kept  == SelectSeq(SubSeq(doc, p, close - 1), LAMBDA c : c \in BASE64_VALID)
  IN Scanned(IF CharAt(doc, close + 1) # ">" THEN Bad
             ELSE LiteralOf("GnuStep", {Data(bytes) : bytes \in {b \in DOMAIN Base64 : Base64[b] = kept}}), close + 2)

(* Not the table's whitespace. *)
Splitting == {c \in Chars : Code[c] \in {9, 10, 13, 32, 8232, 8233}}
parse_hex_data(doc, p) ==
  LET close  == scan_until(doc, p, {">"})
      digits == SelectSeq(SubSeq(doc, p, close - 1), LAMBDA c : c \notin Splitting)
  IN Scanned(IF close > Len(doc) \/ Len(digits) % 2 = 1 \/ \E k \in DOMAIN digits : digits[k] \notin Num!HexSet THEN Bad
             ELSE Literal("OpenStep", Data([k \in 1 .. Len(digits) \div 2 |->
                    Num!InBase(SubSeq(digits, 2 * k - 1, 2 * k), 16)])), close + 1)

-----------------------------------------------------------------------------
(* What open_step and advance_step find at a position. *)
scan(doc, p) ==
  LET c == CharAt(doc, p) IN
  CASE c \in {"{", "}", "(", ")", ",", ";", "="} -> Scanned(Mark(c), p + 1)
    [] c = "\"" -> parse_quoted_string(doc, p + 1, << >>)
    [] c = "<"  -> IF CharAt(doc, p + 1) = "*" THEN parse_gnustep_value(doc, p + 2)
                   ELSE IF CharAt(doc, p + 1) = "[" THEN parse_gnustep_base64(doc, p + 2)
                   ELSE parse_hex_data(doc, p + 1)
    [] OTHER    -> parse_unquoted_string(doc, p)

(* The lexemes; nothing is read behind what does not scan. *)
RECURSIVE LexemesFrom(_, _)
RECURSIVE LexemesAt(_, _)
LexemesFrom(doc, p) ==
  LET places == skip_whitespace_and_comments(doc, p) IN
  IF places = {} THEN <<Unclosed>> ELSE LexemesAt(doc, CHOOSE q \in places : TRUE)
LexemesAt(doc, q) ==
  IF q > Len(doc) THEN << >>
  ELSE LET s == scan(doc, q) IN
       <<s.lexeme>> \o IF s.lexeme = Bad THEN << >> ELSE LexemesFrom(doc, s.next)

=============================================================================
