----------------------------- MODULE TextGenerator -----------------------------
(***************************************************************************)
(* The text generator (src/src/text/generator.rs).  A document is a        *)
(* sequence of characters.  For TLC only.                                  *)
(*                                                                         *)
(* A style is what generate takes, a dialect and an indent, and two things *)
(* that other writers do: raw leaves the characters above U+007F as they   *)
(* are, and base64 writes GNUStep's other form of data.  What is left out: *)
(* the infinities and NaN.                                                 *)
(***************************************************************************)
EXTENDS TextTables, UidRewrite, Sequences, Integers
CONSTANTS IntMin, MaxDecimal, MinDecimal, MantBits, ExpBits, WordDigits   (* NumberText's *)
Num  == INSTANCE NumberText
Seqs == INSTANCE SequencesExt

(* width digits of a number *)
Based(n, base, width) ==
  [k \in 1 .. width |-> (Num!DigitChars \o Num!HexDigits)[((n \div (base ^ (width - k))) % base) + 1]]
Natural(n) == Based(n, 10, CHOOSE w \in 1 .. 10 : n < 10 ^ w /\ (w = 1 \/ n >= 10 ^ (w - 1)))
Number(n)  == IF n < 0 THEN <<"-">> \o Natural(-n) ELSE Natural(n)

(* The escapes that have a letter. *)
Symbolic == [c \in {"BEL", "BS", "VT", "FF", "\\", "\""} |->
               CASE c = "BEL" -> "a" [] c = "BS" -> "b" [] c = "VT" -> "v" [] c = "FF" -> "f" [] OTHER -> c]

(* Above U+FFFF an escape has five digits or six. *)
escape(c, raw) ==
  IF c \in DOMAIN Symbolic THEN <<"\\", Symbolic[c]>>
  ELSE IF Code[c] <= 127 \/ raw THEN <<c>>
  ELSE IF Code[c] <= 255 THEN <<"\\">> \o Based(Code[c], 8, 3)
  ELSE <<"\\", "U">> \o Based(Code[c], 16, IF Code[c] < 16 ^ 4 THEN 4 ELSE IF Code[c] < 16 ^ 5 THEN 5 ELSE 6)

quotable(style) == IF style.gnustep THEN GS_QUOTABLE ELSE OS_QUOTABLE

needs_quotes(text, style) ==
  text = << >> \/ \E k \in DOMAIN text : text[k] \in quotable(style) \/ Code[text[k]] > 127

quote_string(text, style) ==
  IF needs_quotes(text, style)
  THEN <<"\"">> \o Seqs!FlattenSeq([k \in DOMAIN text |-> escape(text[k], style.raw)]) \o <<"\"">>
  ELSE text

(* GNUStep's typed scalars; to OpenStep they are strings. *)
typed(letter, text, style) == IF style.gnustep THEN <<"<", "*", letter>> \o text \o <<">">> ELSE text

write_boolean(truth, style) ==
  IF style.gnustep THEN typed("B", <<IF truth THEN "Y" ELSE "N">>, style) ELSE <<IF truth THEN "1" ELSE "0">>

write_date(date, style) ==
  IF style.gnustep THEN typed("D", Num!format_text_layout(date), style)
  ELSE quote_string(Num!format_text_layout(date), style)

(* A space after every fourth byte but the last. *)
write_data(bytes, style) ==
  IF style.base64 /\ bytes \in DOMAIN Base64 THEN <<"<", "[">> \o Base64[bytes] \o <<"]", ">">>
  ELSE <<"<">> \o Seqs!FlattenSeq([k \in DOMAIN bytes |->
                    Based(bytes[k], 16, 2) \o IF k % 4 = 0 /\ k < Len(bytes) THEN <<" ">> ELSE << >>])
         \o <<">">>

(* One tab a level. *)
write_indent(style, depth) ==
  IF style.indented THEN <<"\n">> \o [k \in 1 .. depth |-> "\t"] ELSE << >>
kv_delimiter(style) == IF style.indented THEN <<" ", "=", " ">> ELSE <<"=">>

RECURSIVE write_value(_, _, _)
RECURSIVE write_entries(_, _, _)
write_entries(entries, style, depth) ==
  Seqs!FlattenSeq([k \in DOMAIN entries |->
    write_indent(style, depth) \o quote_string(entries[k].key, style) \o kv_delimiter(style)
      \o write_value(entries[k].value, style, depth) \o <<";">>])

write_value(v, style, depth) ==
  CASE v.type = "dictionary" ->
         <<"{">> \o write_entries(v.entries, style, depth + 1) \o write_indent(style, depth) \o <<"}">>
    [] v.type = "array" ->
         <<"(">> \o Seqs!FlattenSeq([k \in DOMAIN v.items |->
                      write_indent(style, depth + 1) \o write_value(v.items[k], style, depth + 1) \o <<",">>])
           \o write_indent(style, depth) \o <<")">>
    [] v.type = "string"  -> quote_string(v.text, style)
    [] v.type = "integer" -> typed("I", Number(v.number), style)
    [] v.type = "real"    -> typed("R", Num!format_f64(v.real), style)
    [] v.type = "boolean" -> write_boolean(v.truth, style)
    [] v.type = "data"    -> write_data(v.bytes, style)
    [] v.type = "date"    -> write_date(v.instant, style)
    [] v.type = "uid"     -> write_value(Dictionary(<<Entry(UidKey, Integer(v.bits))>>), style, depth)

generate(v, style) == write_value(v, style, 0)

(* A .strings file: the entries of a dictionary without its braces. *)
generate_strings(v, style) == write_entries(v.entries, style, 0)

=============================================================================
