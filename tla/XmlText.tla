-------------------------------- MODULE XmlText --------------------------------
(***************************************************************************)
(* What the XML parser checks and makes of each event of quick-xml, and    *)
(* the bodies of the leaves (src/src/xml/parser.rs below the walker); the  *)
(* XML generator (src/src/xml/generator.rs), down to the events that       *)
(* quick-xml makes of what it writes, and a tool that writes the same      *)
(* values in XML's other ways.  For TLC only.                              *)
(*                                                                         *)
(* A text is a sequence of characters, and a reader returns a set, {} when *)
(* it refuses.  What is left out: bytes that are not UTF-8.                *)
(***************************************************************************)
EXTENDS XmlParser, TextTables
CONSTANTS IntMin, MaxDecimal, MinDecimal, MantBits, ExpBits, WordDigits   (* NumberText's *)
LOCAL INSTANCE SequencesExt
LOCAL INSTANCE FiniteSetsExt
Num == INSTANCE NumberText

(* The events.  A declaration has a version and an encoding, {} if absent. *)
StartTag(name, attributes) == [event |-> "Start", name |-> name, attributes |-> attributes]
EmptyTag(name, attributes) == [event |-> "Empty", name |-> name, attributes |-> attributes]
Chunk(text, cdata)         == [event |-> "Text", text |-> text, cdata |-> cdata]
GeneralRef(name)           == [event |-> "Ref", name |-> name]
Decl(version, encoding)    == [event |-> "Decl", version |-> version, encoding |-> encoding]
EndTag    == [event |-> "End"]
Comment   == [event |-> "Comment"]
Malformed == [event |-> "Malformed"]

in_character_range(c) ==
  \/ Code[c] \in {9, 10, 13} \/ Code[c] \in 32 .. 55295
  \/ Code[c] \in 57344 .. 65533 \/ Code[c] \in 65536 .. 1114111
validate_character_range(text) == \A k \in DOMAIN text : in_character_range(text[k])

(* \r\n and \r are \n. *)
Normalized(text) ==
  FlattenSeq([k \in DOMAIN text |->
    IF text[k] = "\r" THEN <<"\n">>
    ELSE IF text[k] = "\n" /\ k > 1 /\ text[k - 1] = "\r" THEN << >> ELSE <<text[k]>>])
ClosesCdata(text) == \E k \in 1 .. Len(text) - 2 : SubSeq(text, k, k + 2) = <<"]", "]", ">">>
text_chunk(text, cdata) ==
  IF (~ cdata /\ ClosesCdata(text)) \/ ~ validate_character_range(text) THEN {} ELSE {Normalized(text)}

(* A u64, of which only what is no more than 10FFFF is kept. *)
Predefined == [name \in {<<"l", "t">>, <<"g", "t">>, <<"a", "m", "p">>, <<"a", "p", "o", "s">>, <<"q", "u", "o", "t">>} |->
  CASE name[1] = "l" -> "<" [] name[1] = "g" -> ">" [] name[1] = "q" -> "\"" [] Len(name) = 4 /\ name[1] = "a" -> "'"
    [] OTHER -> "&"]
CodeOf(digits, base) ==
  IF Num!OnlyOf(digits, Num!DigitsOf(base)) THEN {n \in {Num!InBase(digits, base)} : n <= 1114111} ELSE {}
NumericReference(numeric) ==
  IF IsPrefix(<<"x">>, numeric) THEN CodeOf(Tail(numeric), 16) ELSE CodeOf(numeric, 10)
resolve_reference(name) ==
  {c \in IF name \in DOMAIN Predefined THEN {Predefined[name]}
         ELSE IF ~ IsPrefix(<<"#">>, name) THEN {}
         ELSE {CharOf(IF n \in 55296 .. 57343 THEN 65533 ELSE n) : n \in NumericReference(Tail(name))}
     : in_character_range(c)}

RECURSIVE validate_attribute_value(_)
validate_attribute_value(text) ==
  LET at(from, c) == Min({k \in from .. Len(text) : text[k] = c} \cup {Len(text) + 1})
      amp         == at(1, "&")
      semicolon   == at(amp + 1, ";")
  IN IF amp > Len(text) THEN validate_character_range(text)
     ELSE /\ validate_character_range(SubSeq(text, 1, amp - 1))
          /\ semicolon <= Len(text)
          /\ resolve_reference(SubSeq(text, amp + 1, semicolon - 1)) # {}
          /\ validate_attribute_value(SubSeq(text, semicolon + 1, Len(text)))
validate_attributes(attributes) == \A text \in attributes : validate_attribute_value(text)

(* Whatever the case of the encoding. *)
validate_declaration(d) == d.version \subseteq {"1.0"} /\ d.encoding \subseteq {"utf-8", "UTF-8", "Utf-8"}

(* next of an event. *)
token(e) ==
  LET checked(ok, t)  == IF ok THEN t ELSE Bad
      texts(set)      == IF set = {} THEN Bad ELSE Text(CHOOSE text \in set : TRUE)
      characters(set) == texts({<<c>> : c \in set}) IN
  CASE e.event = "Start"     -> checked(validate_attributes(e.attributes), Start(e.name))
    [] e.event = "Empty"     -> checked(validate_attributes(e.attributes), Empty(e.name))
    [] e.event = "End"       -> End
    [] e.event = "Text"      -> texts(text_chunk(e.text, e.cdata))
    [] e.event = "Ref"       -> characters(resolve_reference(e.name))
    [] e.event = "Decl"      -> checked(validate_declaration(e), Markup)
    [] e.event = "Comment"   -> Markup
    [] e.event = "Malformed" -> Bad

-----------------------------------------------------------------------------
(***************************************************************************)
(* The leaves.                                                             *)
(***************************************************************************)
unsigned_get_base(s) ==
  IF IsPrefix(<<"0", "x">>, s) \/ IsPrefix(<<"0", "X">>, s) THEN [digits |-> SubSeq(s, 3, Len(s)), base |-> 16]
  ELSE [digits |-> s, base |-> 10]
parse_integer(body) ==
  IF body = << >> THEN {}
  ELSE IF body[1] = "-"
  THEN LET s == unsigned_get_base(Tail(body)) IN Num!parse_i64(<<"-">> \o s.digits, s.base)
  ELSE LET s == unsigned_get_base(body) IN Num!parse_u64(s.digits, s.base)

(* open_step's arms; base64 (external) is a table. *)
decoded(name, body) ==
  CASE name = "string"  -> {String(body)}
    [] name = "integer" -> {Integer(n) : n \in parse_integer(body)}
    [] name = "real"    -> {Real(f, TRUE) : f \in Num!parse_f64(body)}
    [] name = "date"    -> {Date(d) : d \in Num!parse_rfc3339(body)}
    [] name = "data"    ->
         LET compact == SelectSeq(body, LAMBDA c : c \notin {"\t", "\n", " ", "\r"}) IN
         {Data(bytes) : bytes \in {b \in DOMAIN Base64 : Base64[b] = compact}}

-----------------------------------------------------------------------------
(***************************************************************************)
(* The generator.  A style is who writes (own), and whether it indents; of *)
(* the tool, how it writes characters (body), and its declaration and an   *)
(* attribute.  What is left out: how far a line is indented.               *)
(***************************************************************************)
Replacement == CharOf(65533)

(* The characters that are written as references. *)
Escapes == [c \in {"\"", "'", "&", "<", ">", "\t", "\n", "\r"} |->
  CASE c = "\"" -> <<"#", "3", "4">> [] c = "'" -> <<"#", "3", "9">> [] c = "&" -> <<"a", "m", "p">>
    [] c = "<" -> <<"l", "t">> [] c = ">" -> <<"g", "t">> [] c = "\t" -> <<"#", "x", "9">>
    [] c = "\n" -> <<"#", "x", "A">> [] c = "\r" -> <<"#", "x", "D">>]

(* A character that is written as it is may be markup (external). *)
raw(c) == IF c \in {"<", "&"} THEN Malformed ELSE Chunk(<<c>>, FALSE)

escaped(c, escapes) ==
  IF c \in escapes THEN GeneralRef(Escapes[c])
  ELSE IF ~ in_character_range(c) THEN Chunk(<<Replacement>>, FALSE) ELSE raw(c)

write_escaped_markup(body) ==   (* mutant: the white space is not escaped *)
  [k \in DOMAIN body |-> escaped(body[k], {"\"", "'", "&", "<", ">"})]

write_escaped(body) == [k \in DOMAIN body |-> escaped(body[k], DOMAIN Escapes)]

(* The tool's: a reference for each character, or all in one piece. *)
write_body(body, style) ==
  CASE style.own             -> write_escaped(body)
    [] style.body = "coded"  -> [k \in DOMAIN body |-> GeneralRef(<<"#">> \o Num!Padded(Code[body[k]], 7))]
    [] style.body = "cdata"  -> <<Chunk(body, TRUE)>>
    [] style.body = "plain"  ->
         IF \E k \in DOMAIN body : body[k] \in {"<", "&"} THEN <<Malformed>> ELSE <<Chunk(body, FALSE)>>

(* write_indent: with an indent, every tag but the first starts a line. *)
write_indent(style) == IF style.indented THEN <<Chunk(<<"\n">>, FALSE)>> ELSE << >>

open_tag(name, style)  == write_indent(style) \o <<StartTag(name, {})>>
close_tag(name, style) == write_indent(style) \o <<EndTag>>

(* The tool writes nothing in short form, and a comment before an end. *)
element(name, body, style) ==
  write_indent(style) \o
  IF body = << >> /\ style.own THEN <<EmptyTag(name, {})>>
  ELSE <<StartTag(name, {})>> \o write_body(body, style) \o (IF style.own THEN << >> ELSE <<Comment>>) \o <<EndTag>>

(* Decimal digits; the tool's are hexadecimal, and one. *)
Number(n, style) ==
  (IF n < 0 THEN <<"-">> ELSE << >>) \o (IF style.own THEN << >> ELSE <<"0", "X">>)
  \o Num!Padded(IF n < 0 THEN -n ELSE n, 1)

format_xml_float(f) ==
  IF f.float = "special"
  THEN (IF f.negative THEN <<"-">> ELSE << >>) \o IF f.name = "nan" THEN <<"n", "a", "n">> ELSE <<"i", "n", "f">>
  ELSE Num!format_f64(f)

(* The tool breaks lines around data, and fills a boolean with what is skipped. *)
Encoded(bytes, style) ==
  IF style.own THEN Base64[bytes] ELSE <<"\n", "\t">> \o Base64[bytes] \o <<"\r", " ">>
boolean(name, style) ==
  IF style.own THEN element(name, << >>, style)
  ELSE <<StartTag(name, {}), StartTag("true", {}), EmptyTag("a", {}), EndTag, Chunk(<<"a">>, FALSE), EndTag>>

RECURSIVE write_value(_, _)
write_value(v, style) ==
  CASE v.type = "dictionary" ->
         open_tag("dict", style)
         \o FlattenSeq([k \in DOMAIN v.entries |->
              element("key", v.entries[k].key, style) \o write_value(v.entries[k].value, style)])
         \o close_tag("dict", style)
    [] v.type = "array" ->
         open_tag("array", style) \o FlattenSeq([k \in DOMAIN v.items |-> write_value(v.items[k], style)])
         \o close_tag("array", style)
    [] v.type = "string"  -> element("string", v.text, style)
    [] v.type = "integer" -> element("integer", Number(v.number, style), style)
    [] v.type = "real"    -> element("real", format_xml_float(v.real), style)
    [] v.type = "boolean" -> boolean(IF v.truth THEN "true" ELSE "false", style)
    [] v.type = "data"    -> element("data", Encoded(v.bytes, style), style)
    [] v.type = "date"    -> element("date", Num!format_rfc3339(v.instant), style)
    [] v.type = "uid"     ->
         open_tag("dict", style) \o element("key", UidKey, style)
         \o element("integer", Number(v.bits, style), style) \o close_tag("dict", style)

HEADER == <<Decl({"1.0"}, {"UTF-8"}), Chunk(<<"\n">>, FALSE), Comment, Chunk(<<"\n">>, FALSE)>>

generate(v, style) ==
  IF style.own
  THEN HEADER \o <<StartTag("plist", {<<"1", ".", "0">>})>>
       \o write_value(v, style) \o close_tag("plist", style)
  ELSE <<style.declaration, StartTag("plist", {style.attribute})>> \o write_value(v, style) \o <<EndTag>>

=============================================================================
