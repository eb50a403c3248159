----------------------------- MODULE MCTextParser -----------------------------
(* Every document over a small alphabet of lexemes; and what is written of *)
(* values with a character of every class, in every style and encoding.    *)
EXTENDS TextParserReference, TextRoundTrip

Key    == <<"C", "F", "$", "U", "I", "D">>
MCParseU64(text) == Num!parse_u64(text, 10)
MCIntMin         == -4
MCMinDecimal     == -7
MCWide   == [c \in {"e acute", "line separator", "fullwidth", "emoji", "replacement", "last"} |->
               CASE c = "e acute" -> 233 [] c = "line separator" -> 8232 [] c = "fullwidth" -> 65313
                 [] c = "emoji" -> 128512 [] c = "replacement" -> 65533 [] c = "last" -> 1114111]
MCBase64 == [bytes \in {<<1>>} |-> <<"A", "Q", "=", "=">>]

(* One string that is a key of a UID, one that is a number, an empty one,  *)
(* a literal of each dialect, and what does not scan.                      *)
Marks == {Mark(c) : c \in {"{", "}", "(", ")", ",", ";", "="}}
MCLexemes ==
  Marks \cup {Str(Key), Str(<<"1">>), Str(<< >>)}
  \cup {Literal("OpenStep", Data(<< >>)), Literal("GnuStep", Integer(3)), Bad, Unclosed}

MCTexts ==
  {<< >>, <<"a">>, <<"5">>, <<"a", "/", "/", "b">>, <<"/", "/", "a">>, <<"/", "*">>, <<"/">>, <<"a", ";", "b">>, <<" ">>,
   <<"a", "\"", "\\", "b">>, <<"BEL", "1">>, <<"\t", "\n", "\r", "VT">>, <<"NUL", "a">>, <<"e acute", "1">>,
   <<"line separator", "a">>, <<"fullwidth">>, <<"emoji", "a">>, <<"last">>, <<"e acute", "replacement">>, <<"-">>}
MCScalars ==
  {Integer(3), Integer(-2), Boolean(TRUE), Boolean(FALSE), Real(Num!Decimal(TRUE, <<"1", "5">>, 1), TRUE),
   Real(Num!Decimal(FALSE, <<"2">>, -4), FALSE), Data(<< >>), Data(<<1>>), Data(<<0, 9, 160, 255, 16>>), Uid(5),
   Date([day |-> 11323, sec |-> 3661, nano |-> 5])}
KeyOf(v)  == Dictionary(<<Entry(Key, v)>>)
MCTrees ==
  {Array(<<String(<< >>), Integer(3), String(<<"a">>)>>), Array(<<Array(<<Uid(3), Array(<< >>)>>)>>),
   Array(<<KeyOf(String(<<"5">>)), Integer(1), KeyOf(String(<<"5">>)), KeyOf(Integer(-1))>>),
   Array(<<KeyOf(Data(<<1>>)), Data(<<1>>), KeyOf(String(<<"5">>))>>), Array(<<Array(<<Array(<<Array(<< >>)>>)>>)>>),
   KeyOf(String(<<"a">>)), KeyOf(String(<<"9">>)), Dictionary(<< >>),
   Dictionary(<<Entry(<< >>, String(<<"a">>)), Entry(<<"a">>, Array(<<String(<<"b">>)>>)), Entry(Key, String(<<"5">>))>>),
   Dictionary(<<Entry(<<"b">>, KeyOf(String(<<"5">>))), Entry(<<"a">>, Boolean(TRUE)), Entry(<<"c">>, KeyOf(String(<<"5">>)))>>)}
  \cup {Dictionary(<<Entry(text, String(<<"a">>)), Entry(<<"b">>, String(text))>>) : text \in MCTexts}
MCValues == {String(text) : text \in MCTexts} \cup MCScalars \cup {KeyOf(v) : v \in MCScalars} \cup MCTrees

Style(gnustep, indented, raw, base64) == [gnustep |-> gnustep, indented |-> indented, raw |-> raw, base64 |-> base64]
(* The styles of this generator in UTF-8, and of others in the encodings.  *)
Own      == {Style(gnustep, indented, FALSE, FALSE) : gnustep, indented \in BOOLEAN}
Others   == {Style(TRUE, FALSE, TRUE, TRUE), Style(FALSE, TRUE, TRUE, FALSE)}
Encodings == {"utf8", "utf8 bom", "latin1", "utf16be", "utf16le", "be bom", "le bom"}
MCWritings ==
  [value : MCValues, style : Own, encoding : {"utf8"}, strings : {FALSE}]
  \cup {w \in [value : MCValues, style : Others, encoding : Encodings, strings : BOOLEAN] :
          /\ w.strings => w.value.type = "dictionary"
          /\ w.encoding = "latin1" => \A text \in Texts(w.value) : \A k \in DOMAIN text : text[k] \in DOMAIN MCWide => MCWide[text[k]] < 256}

=============================================================================
