----------------------------- MODULE MCXmlParser -----------------------------
(* Every document over small alphabets of tokens; and what is written of   *)
(* values with a character of every class, in every style.                 *)
EXTENDS XmlParserReference, XmlRoundTrip

Key == <<"C", "F", "$", "U", "I", "D">>
MCParseU64(text) == Num!parse_u64(text, 10)
MCIntMin         == -4
MCMinDecimal     == -7
MCWide   == [c \in {"e acute", "emoji", "replacement", "private", "not a character", "last"} |->
               CASE c = "e acute" -> 233 [] c = "private" -> 57344 [] c = "emoji" -> 128512
                 [] c = "replacement" -> 65533 [] c = "not a character" -> 65534 [] c = "last" -> 1114111]
MCBase64 == [bytes \in {<< >>, <<1>>} |-> IF bytes = << >> THEN << >> ELSE <<"A", "Q", "=", "=">>]

(* The shapes: containers, a leaf, a boolean, a key, an unknown element.   *)
MCTokens ==
  {Start(name) : name \in {"plist", "dict", "array", "key", "integer", "true"}}
  \cup {Empty(name) : name \in {"plist", "array", "string", "key", "other"}}
  \cup {End, Text(<<"1">>)}

(* Nesting, and what is skipped. *)
MCNesting == {Start("plist"), Start("array"), Start("key"), Start("true"), Empty("array"), End}

MCTexts ==
  {<< >>, <<"a">>, <<"<", "&", ">", "\"", "'">>, <<"\r", "\n">>, <<"\n", "a", "\r">>, <<"\t", " ">>, <<"]", "]", ">">>,
   <<"NUL">>, <<"BEL", "a">>, <<"e acute", "emoji", "last">>, <<"not a character">>, <<"private">>, <<"&", "a">>}
MCLeaves ==
  {Integer(3), Integer(-2), Boolean(TRUE), Boolean(FALSE), Data(<< >>), Data(<<1>>), Uid(5),
   Real(Num!Decimal(TRUE, <<"1", "5">>, 1), TRUE), Real(Num!Special("inf", TRUE), TRUE), Real(Num!Special("nan", FALSE), FALSE),
   Date([day |-> 11323, sec |-> 3661, nano |-> 5])}
KeyOf(v) == Dictionary(<<Entry(Key, v)>>)
MCTrees ==
  {Array(<<String(<< >>), Integer(3), Boolean(TRUE), String(<<"a">>)>>), Array(<<Array(<<Integer(1), Array(<< >>)>>)>>),
   Array(<<Uid(3), Boolean(FALSE)>>), Array(<<Array(<<Uid(3)>>)>>), Array(<<Array(<<Array(<<Array(<< >>)>>)>>)>>),
   KeyOf(String(<<"5">>)), Dictionary(<< >>), Array(<<KeyOf(Integer(-1))>>),
   Dictionary(<<Entry(<<"NUL">>, Integer(1)), Entry(<<"BEL">>, Boolean(TRUE)), Entry(Key, Integer(5))>>)}
  \cup {Dictionary(<<Entry(text, String(<<"a">>)), Entry(<<"b">>, String(text))>>) : text \in MCTexts}
MCValues == {String(text) : text \in MCTexts} \cup MCLeaves \cup {KeyOf(v) : v \in MCLeaves} \cup MCTrees

Style(own, indented, body, declaration, attribute) ==
  [own |-> own, indented |-> indented, body |-> body, declaration |-> declaration, attribute |-> attribute]
Declarations == {Decl({"1.0"}, {}), Decl({}, {"utf-8"}), Decl({"1.1"}, {}), Decl({"1.0"}, {"latin-1"})}
Attributes   == {<<"1">>, <<"&", "l", "t", ";", "&", "#", "x", "D", "8", "0", "0", ";">>, <<"&", "a">>, <<"&", "a", ";">>,
                 <<"&", "#", "X", "4", "1", ";">>, <<"&", "#", "1", "1", "1", "4", "1", "1", "2", ";">>, <<"NUL">>}
MCWritings ==
  [value : MCValues, style : {Style(TRUE, indented, "coded", Comment, << >>) : indented \in BOOLEAN}
                             \cup {Style(FALSE, TRUE, body, Decl({}, {"utf-8"}), <<"1">>) : body \in {"coded", "cdata", "plain"}}]
  \cup [value : {Integer(3)}, style : {Style(FALSE, FALSE, "plain", d, a) : d \in Declarations, a \in Attributes}]

=============================================================================
