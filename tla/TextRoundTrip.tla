----------------------------- MODULE TextRoundTrip -----------------------------
(***************************************************************************)
(* The text parser reading any document of a few lexemes, or the one that  *)
(* a writer made of a value, whole or cut off, in any encoding.  For TLC   *)
(* only.                                                                   *)
(***************************************************************************)
EXTENDS TextLexer

CONSTANT Writings   (* what is written: [value, style, encoding, strings] *)

VARIABLES
  writing,    (* what was written: a set, {} for any document *)
  document    (* the lexemes of its document *)

(* An editor that saves a document in an encoding. *)
utf8(n) ==
  IF n < 128 THEN <<n>>
  ELSE IF n < 2048 THEN <<192 + (n \div 64), 128 + (n % 64)>>
  ELSE IF n < 65536 THEN <<224 + (n \div 4096), 128 + ((n \div 64) % 64), 128 + (n % 64)>>
  ELSE <<240 + (n \div 262144), 128 + ((n \div 4096) % 64), 128 + ((n \div 64) % 64), 128 + (n % 64)>>
utf16(n, big) ==
  LET bytes(unit) == IF big THEN <<unit \div 256, unit % 256>> ELSE <<unit % 256, unit \div 256>> IN
  IF n < 65536 THEN bytes(n)
  ELSE bytes(55296 + ((n - 65536) \div 1024)) \o bytes(56320 + (n % 1024))
Saved(doc, encoding) ==
  LET each(bytes(_)) == Seqs!FlattenSeq([k \in DOMAIN doc |-> bytes(Code[doc[k]])])
      big(n)         == utf16(n, TRUE)
      little(n)      == utf16(n, FALSE)
      one(n)         == <<n>> IN
  CASE encoding = "utf8"       -> each(utf8)
    [] encoding = "utf8 bom"   -> <<239, 187, 191>> \o each(utf8)
    [] encoding = "latin1"     -> each(one)
    [] encoding = "utf16be"    -> each(big)
    [] encoding = "utf16le"    -> each(little)
    [] encoding = "be bom"     -> <<254, 255>> \o each(big)
    [] encoding = "le bom"     -> <<255, 254>> \o each(little)

Written(w) == IF w.strings THEN generate_strings(w.value, w.style) ELSE generate(w.value, w.style)

RoundTripInit ==
  /\ Init
  /\ \/ writing = {} /\ document = << >>
     \/ \E w \in Writings : \E text \in guess_encoding_and_convert(Saved(Written(w), w.encoding)) :
          writing = {w} /\ document = LexemesFrom(text, 1)

(* A document that was written may end anywhere. *)
ReadAny     == writing = {} /\ Next /\ UNCHANGED <<writing, document>>
ReadWritten ==
  /\ writing # {}
  /\ NextOn({Eof} \cup {document[k] : k \in DOMAIN document \cap {Len(input) + 1}})
  /\ UNCHANGED <<writing, document>>

RoundTripNext == ReadAny \/ ReadWritten

RoundTripSpec == RoundTripInit /\ [][RoundTripNext]_<<vars, writing, document>> /\ WF_vars(RoundTripNext)

-----------------------------------------------------------------------------
(***************************************************************************)
(* What survives.                                                          *)
(***************************************************************************)
(* A value that is written as one of GNUStep's literals. *)
IsTyped(v, style) ==
  style.gnustep /\ (v.type \in {"integer", "real", "boolean", "date", "uid"}
                    \/ (v.type = "data" /\ style.base64 /\ v.bytes \in DOMAIN Base64))
RECURSIVE Emits(_, _)
Emits(v, style) ==
  \/ IsTyped(v, style)
  \/ v.type = "array" /\ \E k \in DOMAIN v.items : Emits(v.items[k], style)
  \/ v.type = "dictionary" /\ \E k \in DOMAIN v.entries : Emits(v.entries[k].value, style)

(* OpenStep's scalars come back as strings. *)
Lowered(v, style) ==
  CASE v.type = "date" /\ style.gnustep     -> Date([v.instant EXCEPT !.nano = 0])
    [] v.type = "real" /\ style.gnustep     -> Real(v.real, TRUE)
    [] v.type = "integer" /\ ~style.gnustep -> String(Number(v.number))
    [] v.type = "boolean" /\ ~style.gnustep -> String(<<IF v.truth THEN "1" ELSE "0">>)
    [] v.type = "real" /\ ~style.gnustep    -> String(Num!format_f64(v.real))
    [] v.type = "date" /\ ~style.gnustep    -> String(Num!format_text_layout(v.instant))
    [] OTHER                                -> v

(* Empty strings vanish from arrays, and a dictionary that looks like a    *)
(* UID becomes one: by its string only as long as no literal was read.     *)
RECURSIVE Survivor(_, _, _)
Survivor(v, style, seen) ==
  CASE v.type = "array" ->
         Array(SelectSeq([k \in DOMAIN v.items |->
                  Survivor(v.items[k], style, seen \/ \E l \in 1 .. k - 1 : Emits(v.items[l], style))],
                LAMBDA w : w # String(<< >>)))
    [] v.type = "dictionary" ->
         maybe_uid([k \in DOMAIN v.entries |->
           Entry(v.entries[k].key,
                 Survivor(v.entries[k].value, style, seen \/ \E l \in 1 .. k - 1 : Emits(v.entries[l].value, style)))],
           ~ (seen \/ Emits(v, style)))
    [] OTHER -> Lowered(v, style)

(* The levels its nodes burn: a scalar one, a UID is a dictionary of one,  *)
(* a dictionary without braces none.                                       *)
RECURSIVE Levels(_)
Highest(levels) == CHOOSE m \in levels \cup {0} : \A n \in levels : n <= m
Levels(v) ==
  CASE v.type = "array"      -> 1 + Highest({Levels(v.items[k]) : k \in DOMAIN v.items})
    [] v.type = "dictionary" -> 1 + Highest({Levels(v.entries[k].value) : k \in DOMAIN v.entries})
    [] v.type = "uid"        -> 2
    [] OTHER                 -> 1

RECURSIVE Texts(_)
Texts(v) ==
  CASE v.type = "string"     -> {v.text}
    [] v.type = "array"      -> UNION {Texts(v.items[k]) : k \in DOMAIN v.items}
    [] v.type = "dictionary" -> {v.entries[k].key : k \in DOMAIN v.entries}
                                \cup UNION {Texts(v.entries[k].value) : k \in DOMAIN v.entries}
    [] OTHER                 -> {}

(* What does not read back as it is written: characters beyond U+FFFF      *)
(* whose escape is too long, an unquoted string that opens a comment, the  *)
(* semicolon that OpenStep does not quote, and a NUL behind the quote that *)
(* begins a document, which makes it look like UTF-16.                     *)
Bare(text, style)   == ~ needs_quotes(text, style)
Comment(text)       == Len(text) > 1 /\ text[1] = "/" /\ text[2] \in {"/", "*"}
Readable(w) ==
  /\ \A text \in Texts(w.value) :
       /\ w.style.raw \/ \A k \in DOMAIN text : Code[text[k]] <= 65535
       /\ Bare(text, w.style) => ~ Comment(text) /\ \A k \in DOMAIN text : text[k] # ";"
  /\ ~ (Len(Written(w)) > 1 /\ Written(w)[2] = "NUL" /\ w.encoding \in {"utf8", "latin1"})

Cut == input # << >> /\ input[Len(input)] = Eof /\ Len(input) <= Len(document)

Expected(w, v) ==
  IF Levels(v) - (IF w.strings THEN 1 ELSE 0) > MaxParseDepth THEN Error("MaxDepthExceeded")
  ELSE Return(Survivor(v, w.style, FALSE))

(* What may come of a document that is cut off: an error, what the whole   *)
(* of it says, nothing at all, and of a .strings file the entries so far,  *)
(* or the first key alone. *)
CutAnswers(w) ==
  {Error("Parse"), Error("MaxDepthExceeded"), Return(Dictionary(<< >>)), Expected(w, w.value)}
  \cup IF w.strings THEN {Expected(w, Dictionary(SubSeq(w.value.entries, 1, n))) : n \in DOMAIN w.value.entries}
                         \cup {Return(String(w.value.entries[1].key)) : k \in DOMAIN w.value.entries}
       ELSE {}

(* What is written in either dialect, indented or not, with braces or as a *)
(* .strings file, and saved in any encoding, reads back as what survives   *)
(* of the value, in GNUStep's dialect if a literal was written; a value    *)
(* that burns more levels than the cap is too deep, as the generator has   *)
(* no cap; and a document that is cut off is never misread.                *)
RoundTrip ==
  Returned => \A w \in writing : Readable(w) =>
    IF Cut THEN step \in CutAnswers(w)
    ELSE /\ step = Expected(w, w.value)
         /\ step.op = "Ok" => format = IF Emits(w.value, w.style) THEN "GnuStep" ELSE "OpenStep"

=============================================================================
