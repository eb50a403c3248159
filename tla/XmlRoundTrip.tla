----------------------------- MODULE XmlRoundTrip -----------------------------
(***************************************************************************)
(* The XML parser reading any document of a few tokens, or what the XML    *)
(* generator or another tool wrote of a value, whole or cut off.  For TLC  *)
(* only.                                                                   *)
(***************************************************************************)
EXTENDS XmlText

CONSTANTS
  Nesting, MaxNesting,   (* bound: documents of these tokens alone may be longer *)
  Writings               (* what is written: [value, style] *)

VARIABLES
  writing,    (* what was written: a set, {} for any document *)
  document    (* the events of its document *)

RoundTripInit ==
  /\ Init
  /\ \/ writing = {} /\ document = << >>
     \/ \E w \in Writings : writing = {w} /\ document = generate(w.value, w.style)

ReadAny == writing = {} /\ Next /\ UNCHANGED <<writing, document>>
ReadNesting ==
  /\ writing = {} /\ Len(input) \in MaxTokens .. MaxNesting - 1
  /\ \A k \in DOMAIN input : input[k] \in Nesting
  /\ NextOn(Nesting)
  /\ UNCHANGED <<writing, document>>

(* A document that was written may end anywhere. *)
ReadWritten ==
  /\ writing # {}
  /\ NextOn({Eof} \cup {token(document[k]) : k \in DOMAIN document \cap {Len(input) + 1}})
  /\ UNCHANGED <<writing, document>>

RoundTripNext == ReadAny \/ ReadNesting \/ ReadWritten
RoundTripSpec == RoundTripInit /\ [][RoundTripNext]_<<vars, writing, document>> /\ WF_vars(RoundTripNext)

-----------------------------------------------------------------------------
(***************************************************************************)
(* What survives: a text up to the characters that XML cannot hold, and    *)
(* up to its line ends when a tool leaves them as they are; a tool may     *)
(* also write what is not well formed.                                     *)
(***************************************************************************)
Legalized(text) == [k \in DOMAIN text |-> IF in_character_range(text[k]) THEN text[k] ELSE Replacement]
Kept(text, style) ==
  CASE style.own            -> {Legalized(text)}
    [] style.body = "coded" -> {t \in {text} : validate_character_range(t)}
    [] style.body = "cdata" -> text_chunk(text, TRUE)
    [] style.body = "plain" -> {t \in text_chunk(text, FALSE) : \A k \in DOMAIN text : text[k] \notin {"<", "&"}}

RECURSIVE Texts(_)
Texts(v) ==
  CASE v.type = "string"     -> {v.text}
    [] v.type = "array"      -> UNION {Texts(v.items[k]) : k \in DOMAIN v.items}
    [] v.type = "dictionary" -> {v.entries[k].key : k \in DOMAIN v.entries}
                                \cup UNION {Texts(v.entries[k].value) : k \in DOMAIN v.entries}
    [] OTHER                 -> {}
IsWellFormed(w) == \A text \in Texts(w.value) : Kept(text, w.style) # {}

(* Keys that this makes equal are one entry, and a dictionary that looks   *)
(* like a UID is one.                                                      *)
RECURSIVE Survivor(_, _)
Survivor(v, style) ==
  LET kept(text) == CHOOSE t \in Kept(text, style) : TRUE IN
  CASE v.type = "string"     -> String(kept(v.text))
    [] v.type = "array"      -> Array([k \in DOMAIN v.items |-> Survivor(v.items[k], style)])
    [] v.type = "dictionary" ->
         maybe_uid([k \in DOMAIN v.entries |-> Entry(kept(v.entries[k].key), Survivor(v.entries[k].value, style))], FALSE)
    [] v.type = "real"       -> Real(v.real, TRUE)
    [] v.type = "date"       -> Date([v.instant EXCEPT !.nano = 0])
    [] OTHER                 -> v

(* The levels its elements burn: a leaf one, a UID is a dictionary of one. *)
RECURSIVE Levels(_)
Highest(levels) == CHOOSE m \in levels \cup {0} : \A n \in levels : n <= m
Levels(v) ==
  CASE v.type = "array"      -> 1 + Highest({Levels(v.items[k]) : k \in DOMAIN v.items})
    [] v.type = "dictionary" -> 1 + Highest({Levels(v.entries[k].value) : k \in DOMAIN v.entries})
    [] v.type = "uid"        -> 2
    [] OTHER                 -> 1

(* The declaration and the attributes are in order. *)
IsDeclared(style) ==
  style.own \/ (validate_declaration(style.declaration) /\ validate_attribute_value(style.attribute))

Expected(w) ==
  IF ~ IsDeclared(w.style) THEN Error("InvalidPlist")
  ELSE IF Levels(w.value) + 1 > MaxParseDepth THEN Error("MaxDepthExceeded")
  ELSE IF ~ IsWellFormed(w) THEN Error("Parse")
  ELSE Return(Survivor(w.value, w.style))

(* What the generator writes, indented or not, and what the tool writes,   *)
(* reads back as what survives of it, but for a value whose elements, the  *)
(* plist wrapper among them, burn more levels than the cap: the generator  *)
(* has no cap.  A document that is cut off or broken is refused, or read   *)
(* as the whole of its value: a deferred failure never makes a part of it. *)
RoundTrip ==
  Returned => \A w \in writing :
    \/ step = Expected(w)
    \/ step.op = "Err" /\ (input[Len(input)] = Eof \/ Expected(w).op = "Err")

=============================================================================
