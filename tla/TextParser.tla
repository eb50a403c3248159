------------------------------ MODULE TextParser ------------------------------
(***************************************************************************)
(* The OpenStep and GNUStep text parser (src/src/text/parser.rs): an       *)
(* explicit stack of open containers over the lexemes of the document, a   *)
(* depth counter, a dialect that only ever becomes GNUStep, and the second *)
(* pass that reads a .strings file as a dictionary without braces.         *)
(*                                                                         *)
(* The document is chosen as it is read; input is what has been looked at  *)
(* and pos how much of it is consumed.  Whitespace and comments before a   *)
(* lexeme are not modelled, but for a comment that does not end.           *)
(***************************************************************************)
EXTENDS UidRewrite, Integers, Sequences, FiniteSets

CONSTANTS
  Lexemes,         (* the lexemes a document is made of, but for its end *)
  MaxLexemes,      (* bound: lexemes before the end of a document *)
  MaxParseDepth    (* depth.rs: 128 in the program *)

ASSUME TextAssumption == MaxLexemes \in Nat /\ MaxParseDepth \in Nat

(* No literal is a string: hexadecimal data, numbers, booleans and dates.  *)
LexemeOK(t) == t.kind = "Literal" => t.value.type # "string"
ASSUME LexemesAssumption == \A t \in Lexemes : LexemeOK(t)

VARIABLES
  input,        (* the lexemes looked at *)
  pos,          (* how many of them are consumed *)
  stack,        (* the open containers, outermost first *)
  step,         (* what the parser does next, or how it returned *)
  depth,        (* the value nodes that are open *)
  format,       (* the dialect *)
  recovering    (* this is the second pass, over a .strings file *)

vars == <<input, pos, stack, step, depth, format, recovering>>

(* A string is quoted or not, and empty only if quoted; a literal is hex   *)
(* data, or a GNUStep value; Bad is what fails to scan as a string or a    *)
(* literal, and Unclosed what fails in skip_whitespace_and_comments.       *)
Mark(c)                 == [kind |-> "Mark", mark |-> c]
Str(text)               == [kind |-> "Str", text |-> text]
Literal(dialect, value) == [kind |-> "Literal", dialect |-> dialect, value |-> value]
Bad      == [kind |-> "Bad"]
Unclosed == [kind |-> "Unclosed"]
Eof      == [kind |-> "Eof"]

(* The steps of the walker, the one between a key and what follows it, the *)
(* end of parse_document, and the returns. *)
Open           == [op |-> "Open"]
Advance        == [op |-> "Advance"]
AfterKey(text) == [op |-> "AfterKey", text |-> text]
Deliver(value) == [op |-> "Deliver", value |-> value]
Finish(value)  == [op |-> "Finish", value |-> value]
Return(value)  == [op |-> "Ok", value |-> value]
Error(kind)    == [op |-> "Err", kind |-> kind]

(* A frame: what the container has collected, a key that awaits its value  *)
(* ({} if none), and whether it is the dictionary without braces, which    *)
(* ends with the input and holds no depth level.                           *)
Frame(name, implicit) == [name |-> name, collected |-> << >>, key |-> {}, implicit |-> implicit]

Top        == stack[Len(stack)]
Pop        == SubSeq(stack, 1, Len(stack) - 1)
WithTop(f) == [stack EXCEPT ![Len(stack)] = f]

Init ==
  /\ input = << >> /\ pos = 0
  /\ stack = << >> /\ step = Open
  /\ depth = 0 /\ format = "OpenStep" /\ recovering = FALSE

-----------------------------------------------------------------------------
(***************************************************************************)
(* peek and next, after skip_whitespace_and_comments, of the lexeme ahead. *)
(* The end of the input is never consumed.                                 *)
(***************************************************************************)
Peek(t) == input' = IF pos < Len(input) THEN input ELSE Append(input, t)

Take(t) ==
  /\ Peek(t)
  /\ pos' = IF t = Eof THEN pos ELSE pos + 1

(* A lexeme that does not belong here: the parse error. *)
Reject(t) ==
  /\ Take(t)
  /\ step' = Error("Parse")
  /\ UNCHANGED <<stack, format, recovering>>

-----------------------------------------------------------------------------
(***************************************************************************)
(* open_step.  Every value node burns a depth level, before anything is    *)
(* scanned; a scalar gives it back at once.                                *)
(***************************************************************************)
TooDeep == depth + 1 > MaxParseDepth

OpenTooDeep ==
  /\ step.op = "Open" /\ TooDeep
  /\ depth' = depth + 1
  /\ step' = Error("MaxDepthExceeded")
  /\ UNCHANGED <<input, pos, stack, format, recovering>>

(* At the end of the input there is an empty dictionary. *)
ScalarAt(t) ==
  CASE t = Eof            -> {Dictionary(<< >>)}
    [] t.kind = "Str"     -> {String(t.text)}
    [] t.kind = "Literal" -> {t.value}
    [] OTHER              -> {}

OpenScalarResetting(t) ==   (* mutant: the dialect is that of the last literal *)
  /\ step.op = "Open" /\ ~ TooDeep
  /\ Take(t)
  /\ \E value \in ScalarAt(t) : step' = Deliver(value)
  /\ format' = IF t.kind = "Literal" THEN t.dialect ELSE format
  /\ UNCHANGED <<stack, depth, recovering>>

OpenScalar(t) ==
  /\ step.op = "Open" /\ ~ TooDeep
  /\ Take(t)
  /\ \E value \in ScalarAt(t) : step' = Deliver(value)
  /\ format' = IF t.kind = "Literal" /\ t.dialect = "GnuStep" THEN "GnuStep" ELSE format
  /\ UNCHANGED <<stack, depth, recovering>>

OpenContainer(t) ==
  /\ step.op = "Open" /\ ~ TooDeep
  /\ t \in {Mark("{"), Mark("(")}
  /\ Take(t)
  /\ stack' = Append(stack, Frame(IF t = Mark("{") THEN "dictionary" ELSE "array", FALSE))
  /\ step' = Advance
  /\ depth' = depth + 1
  /\ UNCHANGED <<format, recovering>>

OpenFails(t) ==
  /\ step.op = "Open" /\ ~ TooDeep
  /\ ScalarAt(t) = {} /\ t \notin {Mark("{"), Mark("(")}
  /\ Reject(t)
  /\ depth' = depth + 1

-----------------------------------------------------------------------------
(***************************************************************************)
(* advance_step in a dictionary.                                           *)
(***************************************************************************)
InDictionary == step.op = "Advance" /\ Top.name = "dictionary"
InArray      == step.op = "Advance" /\ Top.name = "array"

CloseDictionaryCounting(t) ==   (* mutant: every dictionary releases a level *)
  /\ InDictionary
  /\ t = Mark("}") \/ (t = Eof /\ Top.implicit)
  /\ Take(t)
  /\ step' = Deliver(maybe_uid(Top.collected, format = "OpenStep"))
  /\ stack' = Pop
  /\ depth' = depth - 1
  /\ UNCHANGED <<format, recovering>>

(* A string can be a UID only while the document is pure OpenStep. *)
CloseDictionary(t) ==
  /\ InDictionary
  /\ t = Mark("}") \/ (t = Eof /\ Top.implicit)
  /\ Take(t)
  /\ step' = Deliver(maybe_uid(Top.collected, format = "OpenStep"))
  /\ stack' = Pop
  /\ depth' = IF Top.implicit THEN depth ELSE depth - 1
  /\ UNCHANGED <<format, recovering>>

ReadKey(t) ==
  /\ InDictionary
  /\ t.kind = "Str"
  /\ Take(t)
  /\ step' = AfterKey(t.text)
  /\ UNCHANGED <<stack, depth, format, recovering>>

DictionaryFails(t) ==
  /\ InDictionary
  /\ t.kind # "Str" /\ t # Mark("}") /\ ~ (t = Eof /\ Top.implicit)
  /\ Reject(t)
  /\ UNCHANGED depth

(* key; is short for key = key; *)
ReadShorthand(t) ==
  /\ step.op = "AfterKey"
  /\ t = Mark(";")
  /\ Take(t)
  /\ stack' = WithTop([Top EXCEPT !.collected = Append(@, Entry(step.text, String(step.text)))])
  /\ step' = Advance
  /\ UNCHANGED <<depth, format, recovering>>

ReadEquals(t) ==
  /\ step.op = "AfterKey"
  /\ t = Mark("=")
  /\ Take(t)
  /\ stack' = WithTop([Top EXCEPT !.key = {step.text}])
  /\ step' = Open
  /\ UNCHANGED <<depth, format, recovering>>

KeyFails(t) ==
  /\ step.op = "AfterKey"
  /\ t \notin {Mark(";"), Mark("=")}
  /\ Reject(t)
  /\ UNCHANGED depth

-----------------------------------------------------------------------------
(***************************************************************************)
(* advance_step in an array.                                               *)
(***************************************************************************)
CloseArray(t) ==
  /\ InArray
  /\ t = Mark(")")
  /\ Take(t)
  /\ step' = Deliver(Array(Top.collected))
  /\ stack' = Pop
  /\ depth' = IF Top.implicit THEN depth ELSE depth - 1
  /\ UNCHANGED <<format, recovering>>

SkipCommaPeeking(t) ==   (* mutant: the comma is not consumed *)
  /\ InArray
  /\ t = Mark(",")
  /\ Peek(t)
  /\ UNCHANGED <<pos, stack, step, depth, format, recovering>>

(* Commas separate nothing: any number of them is skipped. *)
SkipComma(t) ==
  /\ InArray
  /\ t = Mark(",")
  /\ Take(t)
  /\ UNCHANGED <<stack, step, depth, format, recovering>>

ReadElement(t) ==
  /\ InArray
  /\ t \notin {Mark(")"), Mark(","), Eof, Unclosed}
  /\ Peek(t)
  /\ step' = Open
  /\ UNCHANGED <<pos, stack, depth, format, recovering>>

ArrayFails(t) ==
  /\ InArray
  /\ t \in {Eof, Unclosed}
  /\ Reject(t)
  /\ UNCHANGED depth

-----------------------------------------------------------------------------
(***************************************************************************)
(* deliver_step.                                                           *)
(***************************************************************************)
InFrame(name) == step.op = "Deliver" /\ stack # << >> /\ Top.name = name

DeliverEntryKeeping(t) ==   (* mutant: the pending key is not taken *)
  /\ InFrame("dictionary")
  /\ t = Mark(";")
  /\ Take(t)
  /\ stack' = WithTop([Top EXCEPT
       !.collected = Append(@, Entry(CHOOSE k \in Top.key : TRUE, step.value))])
  /\ step' = Advance
  /\ UNCHANGED <<depth, format, recovering>>

DeliverEntry(t) ==
  /\ InFrame("dictionary")
  /\ t = Mark(";")
  /\ Take(t)
  /\ stack' = WithTop([Top EXCEPT
       !.collected = Append(@, Entry(CHOOSE k \in Top.key : TRUE, step.value)),
       !.key = {}])
  /\ step' = Advance
  /\ UNCHANGED <<depth, format, recovering>>

EntryFails(t) ==
  /\ InFrame("dictionary")
  /\ t # Mark(";")
  /\ Reject(t)
  /\ UNCHANGED depth

DeliverElementAll ==   (* mutant: empty strings are kept *)
  /\ InFrame("array")
  /\ stack' = WithTop([Top EXCEPT !.collected = Append(@, step.value)])
  /\ step' = Advance
  /\ UNCHANGED <<input, pos, depth, format, recovering>>

(* Empty strings vanish from arrays. *)
DeliverElement ==
  /\ InFrame("array")
  /\ stack' = IF step.value = String(<< >>) THEN stack
              ELSE WithTop([Top EXCEPT !.collected = Append(@, step.value)])
  /\ step' = Advance
  /\ UNCHANGED <<input, pos, depth, format, recovering>>

(* run returns: to the caller from the second pass, else to the rest of    *)
(* parse_document. *)
DeliverOut ==
  /\ step.op = "Deliver" /\ stack = << >>
  /\ step' = IF recovering THEN Return(step.value) ELSE Finish(step.value)
  /\ UNCHANGED <<input, pos, stack, depth, format, recovering>>

-----------------------------------------------------------------------------
(***************************************************************************)
(* The end of parse_document: nothing may follow the root, but after a     *)
(* string the whole input is read again as a dictionary.                   *)
(***************************************************************************)
Accept(t) ==
  /\ step.op = "Finish"
  /\ t = Eof
  /\ Peek(t)
  /\ step' = Return(step.value)
  /\ UNCHANGED <<pos, stack, depth, format, recovering>>

Recover(t) ==
  /\ step.op = "Finish"
  /\ t \notin {Eof, Unclosed} /\ step.value.type = "string"
  /\ Peek(t)
  /\ pos' = 0
  /\ stack' = <<Frame("dictionary", TRUE)>>
  /\ step' = Advance
  /\ recovering' = TRUE
  /\ UNCHANGED <<depth, format>>

DocumentFails(t) ==
  /\ step.op = "Finish"
  /\ t = Unclosed \/ (t # Eof /\ step.value.type # "string")
  /\ Peek(t)
  /\ step' = Error("Parse")
  /\ UNCHANGED <<pos, stack, depth, format, recovering>>

Returned == step.op \in {"Ok", "Err"}
Stop     == Returned /\ UNCHANGED vars

Read(t) ==
  \/ OpenScalar(t) \/ OpenContainer(t) \/ OpenFails(t)
  \/ CloseDictionary(t) \/ ReadKey(t) \/ DictionaryFails(t)
  \/ ReadShorthand(t) \/ ReadEquals(t) \/ KeyFails(t)
  \/ CloseArray(t) \/ SkipComma(t) \/ ReadElement(t) \/ ArrayFails(t)
  \/ DeliverEntry(t) \/ EntryFails(t)
  \/ Accept(t) \/ Recover(t) \/ DocumentFails(t)

(* A step, when the lexeme ahead is one of these, unless it was looked at. *)
NextOn(lexemes) ==
  \/ \E t \in IF pos < Len(input) THEN {input[pos + 1]} ELSE lexemes : Read(t)
  \/ OpenTooDeep \/ DeliverElement \/ DeliverOut
  \/ Stop

Next == NextOn(IF Len(input) < MaxLexemes THEN Lexemes \cup {Eof} ELSE {Eof})

Spec     == Init /\ [][Next]_vars
FairSpec == Spec /\ WF_vars(Next)

-----------------------------------------------------------------------------
(***************************************************************************)
(* Properties.                                                             *)
(***************************************************************************)
FrameOK(f) ==
  /\ f.name \in {"dictionary", "array"}
  /\ Cardinality(f.key) <= 1
  /\ f.key # {} \/ f.implicit => f.name = "dictionary"

(* The type invariant: the dictionary without braces is the outermost and  *)
(* only in the second pass, and a key awaits its value exactly while that  *)
(* value is read.                                                          *)
TypeOK ==
  /\ pos \in 0 .. Len(input) /\ depth \in Nat
  /\ format \in {"OpenStep", "GnuStep"} /\ recovering \in BOOLEAN
  /\ \A d \in DOMAIN stack :
       /\ FrameOK(stack[d])
       /\ stack[d].implicit = (recovering /\ d = 1)
       /\ stack[d].name = "dictionary" /\ d < Len(stack) => stack[d].key # {}
  /\ step.op = "Advance" => stack # << >> /\ Top.key = {}
  /\ step.op = "AfterKey" => stack # << >> /\ Top.name = "dictionary" /\ Top.key = {}
  /\ step.op \in {"Open", "Deliver"} /\ stack # << >> =>
       (Top.key # {} <=> Top.name = "dictionary")

(* While the parse goes on, the counter is the number of open containers   *)
(* but the one without braces, and never above the cap (parser.rs:128-135, *)
(* 313-315).                                                               *)
DepthBalanced ==
  ~ Returned =>
    /\ depth = Cardinality({d \in DOMAIN stack : ~ stack[d].implicit})
    /\ depth <= MaxParseDepth

(* The dialect that is reported is GNUStep exactly if some value that was  *)
(* read is a GNUStep literal, wherever it stands and whatever follows it,  *)
(* in the second pass as in the first (parser.rs:27-28).                   *)
FormatTellsLiterals ==
  step.op = "Ok" =>
    (format = "GnuStep" <=>
       \E k \in 1 .. pos : input[k].kind = "Literal" /\ input[k].dialect = "GnuStep")

(* Every document is answered: the second pass is the last. *)
Terminates == <>Returned

-----------------------------------------------------------------------------
(***************************************************************************)
(* The recursive parse that the comment on run says the walker matches     *)
(* exactly (text/parser.rs:290-294), one call at a time, of a document d   *)
(* that is known: a value after read lexemes, the rest of a dictionary or  *)
(* of an array after what it has collected, or the whole document.  A call *)
(* returns how it ended, the lexemes consumed and the dialect.             *)
(***************************************************************************)
Outcome(out, read, dialect) == [out |-> out, read |-> read, dialect |-> dialect]
Failed(o) == o.out.op = "Err"

ValueCall(read, level, dialect) ==
  [kind |-> "value", read |-> read, level |-> level, dialect |-> dialect]
EntriesCall(read, level, dialect, implicit, entries) ==
  [kind |-> "entries", read |-> read, level |-> level, dialect |-> dialect,
   implicit |-> implicit, entries |-> entries]
ElementsCall(read, level, dialect, items) ==
  [kind |-> "elements", read |-> read, level |-> level, dialect |-> dialect, items |-> items]
RootCall     == ValueCall(0, 0, "OpenStep")
DocumentCall == [kind |-> "document"]

(* A lexeme that no document has is none of the walker's. *)
At(d, read)    == IF read < Len(d) THEN d[read + 1] ELSE Bad
After(d, read) == IF At(d, read) = Eof THEN read ELSE read + 1
Failure(d, read, dialect) == Outcome(Error("Parse"), After(d, read), dialect)

(* A call may go on as another, for what it opens or when an entry or a    *)
(* comma is behind it, *)
Continues(d, c) ==
  \/ c.kind = "value" /\ c.level + 1 <= MaxParseDepth /\ At(d, c.read) \in {Mark("{"), Mark("(")}
  \/ c.kind = "entries" /\ At(d, c.read).kind = "Str" /\ At(d, c.read + 1) = Mark(";")
  \/ c.kind = "elements" /\ At(d, c.read) = Mark(",")

Continuation(d, c) ==
  CASE c.kind = "value" /\ At(d, c.read) = Mark("{") ->
         EntriesCall(c.read + 1, c.level + 1, c.dialect, FALSE, << >>)
    [] c.kind = "value" /\ At(d, c.read) # Mark("{") ->
         ElementsCall(c.read + 1, c.level + 1, c.dialect, << >>)
    [] c.kind = "entries" ->
         LET text == At(d, c.read).text IN
           EntriesCall(c.read + 2, c.level, c.dialect, c.implicit,
                       Append(c.entries, Entry(text, String(text))))
    [] c.kind = "elements" -> ElementsCall(c.read + 1, c.level, c.dialect, c.items)

(* or ask for a value, *)
Asks(d, c) ==
  \/ c.kind = "document"
  \/ c.kind = "entries" /\ At(d, c.read).kind = "Str" /\ At(d, c.read + 1) = Mark("=")
  \/ c.kind = "elements" /\ At(d, c.read) \notin {Mark(")"), Mark(","), Eof, Unclosed}

ChildCall(c) ==
  CASE c.kind = "document" -> RootCall
    [] c.kind = "entries"  -> ValueCall(c.read + 2, c.level, c.dialect)
    [] c.kind = "elements" -> ValueCall(c.read, c.level, c.dialect)

(* and, if the value it gets is in its place, go on after it. *)
Resumes(d, c, p) ==
  /\ ~ Failed(p)
  /\ c.kind = "entries" => At(d, p.read) = Mark(";")
  /\ c.kind = "document" => At(d, p.read) \notin {Eof, Unclosed} /\ p.out.value.type = "string"

RestCall(d, c, p) ==
  CASE c.kind = "document" -> EntriesCall(0, 0, p.dialect, TRUE, << >>)
    [] c.kind = "entries"  ->
         EntriesCall(p.read + 1, c.level, p.dialect, c.implicit,
                     Append(c.entries, Entry(At(d, c.read).text, p.out.value)))
    [] c.kind = "elements" ->
         ElementsCall(p.read, c.level, p.dialect,
                      IF p.out.value = String(<< >>) THEN c.items ELSE Append(c.items, p.out.value))

(* Otherwise it returns, with what it has or with an error. *)
Settled(d, c, p) ==
  IF Failed(p) \/ (c.kind = "document" /\ At(d, p.read) = Eof) THEN p
  ELSE IF c.kind = "document" THEN Outcome(Error("Parse"), p.read, p.dialect)
  ELSE Failure(d, p.read, p.dialect)

ValueAnswer(d, c) ==
  LET t == At(d, c.read) IN
  IF c.level + 1 > MaxParseDepth THEN Outcome(Error("MaxDepthExceeded"), c.read, c.dialect)
  ELSE IF ScalarAt(t) = {} THEN Failure(d, c.read, c.dialect)
  ELSE Outcome(Return(CHOOSE v \in ScalarAt(t) : TRUE), After(d, c.read),
               IF t.kind = "Literal" /\ t.dialect = "GnuStep" THEN "GnuStep" ELSE c.dialect)

EntriesAnswer(d, c) ==
  LET t == At(d, c.read) IN
  IF t = Mark("}") \/ (c.implicit /\ t = Eof)
  THEN Outcome(Return(maybe_uid(c.entries, c.dialect = "OpenStep")), After(d, c.read), c.dialect)
  ELSE Failure(d, IF t.kind = "Str" THEN c.read + 1 ELSE c.read, c.dialect)

ElementsAnswer(d, c) ==
  IF At(d, c.read) = Mark(")") THEN Outcome(Return(Array(c.items)), c.read + 1, c.dialect)
  ELSE Failure(d, c.read, c.dialect)

Answer(d, c) ==
  CASE c.kind = "value"    -> ValueAnswer(d, c)
    [] c.kind = "entries"  -> EntriesAnswer(d, c)
    [] c.kind = "elements" -> ElementsAnswer(d, c)

=============================================================================
