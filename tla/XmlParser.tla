------------------------------ MODULE XmlParser ------------------------------
(***************************************************************************)
(* The XML parser (src/src/xml/parser.rs): one pass over the tokens of     *)
(* quick-xml with an explicit stack of open containers, a depth counter    *)
(* that every element burns, and a failure that may be deferred (poison).  *)
(*                                                                         *)
(* Tokens come from the tokenizer one at a time, so the document is chosen *)
(* as it is read; input is the history of what was read.  Where the code   *)
(* loops over tokens inside one function, step says which loop it is in.   *)
(***************************************************************************)
EXTENDS UidRewrite, Integers, Sequences, FiniteSets

CONSTANTS
  Tokens,           (* the tokens a document is made of, but for its end *)
  MaxTokens,        (* bound: tokens before the end of a document *)
  MaxParseDepth,    (* depth.rs: 128 in the program *)
  Decoded(_, _)     (* the value of a leaf element with this body: a set, {} if malformed *)

ASSUME XmlAssumption == MaxTokens \in Nat /\ MaxParseDepth \in Nat

VARIABLES
  input,        (* the tokens read *)
  opened,       (* the elements quick-xml holds open *)
  stack,        (* the open containers, outermost first *)
  step,         (* what the parser does next, or how it returned *)
  depth,        (* the counter of the depth guards *)
  recognized,   (* an element of a property list was met *)
  poison        (* the deferred failure of a skipped <true> or <false> *)

vars == <<input, opened, stack, step, depth, recognized, poison>>

(* enum Token; a text chunk or a resolved reference adds to a body, and a  *)
(* Bad token is any failure of quick-xml or of the checks in next.         *)
Start(name) == [kind |-> "Start", name |-> name]
Empty(name) == [kind |-> "Empty", name |-> name]
Text(chunk) == [kind |-> "Text", chunk |-> chunk]
End         == [kind |-> "End"]
Markup      == [kind |-> "Markup"]
Eof         == [kind |-> "Eof"]
Bad         == [kind |-> "Bad"]

IsElement(t) == t.kind \in {"Start", "Empty"}
Passed(t)    == t.kind \in {"Text", "Markup"}

(* The loops that read tokens, the steps of the walker, and its returns. *)
Document            == [op |-> "Document"]
Body(name, text)    == [op |-> "Body", name |-> name, text |-> text]
Skip(balance, then) == [op |-> "Skip", balance |-> balance, then |-> then]
Advance             == [op |-> "Advance"]
Open(t)             == [op |-> "Open", name |-> t.name, empty |-> t.kind = "Empty"]
Deliver(value)      == [op |-> "Deliver", value |-> value]
Return(value)       == [op |-> "Ok", value |-> value]
Error(kind)         == [op |-> "Err", kind |-> kind]

Leaves     == {"string", "integer", "real", "date", "data"}
Booleans   == {"true", "false"}
Containers == {"plist", "dict", "array"}

(* A frame: what a container has collected, and a dictionary's key that    *)
(* awaits its value ({} when there is none).                               *)
Frame(name) == [name |-> name, collected |-> << >>, key |-> {}]

Top        == stack[Len(stack)]
Pop        == SubSeq(stack, 1, Len(stack) - 1)
WithTop(f) == [stack EXCEPT ![Len(stack)] = f]

Init ==
  /\ input = << >> /\ opened = 0
  /\ stack = << >> /\ step = Document
  /\ depth = 0 /\ recognized = FALSE /\ poison = FALSE

-----------------------------------------------------------------------------
(***************************************************************************)
(* next.                                                                   *)
(***************************************************************************)
Reading == step.op \in {"Document", "Advance", "Body", "Skip"}

(* quick-xml (external): an End matches an open Start. *)
Readable(t) == t \notin {Eof, Bad} /\ (t = End => opened > 0)

PullPoisoned(t) ==   (* mutant: the deferred failure is forgotten *)
  /\ Reading
  /\ Readable(t)
  /\ input' = Append(input, t)
  /\ opened' = opened + (CASE t.kind = "Start" -> 1 [] t = End -> -1 [] OTHER -> 0)
  /\ UNCHANGED <<recognized, poison>>

Pull(t) ==
  /\ Reading /\ ~ poison
  /\ Readable(t)
  /\ input' = Append(input, t)
  /\ opened' = opened + (CASE t.kind = "Start" -> 1 [] t = End -> -1 [] OTHER -> 0)
  /\ UNCHANGED <<recognized, poison>>

(* Where an error of next, or the end of the input, ends up: raised before *)
(* the first element it is the retry signal, in a skipped boolean it is    *)
(* deferred, everywhere else it is the answer.                             *)
SkipsBoolean == step.op = "Skip" /\ step.then.op = "Deliver"

Raise ==
  /\ poison' = SkipsBoolean
  /\ IF SkipsBoolean
     THEN /\ step' = step.then
          /\ depth' = depth - 1
     ELSE /\ step' = Error(IF step.op = "Document" THEN "InvalidPlist" ELSE "Parse")
          /\ UNCHANGED depth
  /\ UNCHANGED <<opened, stack, recognized>>

NextFails(t) ==
  /\ Reading /\ ~ poison
  /\ t \in {Eof, Bad}
  /\ input' = Append(input, t)
  /\ Raise

(* The deferred failure is taken by the next read, which reads nothing. *)
NextPoisonedAgain ==   (* mutant: a loop goes on after a failed read *)
  /\ Reading /\ poison
  /\ UNCHANGED vars

NextPoisoned ==
  /\ Reading /\ poison
  /\ Raise
  /\ UNCHANGED input

-----------------------------------------------------------------------------
(***************************************************************************)
(* parse_document, and the tokens between the children of a container.     *)
(***************************************************************************)
ReadDocument(t) ==
  /\ step.op = "Document"
  /\ Pull(t)
  /\ step' = IF IsElement(t) THEN Open(t) ELSE step
  /\ UNCHANGED <<stack, depth>>

(* plist and array: any element is a child. *)
ReadChild(t) ==
  /\ step.op = "Advance"
  /\ Top.name # "dict"
  /\ IsElement(t)
  /\ Pull(t)
  /\ step' = Open(t)
  /\ UNCHANGED <<stack, depth>>

Ignore(t) ==
  /\ step.op = "Advance"
  /\ Passed(t)
  /\ Pull(t)
  /\ UNCHANGED <<stack, step, depth>>

(* dict: a key, or the value of the pending key. *)
ReadKey(t) ==
  /\ step.op = "Advance"
  /\ Top.name = "dict"
  /\ IsElement(t) /\ t.name = "key"
  /\ Pull(t)
  /\ IF t.kind = "Empty"
     THEN /\ stack' = WithTop([Top EXCEPT !.key = {<< >>}])
          /\ UNCHANGED step
     ELSE /\ step' = Body("key", << >>)
          /\ UNCHANGED stack
  /\ UNCHANGED depth

ReadEntryValue(t) ==
  /\ step.op = "Advance"
  /\ Top.name = "dict"
  /\ IsElement(t) /\ t.name # "key"
  /\ Pull(t)
  /\ step' = IF Top.key # {} THEN Open(t) ELSE Error("Parse")
  /\ UNCHANGED <<stack, depth>>

(* The End of the top container: an empty wrapper and a key without a      *)
(* value are malformed.                                                    *)
Finished(f) ==
  IF f.name = "array" THEN Array(f.collected) ELSE maybe_uid(f.collected, FALSE)

CloseContainer(t) ==
  /\ step.op = "Advance"
  /\ t = End
  /\ Pull(t)
  /\ IF Top.name = "plist" \/ Top.key # {}
     THEN /\ step' = Error("Parse")
          /\ UNCHANGED <<stack, depth>>
     ELSE /\ step' = Deliver(Finished(Top))
          /\ stack' = Pop
          /\ depth' = depth - 1

-----------------------------------------------------------------------------
(***************************************************************************)
(* element_body and skip_subtree.                                          *)
(***************************************************************************)
ReadBodyFlat(t) ==   (* mutant: the elements in a body are not skipped *)
  /\ step.op = "Body"
  /\ t # End
  /\ Pull(t)
  /\ step' = IF t.kind = "Text" THEN [step EXCEPT !.text = @ \o t.chunk] ELSE step
  /\ UNCHANGED <<stack, depth>>

ReadBody(t) ==
  /\ step.op = "Body"
  /\ t # End
  /\ Pull(t)
  /\ step' = CASE t.kind = "Start" -> Skip(1, step)
               [] t.kind = "Text"  -> [step EXCEPT !.text = @ \o t.chunk]
               [] OTHER            -> step
  /\ UNCHANGED <<stack, depth>>

FinishBody(t) ==
  /\ step.op = "Body"
  /\ t = End
  /\ Pull(t)
  /\ IF step.name = "key"
     THEN /\ stack' = WithTop([Top EXCEPT !.key = {step.text}])
          /\ step' = Advance
          /\ UNCHANGED depth
     ELSE IF Decoded(step.name, step.text) # {}
     THEN /\ step' = Deliver(CHOOSE v \in Decoded(step.name, step.text) : TRUE)
          /\ depth' = depth - 1
          /\ UNCHANGED stack
     ELSE /\ step' = Error("Parse")
          /\ UNCHANGED <<stack, depth>>

ReadSkipped(t) ==
  /\ step.op = "Skip"
  /\ t = End => step.balance > 1
  /\ Pull(t)
  /\ step' = CASE t.kind = "Start" -> [step EXCEPT !.balance = @ + 1]
               [] t = End          -> [step EXCEPT !.balance = @ - 1]
               [] OTHER            -> step
  /\ UNCHANGED <<stack, depth>>

FinishSkipLeaking(t) ==   (* mutant: the depth level of a boolean is kept *)
  /\ step.op = "Skip"
  /\ step.balance = 1
  /\ t = End
  /\ Pull(t)
  /\ step' = step.then
  /\ UNCHANGED <<stack, depth>>

(* A skipped boolean is a leaf and releases its depth level. *)
FinishSkip(t) ==
  /\ step.op = "Skip"
  /\ step.balance = 1
  /\ t = End
  /\ Pull(t)
  /\ step' = step.then
  /\ depth' = IF SkipsBoolean THEN depth - 1 ELSE depth
  /\ UNCHANGED stack

-----------------------------------------------------------------------------
(***************************************************************************)
(* open_step.  Every element burns a depth level; a container keeps it, a  *)
(* leaf gives it back when its value is known.                             *)
(***************************************************************************)
TooDeep == depth + 1 > MaxParseDepth

OpenTooDeep ==
  /\ step.op = "Open"
  /\ TooDeep
  /\ depth' = depth + 1
  /\ step' = Error("MaxDepthExceeded")
  /\ UNCHANGED <<input, opened, stack, recognized, poison>>

Entered(names, empty) ==
  /\ step.op = "Open"
  /\ ~ TooDeep
  /\ step.name \in names
  /\ step.empty = empty
  /\ recognized' = TRUE
  /\ UNCHANGED <<input, opened, poison>>

OpenContainer ==
  /\ Entered(Containers, FALSE)
  /\ stack' = Append(stack, Frame(step.name))
  /\ step' = Advance
  /\ depth' = depth + 1

OpenLeaf ==
  /\ Entered(Leaves, FALSE)
  /\ step' = Body(step.name, << >>)
  /\ depth' = depth + 1
  /\ UNCHANGED stack

OpenBoolean ==
  /\ Entered(Booleans, FALSE)
  /\ step' = Skip(1, Deliver(Boolean(step.name = "true")))
  /\ depth' = depth + 1
  /\ UNCHANGED stack

(* <name/>: the level is burned and given back at once. *)
EmptyValue(name) ==
  CASE name \in Booleans -> {Boolean(name = "true")}
    [] name = "dict"     -> {maybe_uid(<< >>, FALSE)}
    [] name = "array"    -> {Array(<< >>)}
    [] name = "plist"    -> {}
    [] OTHER             -> Decoded(name, << >>)

OpenEmpty ==
  /\ Entered(Containers \cup Leaves \cup Booleans, TRUE)
  /\ step' = IF EmptyValue(step.name) = {}
             THEN Error("Parse")
             ELSE Deliver(CHOOSE v \in EmptyValue(step.name) : TRUE)
  /\ UNCHANGED <<stack, depth>>

OpenUnknownRetries ==   (* mutant: an unknown element is always the retry signal *)
  /\ step.op = "Open"
  /\ ~ TooDeep
  /\ step.name \notin Containers \cup Leaves \cup Booleans
  /\ step' = Error("InvalidPlist")
  /\ UNCHANGED <<input, opened, stack, depth, recognized, poison>>

OpenUnknown ==
  /\ step.op = "Open"
  /\ ~ TooDeep
  /\ step.name \notin Containers \cup Leaves \cup Booleans
  /\ step' = Error(IF recognized THEN "Parse" ELSE "InvalidPlist")
  /\ UNCHANGED <<input, opened, stack, depth, recognized, poison>>

-----------------------------------------------------------------------------
(***************************************************************************)
(* Frame::accept.  A plist wrapper completes with its first child: the     *)
(* rest of it, its End included, is not read by the wrapper.               *)
(***************************************************************************)
DeliverToPlist ==
  /\ step.op = "Deliver"
  /\ stack # << >> /\ Top.name = "plist"
  /\ stack' = Pop
  /\ depth' = depth - 1
  /\ UNCHANGED <<input, opened, step, recognized, poison>>

DeliverKeepingKey ==   (* mutant: the pending key is not taken *)
  /\ step.op = "Deliver"
  /\ stack # << >> /\ Top.name # "plist"
  /\ stack' = WithTop([Top EXCEPT !.collected =
       Append(@, IF Top.name = "array" THEN step.value
                 ELSE Entry(CHOOSE k \in Top.key : TRUE, step.value))])
  /\ step' = Advance
  /\ UNCHANGED <<input, opened, depth, recognized, poison>>

DeliverToFrame ==
  /\ step.op = "Deliver"
  /\ stack # << >> /\ Top.name # "plist"
  /\ stack' = WithTop(
       IF Top.name = "array"
       THEN [Top EXCEPT !.collected = Append(@, step.value)]
       ELSE [Top EXCEPT !.collected = Append(@, Entry(CHOOSE k \in Top.key : TRUE, step.value)),
                        !.key = {}])
  /\ step' = Advance
  /\ UNCHANGED <<input, opened, depth, recognized, poison>>

DeliverOut ==
  /\ step.op = "Deliver"
  /\ stack = << >>
  /\ step' = Return(step.value)
  /\ UNCHANGED <<input, opened, stack, depth, recognized, poison>>

Returned == step.op \in {"Ok", "Err"}
Stop     == Returned /\ UNCHANGED vars

Read(t) ==
  \/ NextFails(t)
  \/ ReadDocument(t) \/ ReadChild(t) \/ Ignore(t) \/ ReadKey(t) \/ ReadEntryValue(t) \/ CloseContainer(t)
  \/ ReadBody(t) \/ FinishBody(t) \/ ReadSkipped(t) \/ FinishSkip(t)

(* A step, when the next token is one of these. *)
NextOn(tokens) ==
  \/ \E t \in tokens : Read(t)
  \/ NextPoisoned
  \/ OpenTooDeep \/ OpenContainer \/ OpenLeaf \/ OpenBoolean \/ OpenEmpty \/ OpenUnknown
  \/ DeliverToPlist \/ DeliverToFrame \/ DeliverOut
  \/ Stop

Next == NextOn({Eof, Bad} \cup IF Len(input) < MaxTokens THEN Tokens ELSE {})

Spec     == Init /\ [][Next]_vars
FairSpec == Spec /\ WF_vars(Next)

-----------------------------------------------------------------------------
(***************************************************************************)
(* Properties.                                                             *)
(***************************************************************************)
(* Levels held by an element that has no frame: a leaf while its body is   *)
(* read.  A key burns no level.                                            *)
BurnedByLeaf ==
  CASE step.op = "Body" -> IF step.name = "key" THEN 0 ELSE 1
    [] step.op = "Skip" -> IF ~ SkipsBoolean /\ step.then.name = "key" THEN 0 ELSE 1
    [] OTHER            -> 0

(* The guards balance (depth.rs): while the parse goes on, the counter is  *)
(* the number of open containers, plus one inside a leaf, and never above  *)
(* the cap, on every path by which a frame or a leaf is left.              *)
DepthBalanced ==
  ~ Returned => depth = Len(stack) + BurnedByLeaf /\ depth <= MaxParseDepth

(* Elements whose Start was read and whose End is still to be read, as the *)
(* parser sees it.                                                         *)
Unfinished ==
  Len(stack) +
  CASE step.op = "Body" -> 1
    [] step.op = "Skip" -> step.balance + (IF SkipsBoolean THEN 0 ELSE 1)
    [] OTHER            -> 0

FirstElement == CHOOSE k \in DOMAIN input : IsElement(input[k]) /\ \A j \in 1 .. k - 1 : ~ IsElement(input[j])
NestedWrapper ==
  \E k \in DOMAIN input : input[k].kind = "Start" /\ input[k].name = "plist" /\ k # FirstElement

(* The parser stays in step with the markup: it never takes an element to  *)
(* be open that the tokenizer has closed, and loses count of open elements *)
(* only where a wrapper inside another element has left its own End to be  *)
(* read as the End of what surrounds it.                                   *)
FramesTrackMarkup ==
  Reading /\ ~ poison =>
    /\ opened >= Unfinished
    /\ ~ NestedWrapper => opened = Unfinished

(* The retry signal is given only before a property list is recognized:    *)
(* once an element of one has been read the ladder never tries the bytes   *)
(* as text, and before that no other failure is final but the cap.         *)
RetryOnlyBeforeRecognition ==
  step.op = "Err" =>
    /\ step.kind = "InvalidPlist" => stack = << >> /\ ~ recognized
    /\ step.kind = "Parse" => recognized

(* A deferred failure is final: once a skipped boolean has deferred one,   *)
(* nothing more is read, and it becomes the answer unless the boolean was  *)
(* the root.                                                               *)
PoisonEndsReading == [][poison => input' = input /\ (poison' \/ step'.op = "Err")]_vars

(* Every document is answered. *)
Terminates == <>Returned

-----------------------------------------------------------------------------
(***************************************************************************)
(* The recursive parse that the comment on parse_element says the walker   *)
(* matches exactly (xml/parser.rs:184-188), one call at a time, of a       *)
(* document d that is known: the document after read tokens, an element    *)
(* whose tag is behind it, the rest of a container after its children so   *)
(* far, and the rest of a body, whose text is wanted or skipped.  A call   *)
(* returns how it ended, the tokens read, and whether it deferred a        *)
(* failure.                                                                *)
(***************************************************************************)
Outcome(out, read, deferred) == [out |-> out, read |-> read, deferred |-> deferred]
Failed(o) == o.out.op = "Err"

DocumentCall(read) == [kind |-> "document", read |-> read, deferred |-> FALSE]
ElementCall(read, name, empty, level, known) ==
  [kind |-> "element", read |-> read, name |-> name, empty |-> empty, level |-> level, known |-> known]
ChildrenCall(read, deferred, name, level, children, key) ==
  [kind |-> "children", read |-> read, deferred |-> deferred, name |-> name, level |-> level,
   children |-> children, key |-> key]
BodyCall(read, level, text) ==
  [kind |-> "body", read |-> read, deferred |-> FALSE, level |-> level, text |-> text]

(* The next token of a document for a call: the deferred failure comes     *)
(* first, and nothing comes after the end. *)
Exhausted(d, c) == c.deferred \/ c.read >= Len(d)
Following(d, c) == IF Exhausted(d, c) THEN Bad ELSE d[c.read + 1]
After(d, c)     == IF Exhausted(d, c) THEN c.read ELSE c.read + 1

OpensKey(c, t)   == IsElement(t) /\ c.name = "dict" /\ t.name = "key"
OpensChild(c, t) == IsElement(t) /\ (c.name = "dict" => t.name # "key" /\ c.key # {})

(* A call may go on as another, past a token or in the container it opens, *)
Continues(d, c) ==
  \/ c.kind = "element" /\ c.level + 1 <= MaxParseDepth /\ c.name \in Containers /\ ~ c.empty
  \/ c.kind = "document" /\ Following(d, c) \notin {Eof, Bad}
  \/ c.kind = "children" /\ LET t == Following(d, c) IN Passed(t) \/ (OpensKey(c, t) /\ t.kind = "Empty")
  \/ c.kind = "body" /\ Following(d, c) \notin {Eof, Bad} /\ (Following(d, c) = End => c.level # 0)

PastToken(c, t) ==
  CASE c.kind = "document" ->
         IF IsElement(t) THEN ElementCall(c.read + 1, t.name, t.kind = "Empty", 0, FALSE)
         ELSE DocumentCall(c.read + 1)
    [] c.kind = "children" ->
         ChildrenCall(c.read + 1, FALSE, c.name, c.level, c.children, IF Passed(t) THEN c.key ELSE {<< >>})
    [] c.kind = "body" ->
         BodyCall(c.read + 1,
                  CASE t.kind = "Start" -> c.level + 1 [] t = End -> c.level - 1 [] OTHER -> c.level,
                  IF t.kind = "Text" /\ c.level = 0 THEN c.text \o t.chunk ELSE c.text)

Continuation(d, c) ==
  IF c.kind = "element" THEN ChildrenCall(c.read, FALSE, c.name, c.level + 1, << >>, {})
  ELSE PastToken(c, Following(d, c))

(* or ask for a body or for a child, *)
Asks(d, c) ==
  \/ c.kind = "element" /\ c.level + 1 <= MaxParseDepth /\ c.name \in Leaves \cup Booleans /\ ~ c.empty
  \/ c.kind = "children" /\ LET t == Following(d, c) IN
       OpensChild(c, t) \/ (OpensKey(c, t) /\ t.kind = "Start")

ChildCall(d, c) ==
  IF c.kind = "element" THEN BodyCall(c.read, 0, << >>)
  ELSE LET t == Following(d, c) IN
       IF OpensKey(c, t) THEN BodyCall(c.read + 1, 0, << >>)
       ELSE ElementCall(c.read + 1, t.name, t.kind = "Empty", c.level, TRUE)

(* and go on with the children after it.  A wrapper does not. *)
Resumes(c, p) == c.kind = "children" /\ c.name # "plist" /\ ~ Failed(p)

RestCall(d, c, p) ==
  IF OpensKey(c, Following(d, c))
  THEN ChildrenCall(p.read, p.deferred, c.name, c.level, c.children, {p.out.value})
  ELSE ChildrenCall(p.read, p.deferred, c.name, c.level,
         Append(c.children, IF c.name = "array" THEN p.out.value
                            ELSE Entry(CHOOSE k \in c.key : TRUE, p.out.value)), {})

(* Otherwise it returns: a boolean whatever became of its body, a leaf if  *)
(* its text is one, *)
Known(values, read) ==
  IF values = {} THEN Outcome(Error("Parse"), read, FALSE)
  ELSE Outcome(Return(CHOOSE v \in values : TRUE), read, FALSE)

Settled(c, p) ==
  IF c.kind = "element" /\ c.name \in Booleans
  THEN Outcome(Return(Boolean(c.name = "true")), p.read, Failed(p))
  ELSE IF c.kind = "element" /\ ~ Failed(p) THEN Known(Decoded(c.name, p.out.value), p.read)
  ELSE p

(* an element without content, a container or a body at its End, or an     *)
(* error. *)
ElementAnswer(c) ==
  IF c.level + 1 > MaxParseDepth THEN Outcome(Error("MaxDepthExceeded"), c.read, FALSE)
  ELSE IF c.name \in Containers \cup Leaves \cup Booleans THEN Known(EmptyValue(c.name), c.read)
  ELSE Outcome(Error(IF c.known THEN "Parse" ELSE "InvalidPlist"), c.read, FALSE)

Complete(c) == c.kind = "body" \/ (c.kind = "children" /\ c.name # "plist" /\ c.key = {})
Content(c) ==
  IF c.kind = "body" THEN c.text
  ELSE IF c.name = "array" THEN Array(c.children) ELSE maybe_uid(c.children, FALSE)

Answer(d, c) ==
  IF c.kind = "element" THEN ElementAnswer(c)
  ELSE IF Following(d, c) = End /\ Complete(c) THEN Outcome(Return(Content(c)), After(d, c), FALSE)
  ELSE Outcome(Error(IF c.kind = "document" THEN "InvalidPlist" ELSE "Parse"), After(d, c), FALSE)

=============================================================================
