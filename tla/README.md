# apple-plist in TLA+

TLA+ modules, TLC configurations and TLAPS proofs for `apple-plist`, a Rust
library that reads and writes the four property-list formats: binary
(`bplist00`), XML, OpenStep text and GNUStep text.

The library is sequential: no threads, no shared state, no persistence. What is
hard in it is elsewhere. Its parsers are explicit-stack machines that claim to
equal a recursive descent; depth counters must balance on every way out of an
element; a memo and a uniquing map are filled in one order and read in another;
byte arithmetic on the document's own numbers decides what is read; errors
decide which codec gets the bytes next; foreign serde code calls the builders
and accessors in any order; readers and writers can fail halfway; and four
codecs claim to carry the same values. These are the subjects of the project.

## Inventory

| Part (under `src/src/`) | State it keeps | Operations | What must hold | Module |
|---|---|---|---|---|
| `binary/parser.rs`, trailer and reads | the trailer, cursors into the buffer | `Trailer::validate`, `sized_integer`, `slice_at`, `count_for_tag_at`, `counted_payload` | an accepted trailer is a sane layout; no checked read leaves its region | `BinaryLayout` |
| `binary/parser.rs`, resolver | `stack` of open containers, `objects` memo | `resolve_step`, `open_container`, `advance_step`, `memoize` | equals the recursive traversal; memo faithful; no container inside itself; ends | `BinaryDocument`, `BinaryParser`, `BinaryParserReference`, abstract `ObjectGraph` |
| `binary/generator.rs` | `objmap`, `objtable`, open calls | `flatten_*`, `set_refs`, `resolve`, `write_*` | every deferred lookup finds its object; scalars once; reads back | `BinaryGenerator`, `BinaryRoundTrip` |
| `xml/parser.rs` | frame stack, depth, `recognized`, `poison` | `next`, `open_step`, `advance_step`, `accept`, `element_body`, `skip_subtree`, the text and leaf conversions | equals a recursive descent; depth balanced; in step with the tokenizer; retry signal only before recognition | `XmlParser`, `XmlText`, `XmlParserReference` |
| `xml/generator.rs` | the writer, an indent level | `write_value`, `element`, `write_escaped` | reads back | `XmlText`, `XmlRoundTrip` |
| `text/parser.rs`, `text/tables.rs` | cursor, depth, dialect, frame stack | `parse_document`, `open_step`, `advance_step`, `deliver_step`, the lexer, the guessed encoding | equals a recursive descent over both passes; brackets and depth balanced; dialect right | `TextParser`, `TextLexer`, `TextTables`, `TextParserReference` |
| `text/generator.rs` | the writer, an indent level | `write_value`, `quote_string`, `write_*` | reads back where its tables allow | `TextGenerator`, `TextRoundTrip` |
| `de.rs`, `error.rs` | reader, `buffer`, `format` | `decode`, `decode_value`, `parse_auto`, `detect` | parses nothing with a hole; format belongs to the buffer; committed formats stay committed | `Decoder` |
| `ser.rs` | writer, format, indent | `encode`, `encode_value`, `set_indent` | what a failing writer has seen; no failure leaks into a later document | `Encoder`, with the decoder `Session` |
| `value/ser.rs` | `SeqBuilder`, `MapBuilder` with its pending key | the serde serializer calls | nothing lost but nulls, last value of a key wins | `ValueSerializer` |
| `value/de.rs` | `SeqAccessor`, `MapAccessor`, depth | the serde deserializer calls | no entry lost silently; depth cap | `ValueDeserializer`, both in `Serde` and `SerdeRoundTrip` |
| `scalar.rs`, `value/integer.rs`, `value/real.rs` | none | readers and writers of numbers and booleans; equality and order of integers | reads back; hex floats are nearest; underscores only group | `NumberText`, `Scalars` |
| `date.rs` | none | two text forms, the calendar, the Apple epoch | dates survive any chain of codecs as far as their forms allow | `DateText`, `Scalars` |
| `value/mod.rs`, `uid.rs` | none | `maybe_uid`, collecting a dictionary | | `PlistValue`, `UidRewrite`, `ValueNesting` |
| `lib.rs`, `format.rs`, `*/mod.rs` | none | re-exports | | not modelled |

How they interact: `Decoder` buffers its reader and calls `parse_auto`, which
hands the bytes to the binary parser on the `bplist` magic, otherwise to the XML
parser, and on its retry signal to the text parser; the `Value` it gets is
mapped into a type by `value/de.rs`. `Encoder` runs `value/ser.rs` and then one
generator. All calls are synchronous; the only callbacks are the reader, the
writer and serde's visitors and `Serialize` impls.

## The modules and the code

Every definition that models code is listed in `PROJECT.json` under `map` with
its lines. In outline:

**PlistValue, ValueNesting, UidRewrite.** A value is a record with its kind; a
dictionary is the sequence of its entries because `IndexMap` keeps insertion
order, and `Insert` keeps the place of a key that is there. `maybe_uid` is the
`CF$UID` rewrite both text parsers apply to raw entries.

**Stacks** names the ways a stack changes, and proves what every proof below
needs of sequences, besides the least number with a property.

**BinaryDocument, BinaryParser.** A document is the offset table and the marker
at each offset: offsets may coincide, or lie outside the region. `stack`,
`objects` and `step` are the Rust fields and the `Step` enum of the loop in
`resolve_object`; each arm of each function is an action. The order of the
checks (index, memo, entry, table, tag, cap, self-reference, count) is the order
of the guards.

**ObjectGraph** is the abstract specification: objects get values one at a time
from the values of what they refer to, in any order, never changing, and the
answer is the top object's. `BinaryParser` implements it with `objects` as it is
and `outcome` read off `step`.

**The recursive shapes.** The comments on `resolve_object`, `parse_element` and
`run` say that each loop matches a recursive descent exactly. The last section
of **BinaryParser**, **XmlParser** and **TextParser** spells that descent out,
one call at a time and without recursion: what a call goes on as, which call it
asks for, what it does with the answer, what it returns. The code has no such
functions, so nothing of these sections is in `map`. **BinaryParserReference,
XmlParserReference, TextParserReference** are one RECURSIVE operator each, which
makes every call as soon as it is asked for, and compare its answer with the
loop's; where a doc says something the code does not do, they hold that
statement. They are for TLC only. The proofs state the same descent by rules.

**BinaryLayout** has the checks of `Trailer::validate` in order and the reads
that lean on them. What the bytes contain is arbitrary; where a read happens and
whether it can leave its region is exact, with wrapping, checked and saturating
arithmetic where the code has it.

**BinaryGenerator.** The recursion of `flatten_value` is a stack of open calls;
each action is one call or one return. `Write` resolves all references at once
as `write_entry` does, and turns the table into a document of `BinaryDocument`.
**BinaryRoundTrip** runs `BinaryParser` on it.

**XmlParser.** The document is chosen token by token as quick-xml hands it over
(`Readable` is what quick-xml guarantees: an end tag matches a start tag). The
loops inside one function (`element_body`, `skip_subtree`) are values of `step`.
`poison` is the deferred failure of a skipped boolean. `depth` counts live
guards. **XmlText** is what `next` checks and makes of each event (characters
XML allows, line ends, `]]>`, references, attributes, the declaration) and what
each leaf makes of its body, and the events that the generator writes.
**XmlRoundTrip** feeds the parser any tokens, or a written document through
`XmlText`, whole or cut off.

**TextParser.** The document is chosen lexeme by lexeme, what was looked at is
kept in `input`, and `pos` is what is consumed, so the second pass over a
`.strings` file reads the same lexemes again from the start. **TextLexer** goes
from bytes to lexemes: the encoding guessed from a byte-order mark or the zero
bytes, comments, quoted strings with their escapes, unquoted strings, hexadecimal
data, GNUStep's typed values. **TextTables** are the character classes bit by
bit. **TextGenerator** writes characters in either dialect; **TextRoundTrip**
feeds the parser any lexemes, or what was written in one of seven encodings.

**DateText, NumberText** are the conversions as operators over texts (sequences
of characters) of numbers of any width. **Scalars** adds the Apple epoch and puts
them to work: dates travel from codec to codec, texts are typed one character after the
other and read at each, integers of every pair are compared.

**ValueSerializer, ValueDeserializer.** The state is the stack of builders, or
of accesses, whose impl or visitor is running; each serde call is an action and
each result is left for the caller. A type may let go of the deserializer it is
handed or take a default for one that failed (`MakeDo`), and a visitor may drop
an enum's access, or the payload after its name (`DropEnum`, `DropVariant`):
`deserialize_enum` looks for no leftovers. **Serde** lets any impl make calls, or
`Value`'s own, and gives the result to `Value`'s visitor, to an orderly one,
which asks for each value and for what it is handed, or to any.
What a visitor has made is compared with the value level by level, so that no
recursion is needed (`Represents`, `Matched`, `Level`). **SerdeRoundTrip** says,
with recursive operators, that a `Value` comes back as itself.

**Decoder.** The reader's document is a sequence of chunks; a failing read gives
some and loses them. `features` are the compiled-in codecs. What a codec says of
the bytes is a parameter, constrained by an assumption to the errors that codec
has. **Encoder** hands the pieces of a document to a writer that may fail
between any two of them; the binary codec generates first and is refused, if it
is, before the first byte. **Session** opens a decoder, of a build of its own,
over what an encoder has written by then.

## Runs

| Run | Module, cfg | Question | States |
|---|---|---|---|
| `binary_parser` | `MCBinaryParser`, `MCBinaryParser.cfg` | Does the loop equal the recursive traversal, memo and errors included? Does it end, enter nothing twice, and implement `ObjectGraph`? | 74415 |
| `binary_parser_nesting` | `MCBinaryParser`, `MCBinaryParserChains.cfg` | (violation) the cap bounds a value's nesting | |
| `binary_layout` | `MCBinaryLayout`, `MCBinaryLayout.cfg` | Do the trailer checks make every later read safe? | 201317 |
| `binary_round_trip` | `MCBinaryRoundTrip`, `MCBinaryRoundTrip.cfg` | Is the generator's table uniqued, closed and free of cycles, and what survives writing and reading? | 87307 |
| `xml_parser` | `MCXmlParser`, `MCXmlParser.cfg` | Does the loop equal a recursive descent; is the retry signal at the boundary; is poison final; do depth and frames stay in step with the markup; does it end; what survives writing and reading? | 721505 |
| `text_parser` | `MCTextParser`, `MCTextParser.cfg` | Does the loop equal a recursive descent over both passes; balance, dialect, termination; what survives in either dialect and any encoding? | 1125959 |
| `text_parser_garbage` | `MCTextParser`, `MCTextGarbage.cfg` | (violation) nothing follows a document | |
| `decoder` | `MCDecoder`, `MCDecoder.cfg` | Failing readers and writers, repeated calls, builds that lack codecs | 437648 |
| `decoder_features` | `MCDecoder`, `MCDecoderFeatures.cfg` | (violation) more codecs only add answers | |
| `scalars` | `MCScalars`, `MCScalars.cfg` | Do dates, floats, integers survive their texts and the epoch? | 971053 |
| `serde` | `MCSerde`, `MCSerde.cfg` | Do builders and accesses keep what they are given, in whatever order they are called? | 1101050 |

The three violation runs are disagreements between a doc or a test and the code,
quoted in `PROJECT.json` under `findings`:

* the binary parser's cap counts open frames, and a memoized subtree is attached
  without one, so nesting depends on the order of references;
* an unpaired `}` ends a `.strings` file, and what follows is not looked at;
* a text list with an element inside a string is XML to a build that has the XML
  codec, so a codec more can change one answer of `detect` into another.

What a round trip loses is stated rather than ignored: `Expected` in each
round-trip module says what comes back of a value (a string with characters XML
has no place for, an empty string in a text array, an astral character in text,
a scalar of OpenStep that comes back as a string, a dictionary that reads as a
uid, a value beyond the cap), and the property is that exactly this comes back.

### Bounds, and why they are enough

* *Depth caps* are 2 or 3 instead of 128. A cap takes part in one comparison,
  so what matters is to reach it, be one short of it and be one beyond it, with
  a sibling after each; the bounds on objects and tokens allow that.
* *Binary documents* have three objects (five in the chain family) over all
  tags, damages, reference lists of up to two (four for dictionaries), dangling
  indices and shared offsets: enough for a cycle through two containers, a
  chain beyond the cap, a shared child, a memo hit in either order and two table
  entries at one offset.
* *Layout* uses two-bit bytes and four-byte words, so that every product and sum
  that can wrap does, and the shift of the reference size wraps as it does at
  full width.
* *XML token streams* have up to five tokens before the end over an alphabet for
  shapes (`MaxTokens`), and seven over one for nesting (`MaxNesting`): enough
  for a wrapper inside a container, a boolean with content inside a dictionary,
  and an element after each. They need not be well formed beyond what quick-xml
  guarantees.
* *Text documents* have up to seven lexemes (`MaxLexemes`): `( { k = v ; }` less
  one, and for the second pass `k = ( { } ) ;`.
* *Written documents* are of values with every kind of scalar and the texts at
  which the writers' tables turn, nested up to one beyond the cap; cut off at
  every token or lexeme, but never inside one: a text that ends within a quoted
  string or a comment, or a document that ends within a tag, is not among them. The
  integers of binary documents run over all of a
  machine of 64 words, with widths' limits at 3, 7 and 15.
* *Sessions*: at most two calls of an encoder (`MaxCalls`), so that a failure has
  a document before or after it, and two failing reads (`MaxFaults`), before and
  after some chunks.
* *Scalars*: texts of up to eight characters (`MaxText`) beginning as a hex float,
  a decimal or a sign with every continuation; hex floats with three bits of
  mantissa and of exponent (`MantBits`, `ExpBits`), so that subnormals, ties, a
  carry into the exponent and overflow all happen; integers of a four-bit word
  with its sign (`Word`, `IntMin`); dates at both ends of the calendar and on
  either side of 1970, three codecs long (`MaxTrips`: the forms settle after
  one); doubles of seven bits (`Precision`) on a grid of 1/1024.
* *serde*: six calls of any impl (`MaxCalls`), which is a map in a sequence with
  a key without a value; for reading back, values three deep under a cap of two.

### Fairness

`FairSpec` is `Spec /\ WF_vars(Next)`, and the round-trip specifications of the
XML and text parsers have the same conjunct for their own next-state relation:
the code is a loop in one thread that returns or takes its next step, so weak
fairness of the whole relation says no more than that the thread runs. It is
stated for the three parsers. Termination of the XML and text parsers rests on
the input being finite (`MaxTokens`, `MaxNesting`, `MaxLexemes`). `Decoder`,
`Encoder` and the serde modules have no liveness property: their callers may
stop calling, and for that reason nothing is assumed of them. The generators
walk a finite value and are checked for safety only. Finished parsers stutter by
an explicit `Stop` disjunct, so deadlock is checked everywhere but in `scalars`,
where a text that has reached its length and a date that has made its trips
have nowhere to go.

## Proofs

### The binary resolver

`BinaryParser_proofs` proves, for every set of documents and every cap:

| Theorem | Statement |
|---|---|
| `Invariance` | `Spec => []IInv` |
| `TypeCorrect` | `Spec => []TypeOK`: at most the cap's number of frames, all well formed |
| `NoReentry` | `Spec => []NeverReentered` |
| `FramesInOrder` | `Spec => []FramesFaithful`, that is `FramesLinked`, `CollectedFaithful` and `DeliveredFaithful` |
| `ResolverCorrect` | `Spec => [](MemoFaithful /\ DeliveredFaithful)` |
| `FinishedForGood` | `Spec => MemoStable` |
| `Refinement` | `Spec => ImplementsObjectGraph` |
| `OneTraversal` | every document has exactly one outcome by the recursive traversal, with a memo or without |
| `LoopIsRecursion` | the answer and the memo of the loop are that outcome |
| `MemoSavesWork` | the traversal without a memo has the loop's answer, or meets the cap |
| `FinishedAcyclic` | finished objects can be ranked above what they refer to |

*Assumptions*: `DocumentsAssumption` (indices and offsets are numbers, the top
object is in range: what `Trailer::validate` and the table establish) and
`MaxParseDepthAssumption`.

*Argument*: the invariant `IInv` is the conjunction of `TypeOK`,
`NeverReentered`, `FramesLinked`, `CollectedFaithful`, `MemoFaithful` and
`DeliveredFaithful`. None is inductive alone. To close a container is to add a
solution to the memo (`FaithfulWith`), which needs that its children are the
finished values of its references, in order and all there (`CollectedFaithful`);
to keep that when a value is delivered needs that the value is the one the top
frame's last reference asked for (`DeliveredFaithful`), hence that the frames
hang together (`FramesLinked`); and that closing a container leaves the other
frames' children alone needs that no open container has a memo entry
(`NeverReentered`), for which the offset scan and the memo test are the guards.
There is one lemma per action, and `NextIInv` joins them. The refinement uses
the same invariant: `CloseContainer` and `ResolveScalar` are `Solve`,
`DeliverOut` is `Succeed`, failures are `GiveUp`, and the rest stutters.

*The recursive traversal*: a recursive function over calls is out of the prover's
reach, a relation is not. `Follows(d, c, o, D)` says that call `c` returns `o`
if the calls it makes return what the judgments in `D` say; a derivation is a set
of judgments that follow from each other, and `Returns(d, c, o)` says that one
holds `<<c, o>>`. That a call returns at most one outcome, and at least one, is
by least counterexample (`LeastNumber`): first on the number of levels the cap
leaves below a call, then on the references its list has left, so no cyclic
derivation can make up an answer. For `LoopIsRecursion`, `RecursionInv` says of
each open frame which call it is (`CallsOpen`: the memo it was entered with, the
children so far) and that whatever the innermost call returns decides what the
outermost one does (`Leads`); a step of the loop is one rule, and `DeliverOut`
and the failures, which pass through every open call, end with the outcome of the
first one. `MemoSavesWork` compares two descents whose work differs: it needs that
the value in the memo is what a traversal without a memo would find (`Settles`),
unless that one is too deep or meets an open container; the second is ruled out
because what is finished refers only to what was finished earlier, an order that
is a rank of the offsets (`RankedBy`), which is also `FinishedAcyclic`.

### The XML parser

`XmlParser_proofs` proves, for every alphabet of tokens, every length and cap:

| Theorem | Statement |
|---|---|
| `Invariance` | `Spec => []IInv` |
| `GuardsBalance` | `Spec => []DepthBalanced` |
| `MarkupInStep` | `Spec => []FramesTrackMarkup` |
| `RetryAtTheBoundary` | `Spec => []RetryOnlyBeforeRecognition` |
| `PoisonIsFinal` | `Spec => PoisonEndsReading` |
| `PendingHeld` | `Spec => []Pending`: keys are pending in dictionaries only, a failure is deferred between a boolean and the next read only |
| `OneParse` | every finite document has exactly one outcome by the recursive parse |
| `WalkerIsRecursion` | `Spec => []WalkerMatches`: the walker's answer, the tokens read and the deferred failure are that outcome |
| `OnlyOutcome` | `Spec => []WalkerAlone`: and the only one, of every document that begins with what was read |

*Assumption*: `XmlAssumption`, the two bounds are numbers. Of the tokenizer
nothing is used but `Readable`: an end tag only comes where an element is open.

*Argument*: `IInv` joins `DepthBalanced` and `RetryOnlyBeforeRecognition` with
`StepShape` (what is going on, and that before recognition there is no frame and
only the ladder's first steps), `FirstFound` (the first element has been read
exactly when one is opened or recognized), `WrappersFirst` (a `plist` frame
lies at the bottom, or a wrapper stands inside another element, which the
tokens read so far show) and `MarkupTracked`, which is `FramesTrackMarkup` made
inductive: it speaks of every moment and not only of those at which a token is
about to be read, hence of an element that is about to be opened and of a value
that leaves the wrapper at the bottom before the wrapper's End. That exception is
sound only because such a frame is the last one, which is `WrappersFirst`.
`NextOnIInv` has the step for any set of tokens offered, which is the step of the
round-trip specification too. That a loop over a body has the fields it works on
is part of `StepShape`, which `IsBody` and `IsSkip` state.

*The recursive parse*: judgments and derivations as for the binary resolver. A
document is only known as far as it was read, so everything is said of every
document `d` that begins with the input (`Begins`), and that what follows does not
matter is a result (`OnlyOutcome`). `OneParse` is by least counterexample on a
rank, the tokens that are left and then the kind of call; that a call may return
without having read anything is why the rank has a second part. In `RecursionInv`
`asked[k]` is the call that frame `k` has got as far as while it waits for a child
(`Awaits`), and `CallsCurrent` says, for each loop the walker can be in, which
call what is left of it is: in a body the call for the rest of the body at its
level, which is what `element_body` and `skip_subtree` do as one; a skipped
boolean is a body whose text nobody wants (`BooleanOf`). An error passes down
through all waiting calls (`ErrorPassed`) but through a boolean, which turns it
into a deferred failure that the next call takes as its next token. Which calls
can be reached with one deferred, and that the key of a dictionary has a
dictionary to go to, is `Pending`.

### The text parser

`TextParser_proofs` proves, for every alphabet of lexemes, every length and cap:

| Theorem | Statement |
|---|---|
| `Invariance` | `Spec => []IInv` |
| `TypeCorrect` | `Spec => []TypeOK` |
| `GuardsBalance` | `Spec => []DepthBalanced` |
| `DialectReported` | `Spec => []FormatTellsLiterals` |
| `OneParse` | every finite document has exactly one outcome by the recursive parse |
| `WalkerIsRecursion` | `Spec => []WalkerMatches`: the walker's answer, position and dialect are that outcome |
| `OnlyOutcome` | `Spec => []WalkerAlone`: and the only one, of every document that begins with what was looked at |

*Assumptions*: `TextAssumption`, the two bounds are numbers, and
`LexemesAssumption`, no literal is a string, which is what hexadecimal data and
the typed values of `parse_gnustep_value` come to.

*Argument*: `IInv` says of the stack that only the outermost frame of the second
pass is without braces and that every open dictionary but the innermost awaits a
value (`StackOK`); of the next step which frame it finds (`StepOK`); that the
counter is the number of frames, less the one without braces (`DepthOK`). The
interesting part is the dialect: the second pass starts at the first lexeme again
but keeps the dialect, so that it is what *this* pass has consumed says
(`DialectOK`) holds at the start of a second pass only because the first pass read
one string and nothing else, which cannot have changed the dialect. `FirstOK`
carries that fact from the root to the end of the first pass, and is where the
assumption on literals is used: a second pass only follows a string.

*The recursive parse* is proved as the XML one is, for every document that begins
with what was looked at. What is particular is the second pass: the call for a
document first asks for its root, and goes on with the entries of a dictionary
without braces at the first lexeme if the root was a string with something behind
it, in the dialect the first pass ended in. So a frame is entered by the root's
call in the first pass and by the document's in the second (`Entered`). The calls
at a position of the document are ranked by the lexemes left and then by their
kind; the document's own call stands outside that rank, and that it has one outcome
follows from the two calls it makes (`OneParse`).

### The binary generator

`BinaryGenerator_proofs` proves, for every set of values, whatever they are, and
every checksum:

| Theorem | Statement |
|---|---|
| `Invariance` | `Spec => []IInv` |
| `TableCorrect` | `Spec => []TableFaithful`, that is `LookupsFaithful`, `UniquedOnce` and `ContainersForward` |

*Assumptions*: none about values or checksums; `UniqueKey` is never expanded, so
the theorem holds however keys collide.

*Argument*: `LookupsFaithful` is inductive because a key is bound to the entry
appended in the same step and the table only grows (`Grows`); a boolean or UID
that rebinds its key leads to an entry with the same key. `UniquedOnce` needs
that the key of every uniqued entry is in the map, which is why it is not
appended again (`UniqueOK`). `ContainersForward` needs that open calls fill ever
later containers (`CallsOK`), because the slot of a container goes to the call
around it only when the container is closed, behind everything its parts added.

### The decoder

`Session_proofs` proves, for every set of documents, any codecs, every build and
any values an encoder may have written before:

| Theorem | Statement |
|---|---|
| `SessionInvariance` | `SessionSpec => [](IInv /\ SinkReady)` |
| `NoHoles` | `SessionSpec => []BufferedToEnd` |
| `FormatOfTheBuffer` | `SessionSpec => []FormatIsDetected` |
| `CallsAgree` | `SessionSpec => RepeatedCallsAgree` |
| `CommittedForGood` | `Spec => []Commitment` |

*Assumptions*: `DocumentsAssumption` (documents are sequences), and for
`CommittedForGood` alone `VerdictsAssumption`, which says what each codec's
errors can be of the documents; the runs check that theorem's property over
written documents as well.

*Argument*: reader and buffer are described by where they are in the document
(`ReaderInside`, `BufferInside`: behind its first n chunks, n = 0 unless a read
failed), from which a suffix of a suffix is a suffix (`FromFrom`,
`FromIsSuffix`); and `AnswerParsed` says that a value that was given is what the
ladder makes of the buffer, which with `FormatIsDetected` makes two successful
calls agree.

### The encoder

`Session_proofs` also proves, for any documents, indents, values and builds:

| Theorem | Statement |
|---|---|
| `SinkIsDocuments` | `SessionSpec => []AppendsDocuments` |

*Assumption*: `PiecesAssumption`, a document is a sequence of pieces.

*Argument*: `AppendsDocuments` speaks of cuts: how far into the sink each call
got. Only the last call can be writing, and then what is pending is the rest of
its document (`InProgress`); a new call adds a cut at the end of the sink
(`Continues`), a piece moves the last cut by one (`GoesOn`), and a failing
writer leaves the cuts alone but turns the last part into one that is a proper
beginning, which it is because something is still pending. That `pending` is
empty between calls is what keeps a failure out of the next document.

### The layout

`BinaryLayout_proofs` proves, for every set of trailers and every width of byte
and word:

| Theorem | Statement |
|---|---|
| `Invariance` | `Spec => []IInv` |
| `AcceptedSane` | `Spec => []AcceptedIsSane` |
| `ReadsInRegion` | `Spec => []ReadsStayInRegion` |

*Assumptions*: `WidthsAssumption` and `WordAssumption` (the widths are numbers,
the word is of whole bytes) and `TrailersAssumption` (a trailer's fields have
their widths, and the buffer fits into memory).

*Argument*: `ValidIsSane` goes through the checks: the two about the end of the
table meet only where the sum is exact, because the checked sum refuses one that
wraps; the shift count of the reference size may wrap, which only makes the limit
smaller; an offset width of a word or more needs no check, because the table's
own offset is a word. That powers of two grow is proved from the least
counterexample (`LeastNumber` in `Stacks`). `IInv` adds that the open list ends
at or below the table (`ListInRegion`), so that each reference of it can be read
without a check of its own.

### Serde

`Serde_proofs` proves, for any set of values and of calls, any cap, any
`Serialize` impl and any visitor:

| Theorem | Statement |
|---|---|
| `DepthCounted` | `SerdeSpec => []DepthCountsContainers` |
| `BuildersHold` | `SerdeSpec => []BuildersHoldWhatWasGiven` |
| `AccountsForParts` | `SerdeSpec => []PartsAccountedFor` |

*Assumptions*: `DeserializerAssumption`, the cap is a number. The other three
are used by `AccountsForParts` alone. `ValuesAssumption`: the sample values are
values, with the values inside of them, as Rust's types make them (`IsValue`).
`LeavesAssumption`: the payload of a leaf has the type of its method, and a text
that happens to be a sentinel date is one that is written as that date again,
which `DatesSurvive` checks of the two conversions. `OpeningsAssumption`: a
`newtype_struct` of any other name is no call of its own in the model. Nothing is
assumed of the order of calls, nor of what visitors ask for.

*Argument for the depth* (`DeIInv`, `SdIInv`): an access is one deeper than what
it was made of if that is a container, and as deep if it is not; by counting
along the accesses, each has as its depth the number of containers up to it, and
what it hands out lies at that depth. The payload of a variant is where this
could go wrong: it is one deeper than the enum, which is a container of one
entry, and a tuple or struct variant enters another; data that is visited as a
sequence adds no level and hands out numbers, which have none below them. The cap
is kept because every way in asks `Descend` first.

*Argument for the builders* (`SerIInv`): every open builder keeps its entries by
what it was given (`WellKept`), every builder but the innermost awaits a value
(`AllAwait`), and a key that awaits its value is the last thing its map was
given. `Gathers` replaces the property's set of first and last
occurrences by what a step can be shown to change: keys are unique, each entry's
value is the last one given under its key (`EntriesAreLast`) and entries stand in
the order of first values (`InFirstOrder`). A null takes the pending key away
with it, on both sides.

*Argument for the parts* (`NdIInv`, in three layers). First, what the serializer
returns is a value all the way down (`Sound`): so is what open builders hold
(`AllFilled`), and so are the values its script has yet to open (`Runs`), to
which a value contributes its calls when it comes up (`CallsRun`). Second, of
each access (`Idle`, `Awaits`): the first n parts of its container have been
handed out, the rest is what is left (`Behind`), and what the visitor has got
for each stands for that part all the way down (`Whole`), with a value for each
key but the last if the visitor asks for them, or is `Nothing` if the visitor is
one that lets go; a key is never coerced, its value
is if the access is lax. Third, along the stack (`Consistent`): what an access
was made of is what the access below is waiting for, with the same strictness,
so that whatever finishes stands for the part it was handed out for; an error
stands where a value is awaited too (`Yields`), because a type may make do
without it. `Finish` is where the parts of an array or a dictionary could get
lost, and the check for what is left closes just that gap. An enum has no such
check, so its payload is safe only with a visitor that asks for it: that is what
`PartsAccountedFor` says, and it is all that it grants to the others. All the way down is said by closed sets of pairs (`Closed`,
`AllValues`) instead of by induction over the value, and the levels of
`PartsAccountedFor` follow from the least one that would break (`LevelsWhole`).

`Serde_proofs` also proves, of `Scalars` and for every width of word:

| Theorem | Statement |
|---|---|
| `Agreement` | `Spec => []IntegersAgree` |

from `NumberAssumption`, which says that a word has twice as many patterns as it
has negative numbers: the heads share the patterns below half, and equality by
bits is equality of numbers because above half they differ in sign. The hash is
of the bits alone, so the converse does not hold of it: -1 and the largest `u64`
hash alike, as a test of the repository says.

### Only model-checked

* Termination: liveness under fairness, and ENABLED, are beyond the prover.
* The RECURSIVE operators themselves: `MatchesRecursion` of the three parsers and
  `MemoOnlySavesWork`. The prover loses its arithmetic in a module that reaches
  one. What they say is proved of the same descents given by rules
  (`LoopIsRecursion`, `MemoSavesWork`, `WalkerIsRecursion` twice); that evaluating
  the operator finds the one derivation there is, is what remains.
* The four `RoundTrip` properties: what a generator writes of a value, and what a
  parser reads of it, are recursive over the value.
* `DatesSurvive`, `BinaryDatesSettle`, `HexFloatsAreNearest`,
  `UnderscoresOnlyGroup` and `DecimalsReadBack` of `Scalars`: they compare
  functions of whole texts that are folds, whose operator argument no installed
  prover can instantiate, or rest on a model of floating point (`Double`) that is
  a choice of the run.

## Not modelled

* External code, given as parameters or as what its callers rely on: quick-xml's
  tokenizing, base64, `f64::from_str` and the shortest digits of a float, the
  calendar crate, `IndexMap`. Bytes that are not UTF-8 reach the XML parser as a
  token that fails.
* The bytes of a binary document: `BinaryGenerator` stops at the marker of each
  object, `BinaryLayout` starts with arbitrary bytes, and neither has the field
  offsets of the trailer, UTF-16 strings or the bit patterns of floats. Integer
  widths are the exception, because they decide what a number reads back as.
* Memory and time: in particular that every reference to a finished container
  clones its subtree, so that a short document can stand for a long value.
* Error messages, line and character numbers, `Debug` output.
* The infinities and NaN in text documents.
* `Value`'s accessors, `From` conversions and `Real`'s bit equality, and the
  library's surface: no state and no control of their own.

## Plan

1. *Done*: every codec in both directions with its round trip, the resolver, the
   layout, decoder and encoder and their composition, serde in both directions,
   scalars and dates.
2. *Done*: proofs of every safety invariant and action property that is stated
   without recursion over data and without folds.
3. *Done*: `PartsAccountedFor`, stated level by level instead of by recursion,
   from an invariant on how much of its container an access has consumed.
4. *Done*: that the three loops are the recursive descents they replace, restated
   by rules.
5. Left: that a `Value` comes back as itself (`RoundTrip` of serde), of which
   `AccountsForParts` is the part that needs no recursion; rules for what a
   generator writes, as there are for what a parser reads, would bring the other
   round trips within reach.
