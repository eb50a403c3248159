------------------------------- MODULE Decoder -------------------------------
(***************************************************************************)
(* Decoder and the detection ladder (src/src/de.rs): a reader that may     *)
(* fail, a buffer filled once, the format of the last parse, and which     *)
(* codec gets the bytes in a build with some of them compiled out.         *)
(*                                                                         *)
(* The bytes are a sequence of chunks; what each codec says of them is a   *)
(* parameter, constrained by what the codec's errors can be.               *)
(***************************************************************************)
EXTENDS Naturals, Sequences, SequencesExt, Stacks

CONSTANTS
  Documents,       (* sequences of chunks a reader may hold *)
  Builds,          (* the sets of codecs that may be compiled in *)
  HasMagic(_),     (* the bytes start with bplist *)
  BinaryParse(_),  (* the verdict of each codec on the bytes *)
  XmlParse(_),
  TextParse(_),
  Maps(_),         (* serde: whether the value maps into the requested type *)
  MaxFaults        (* bound: how often the reader fails *)

(* A verdict: a value with its format, or an error. *)
Ok(value, format) == [ok |-> TRUE, value |-> value, format |-> format]
Err(kind)         == [ok |-> FALSE, kind |-> kind]

Codecs == {"binary", "xml", "openstep"}

(* What each codec can answer: only the XML parser gives the retry signal, *)
(* and each reports the format it reads.                                   *)
VerdictOK(verdict, formats, kinds) ==
  IF verdict.ok THEN verdict.format \in formats ELSE verdict.kind \in kinds

ASSUME DocumentsAssumption == \A document \in Documents : IsSequence(document)

ASSUME VerdictsAssumption ==
  \A document \in Documents : \A n \in 0 .. Len(document) :
    LET bytes == SubSeq(document, n + 1, Len(document)) IN
    /\ VerdictOK(BinaryParse(bytes), {"Binary"}, {"Parse", "MaxDepthExceeded"})
    /\ VerdictOK(XmlParse(bytes), {"Xml"}, {"Parse", "MaxDepthExceeded", "InvalidPlist"})
    /\ VerdictOK(TextParse(bytes), {"OpenStep", "GnuStep"}, {"Parse", "MaxDepthExceeded"})

VARIABLES
  document,   (* what the reader holds at first *)
  features,   (* the codecs of this build *)
  rest,       (* the chunks the reader has not given yet *)
  buffer,     (* the buffered bytes: a set, {} before *)
  format,     (* the format of the last parse: a set, {} before *)
  answer,     (* what the last call returned *)
  faults      (* how often the reader has failed *)

vars == <<document, features, rest, buffer, format, answer, faults>>

-----------------------------------------------------------------------------
(***************************************************************************)
(* The rungs, and parse_auto.                                              *)
(***************************************************************************)
binary_rung(bytes, build) ==
  IF "binary" \in build THEN BinaryParse(bytes) ELSE Err("InvalidPlist")

(* A compiled-out rung gives the retry signal. *)
xml_rung(bytes, build) ==
  IF "xml" \in build THEN XmlParse(bytes) ELSE Err("InvalidPlist")

text_rung(bytes, build, retry) ==
  CASE "openstep" \in build                        -> TextParse(bytes)
    [] "openstep" \notin build /\ "xml" \in build    -> retry
    [] "openstep" \notin build /\ "xml" \notin build -> Err("FeatureDisabled")

IsRetrySignal(verdict) == ~ verdict.ok /\ verdict.kind = "InvalidPlist"

(* mutant: any failure of the XML rung falls through *)
parse_auto_eager(bytes, build) ==
  LET xml == xml_rung(bytes, build) IN
  IF HasMagic(bytes) THEN binary_rung(bytes, build)
  ELSE IF xml.ok THEN xml ELSE text_rung(bytes, build, xml)

parse_auto(bytes, build) ==
  LET xml == xml_rung(bytes, build) IN
  IF HasMagic(bytes) THEN binary_rung(bytes, build)
  ELSE IF IsRetrySignal(xml) THEN text_rung(bytes, build, xml)
  ELSE xml

(* detect: the format, or none. *)
detect(bytes, build) ==
  LET verdict == parse_auto(bytes, build) IN IF verdict.ok THEN {verdict.format} ELSE {}

-----------------------------------------------------------------------------
NoAnswer == [ok |-> FALSE, kind |-> "none"]

Init ==
  /\ document \in Documents
  /\ features \in Builds
  /\ rest = document
  /\ buffer = {} /\ format = {} /\ answer = NoAnswer
  /\ faults = 0

KeepPartial ==   (* mutant: a failed read keeps what it got *)
  /\ buffer = {}
  /\ faults < MaxFaults
  /\ \E given \in 0 .. Len(rest) :
       /\ rest' = SubSeq(rest, given + 1, Len(rest))
       /\ buffer' = {SubSeq(rest, 1, given)}
  /\ answer' = Err("Io")
  /\ faults' = faults + 1
  /\ UNCHANGED <<document, features, format>>

(* buffered, when the reader fails after giving some chunks: what it gave  *)
(* is dropped, and no later call sees it.                                  *)
ReadFails ==
  /\ buffer = {}
  /\ faults < MaxFaults
  /\ \E given \in 0 .. Len(rest) : rest' = SubSeq(rest, given + 1, Len(rest))
  /\ answer' = Err("Io")
  /\ faults' = faults + 1
  /\ UNCHANGED <<document, features, buffer, format>>

AnswersMapped(bytes, mapped) ==   (* mutant: the format is recorded after the mapping *)
  LET verdict == parse_auto(bytes, features)
      failed  == mapped /\ verdict.ok /\ ~ Maps(verdict.value)
  IN /\ format' = IF verdict.ok /\ ~ failed THEN {verdict.format} ELSE format
     /\ answer' = IF failed THEN Err("Message") ELSE verdict

(* A call on these bytes: the format is recorded before the value is       *)
(* mapped, and only if the bytes parsed.  Without serde the value is the   *)
(* answer; with it the mapping may still fail.                             *)
Answers(bytes, mapped) ==
  LET verdict == parse_auto(bytes, features)
  IN /\ format' = IF verdict.ok THEN {verdict.format} ELSE format
     /\ answer' = IF verdict.ok /\ mapped /\ ~ Maps(verdict.value)
                  THEN Err("Message") ELSE verdict

(* decode_value and decode, on the first call that reads to the end, and   *)
(* on every later one.                                                     *)
BufferAndDecode ==
  /\ buffer = {}
  /\ buffer' = {rest}
  /\ rest' = << >>
  /\ \E mapped \in BOOLEAN : Answers(rest, mapped)
  /\ UNCHANGED <<document, features, faults>>

DecodeDrained ==   (* mutant: a later call reads the reader again *)
  /\ buffer # {}
  /\ \E mapped \in BOOLEAN : Answers(rest, mapped)
  /\ UNCHANGED <<document, features, rest, buffer, faults>>

DecodeAgain ==
  /\ \E bytes \in buffer : \E mapped \in BOOLEAN : Answers(bytes, mapped)
  /\ UNCHANGED <<document, features, rest, buffer, faults>>

Next == ReadFails \/ BufferAndDecode \/ DecodeAgain

Spec == Init /\ [][Next]_vars

-----------------------------------------------------------------------------
(***************************************************************************)
(* Properties.                                                             *)
(***************************************************************************)
(* The decoder never parses a document with a hole in it: what it parses   *)
(* is what the reader held from some point to its end, and all of it       *)
(* unless the reader failed, and the reader is never asked again           *)
(* (de.rs:109-111).                                                        *)
BufferedToEnd ==
  /\ IsSuffix(rest, document)
  /\ buffer # {} => rest = << >>
  /\ \A bytes \in buffer : IsSuffix(bytes, document) /\ (faults = 0 => bytes = document)

(* format is what detect says of the buffered bytes, once any call has     *)
(* parsed them, whether or not its value could be mapped (de.rs:51-60,     *)
(* 187-192).                                                               *)
FormatIsDetected ==
  \A bytes \in buffer : format = detect(bytes, features)

(* Repeated calls agree: a second successful call gives the same value and *)
(* format as the first (de.rs:17-20).                                      *)
Agree == answer.ok /\ answer'.ok => answer' = answer
RepeatedCallsAgree == [][Agree /\ (format # {} => format' = format)]_vars

(* With every codec compiled in, the errors of builds without them are not *)
(* seen (de.rs:64-73), and bytes that announce a binary list or a          *)
(* recognized XML list are never read as text.                             *)
Commitment ==
  features = Codecs =>
    /\ ~ answer.ok => answer.kind \notin {"InvalidPlist", "FeatureDisabled"}
    /\ \A bytes \in buffer :
         HasMagic(bytes) \/ ~ IsRetrySignal(XmlParse(bytes)) =>
           format \cap {"OpenStep", "GnuStep"} = {}

(* detect, de.rs:190-192: enabling more features only turns None into Some *)
FeaturesOnlyAdd ==
  \A bytes \in buffer : \A more \in Builds :
    features \subseteq more => detect(bytes, features) \in {{}, detect(bytes, more)}

=============================================================================
