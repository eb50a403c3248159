------------------------------- MODULE Encoder -------------------------------
(***************************************************************************)
(* Encoder (src/src/ser.rs): a writer that may fail, a format, an indent   *)
(* that stays until it is changed, and calls that each append a document.  *)
(*                                                                         *)
(* A document is the sequence of pieces its generator hands to the writer; *)
(* XML and text are written while they are generated, binary is generated  *)
(* first and then written, and can be refused before.                      *)
(***************************************************************************)
EXTENDS Naturals, Sequences, SequencesExt, Stacks

CONSTANTS
  Values,            (* what calls are asked to write *)
  Targets,           (* the formats an encoder may be made for *)
  WriterBuilds,      (* the sets of codecs that may be compiled in *)
  Indents,           (* "" and others *)
  Serializes(_),     (* to_value gives a tree for the value *)
  HoldsNaN(_),       (* a container of the tree holds a NaN *)
  Pieces(_, _, _),   (* the document of a value, in a format with an indent *)
  MaxCalls           (* bound: how many calls an encoder gets *)

ASSUME PiecesAssumption ==
  \A v \in Values, f \in Targets, i \in Indents \cup {""} : IsSequence(Pieces(v, f, i))

VARIABLES
  target,    (* the encoder's format *)
  build,     (* the codecs of this build *)
  indent,    (* the encoder's indent *)
  sink,      (* what the writer has taken *)
  pending,   (* what the call in progress has still to write *)
  calls      (* every call so far: what was asked and how it went *)

encoderVars == <<target, build, indent, sink, pending, calls>>

codec(f) == CASE f = "Xml" -> "xml" [] f = "Binary" -> "binary"
              [] f \in {"OpenStep", "GnuStep"} -> "openstep"

Idle == \A n \in DOMAIN calls : calls[n].answer # "writing"

(* for_format: no indent yet. *)
EncoderInit ==
  /\ target \in Targets /\ build \in WriterBuilds
  /\ indent = ""
  /\ sink = << >> /\ pending = << >> /\ calls = << >>

set_indent ==
  /\ Idle /\ Len(calls) < MaxCalls
  /\ \E i \in Indents \ {indent} : indent' = i
  /\ UNCHANGED <<target, build, sink, pending, calls>>

(* Why a call writes nothing at all, if it does not: encode maps the value *)
(* to a tree first, and a binary document with a NaN in a container is     *)
(* refused before its first byte is written.                               *)
Refusals(v, mapped) ==
  CASE mapped /\ ~ Serializes(v)           -> {"NoRootElement"}
    [] codec(target) \notin build          -> {"FeatureDisabled"}
    [] target = "Binary" /\ HoldsNaN(v)    -> {"Message"}
    [] OTHER                               -> {}

Record(v, answer) == [value |-> v, indent |-> indent, answer |-> answer]

EncodeStreaming ==   (* mutant: a document is written until it is refused *)
  /\ Idle /\ Len(calls) < MaxCalls
  /\ \E v \in Values, mapped \in BOOLEAN :
       /\ ~ Serializes(v) => mapped
       /\ \/ /\ Refusals(v, mapped) = {}
             /\ pending' = Pieces(v, target, indent)
             /\ calls' = Append(calls, Record(v, "writing"))
             /\ UNCHANGED sink
          \/ /\ \E error \in Refusals(v, mapped) : calls' = Append(calls, Record(v, error))
             /\ sink' = IF Refusals(v, mapped) # {"Message"} THEN sink
                        ELSE sink \o << Head(Pieces(v, target, indent)) >>
             /\ UNCHANGED pending
  /\ UNCHANGED <<target, build, indent>>

(* encode and encode_value, up to the first piece. *)
Encode ==
  /\ Idle /\ Len(calls) < MaxCalls
  /\ \E v \in Values, mapped \in BOOLEAN :
       /\ ~ Serializes(v) => mapped
       /\ \/ /\ Refusals(v, mapped) = {}
             /\ pending' = Pieces(v, target, indent)
             /\ calls' = Append(calls, Record(v, "writing"))
          \/ /\ \E error \in Refusals(v, mapped) : calls' = Append(calls, Record(v, error))
             /\ UNCHANGED pending
  /\ UNCHANGED <<target, build, indent, sink>>

Finished(answer) == [calls EXCEPT ![Len(calls)].answer = answer]

(* The writer takes a piece; after the last one the call has succeeded.    *)
WritePiece ==
  /\ pending # << >>
  /\ sink' = Append(sink, Head(pending))
  /\ pending' = Tail(pending)
  /\ calls' = IF pending' = << >> THEN Finished("Ok") ELSE calls
  /\ UNCHANGED <<target, build, indent>>

(* The writer fails: the rest of the document is dropped with the          *)
(* generator, and what was taken stays taken.                              *)
WriterFails ==
  /\ pending # << >>
  /\ calls' = Finished("Io")
  /\ pending' = << >>
  /\ UNCHANGED <<target, build, indent, sink>>

EncoderNext == set_indent \/ Encode \/ WritePiece \/ WriterFails

-----------------------------------------------------------------------------
(* What a call may have added to a sink of this format, when left is still *)
(* to be written.                                                          *)
Added(call, to, left) ==
  LET document == Pieces(call.value, to, call.indent) IN
  CASE call.answer = "Ok"      -> {document}
    [] call.answer = "Io"      -> {SubSeq(document, 1, n) : n \in 0 .. Len(document) - 1}
    [] call.answer = "writing" -> {SubSeq(document, 1, Len(document) - Len(left))}
    [] OTHER                   -> {<< >>}

(* The pieces are made up of what each call may have added, one call after *)
(* the other: ends is how far each of them got.                            *)
Composed(pieces, made, to, left) ==
  \E ends \in [0 .. Len(made) -> 0 .. Len(pieces)] :
    /\ ends[0] = 0 /\ ends[Len(made)] = Len(pieces)
    /\ \A n \in 1 .. Len(made) :
         /\ ends[n - 1] <= ends[n]
         /\ SubSeq(pieces, ends[n - 1] + 1, ends[n]) \in Added(made[n], to, left)

(* The sink holds, for each call in order, the whole document at the       *)
(* indent of that time if the call succeeded, a part of it from its        *)
(* beginning if the writer failed, and nothing if the call was refused: no *)
(* failure leaks into the document of a later call (ser.rs:187-233).       *)
AppendsDocuments == Composed(sink, calls, target, pending)

=============================================================================
