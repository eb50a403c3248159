---------------------------- MODULE Session_proofs ----------------------------
(***************************************************************************)
(* Proofs about the decoder, for every set of documents, codecs with any   *)
(* verdicts, every build, and over whatever an encoder has written.        *)
(***************************************************************************)
EXTENDS Session

-----------------------------------------------------------------------------
(***************************************************************************)
(* What is left of a document behind its first n chunks.                   *)
(***************************************************************************)
From(d, n) == SubSeq(d, n + 1, Len(d))

LEMMA FromFacts ==
  ASSUME NEW d, IsSequence(d), NEW n \in 0 .. Len(d)
  PROVE  /\ IsSequence(From(d, n)) /\ Len(d) \in Nat /\ Len(From(d, n)) = Len(d) - n
         /\ \A i \in 1 .. Len(d) - n : From(d, n)[i] = d[n + i]
<1> DEFINE R == {d[k] : k \in DOMAIN d}
<1> PICK m \in Nat : m = Len(d) /\ DOMAIN d = 1 .. m
  BY SequenceFacts
<1>1. \A i \in n + 1 .. m : d[i] \in R
  OBVIOUS
<1> HIDE DEF R
<1>2. n + 1 \in Int /\ m \in Int
  OBVIOUS
<1>3. /\ SubSeq(d, n + 1, m) \in Seq(R)
      /\ Len(SubSeq(d, n + 1, m)) = IF n + 1 <= m THEN m - (n + 1) + 1 ELSE 0
      /\ \A i \in 1 .. m - (n + 1) + 1 : SubSeq(d, n + 1, m)[i] = d[(n + 1) + i - 1]
  BY <1>1, <1>2, SubSeqProperties
<1>4. From(d, n) = SubSeq(d, n + 1, m)
  BY DEF From
<1>5. Len(From(d, n)) = m - n /\ \A i \in 1 .. m - n : From(d, n)[i] = d[n + i]
  BY <1>3, <1>4
<1>6. IsSequence(From(d, n))
  BY <1>3, <1>4, SequenceOfElements
<1> QED BY <1>5, <1>6

LEMMA FromEnds ==
  ASSUME NEW d, IsSequence(d)
  PROVE  From(d, 0) = d /\ From(d, Len(d)) = << >>
<1> PICK m \in Nat : m = Len(d)
  BY SequenceFacts
<1>1. From(d, 0) = d
  BY SubSeqFull DEF From, IsSequence
<1>2. From(d, m) = << >>
  BY SubSeqEmpty DEF From
<1> QED BY <1>1, <1>2

(* Reading on from a point of a document is reading on from a later one.   *)
LEMMA FromFrom ==
  ASSUME NEW d, IsSequence(d), NEW n \in 0 .. Len(d), NEW g \in 0 .. Len(From(d, n))
  PROVE  From(From(d, n), g) = From(d, n + g) /\ n + g \in 0 .. Len(d)
<1> DEFINE r == From(d, n)
           s == From(r, g)
           t == From(d, n + g)
<1>1. /\ IsSequence(r) /\ Len(d) \in Nat /\ Len(r) = Len(d) - n
      /\ \A i \in 1 .. Len(d) - n : r[i] = d[n + i]
  BY FromFacts
<1>2. n + g \in 0 .. Len(d)
  BY <1>1
<1>3. /\ IsSequence(s) /\ Len(s) = Len(r) - g
      /\ \A i \in 1 .. Len(r) - g : s[i] = r[g + i]
  BY <1>1, FromFacts
<1>4. /\ IsSequence(t) /\ Len(t) = Len(d) - (n + g)
      /\ \A i \in 1 .. Len(d) - (n + g) : t[i] = d[(n + g) + i]
  BY <1>2, FromFacts
<1> HIDE DEF r, s, t
<1>5. Len(s) = Len(t) /\ \A i \in 1 .. Len(s) : s[i] = t[i]
  BY <1>1, <1>3, <1>4
<1>6. s = t
  <2> DEFINE R == {s[k] : k \in DOMAIN s} \cup {t[k] : k \in DOMAIN t}
  <2>1. s \in Seq(R) /\ t \in Seq(R)
    BY <1>3, <1>4, SeqMonotonic DEF IsSequence
  <2> HIDE DEF R
  <2> QED BY <1>5, <2>1, SeqEqual
<1> QED BY <1>2, <1>6 DEF r, s, t

LEMMA ReverseFacts ==
  ASSUME NEW s, IsSequence(s)
  PROVE  /\ IsSequence(Reverse(s)) /\ Len(Reverse(s)) = Len(s) /\ Len(s) \in Nat
         /\ \A i \in 1 .. Len(s) : Reverse(s)[i] = s[(Len(s) - i) + 1]
<1> DEFINE R == {s[k] : k \in DOMAIN s}
<1> PICK m \in Nat : m = Len(s) /\ DOMAIN s = 1 .. m
  BY SequenceFacts
<1>1. Reverse(s) = [i \in 1 .. m |-> s[(m - i) + 1]]
  BY DEF Reverse
<1>2. \A i \in 1 .. m : s[(m - i) + 1] \in R
  OBVIOUS
<1> HIDE DEF R
<1>3. [i \in 1 .. m |-> s[(m - i) + 1]] \in Seq(R) /\ Len([i \in 1 .. m |-> s[(m - i) + 1]]) = m
  BY <1>2, IsASeq
<1>4. IsSequence(Reverse(s)) /\ Len(Reverse(s)) = m
  BY <1>1, <1>3, SequenceOfElements
<1> QED BY <1>1, <1>4

LEMMA FromIsSuffix ==
  ASSUME NEW d, IsSequence(d), NEW n \in 0 .. Len(d)
  PROVE  IsSuffix(From(d, n), d)
<1>1. /\ IsSequence(From(d, n)) /\ Len(d) \in Nat /\ Len(From(d, n)) = Len(d) - n
      /\ \A i \in 1 .. Len(d) - n : From(d, n)[i] = d[n + i]
  BY FromFacts
<1> PICK m \in Nat : m = Len(d)
  BY <1>1
<1> PICK f : f = From(d, n)
  OBVIOUS
<1> PICK r : r = Reverse(f)
  OBVIOUS
<1> PICK t : t = Reverse(d)
  OBVIOUS
<1>2. /\ IsSequence(r) /\ Len(r) = m - n
      /\ \A i \in 1 .. m - n : r[i] = f[((m - n) - i) + 1]
  <2>1. IsSequence(f) /\ Len(f) = m - n
    BY <1>1
  <2> QED BY <2>1, ReverseFacts
<1>3. IsSequence(t) /\ Len(t) = m /\ \A i \in 1 .. m : t[i] = d[(m - i) + 1]
  BY <1>1, ReverseFacts
<1>4. ASSUME NEW i \in 1 .. m - n PROVE r[i] = t[i]
  <2>1. ((m - n) - i) + 1 \in 1 .. m - n
    OBVIOUS
  <2>2. r[i] = d[n + (((m - n) - i) + 1)]
    BY <1>1, <1>2, <2>1
  <2>3. n + (((m - n) - i) + 1) = (m - i) + 1 /\ i \in 1 .. m
    OBVIOUS
  <2> QED BY <1>3, <2>2, <2>3
<1>5. SubSeq(r, 1, m - n) = SubSeq(t, 1, m - n)
  <2> DEFINE S == {r[k] : k \in 1 .. m - n}
  <2>1. \A i \in 1 .. m - n : r[i] \in S /\ t[i] \in S
    BY <1>4
  <2> HIDE DEF S
  <2>2. 1 \in Int /\ m - n \in Int
    OBVIOUS
  <2>3. /\ SubSeq(r, 1, m - n) \in Seq(S)
        /\ Len(SubSeq(r, 1, m - n)) = IF 1 <= m - n THEN (m - n) - 1 + 1 ELSE 0
        /\ \A i \in 1 .. (m - n) - 1 + 1 : SubSeq(r, 1, m - n)[i] = r[1 + i - 1]
    BY <2>1, <2>2, SubSeqProperties
  <2>4. /\ SubSeq(t, 1, m - n) \in Seq(S)
        /\ Len(SubSeq(t, 1, m - n)) = IF 1 <= m - n THEN (m - n) - 1 + 1 ELSE 0
        /\ \A i \in 1 .. (m - n) - 1 + 1 : SubSeq(t, 1, m - n)[i] = t[1 + i - 1]
    BY <2>1, <2>2, SubSeqProperties
  <2>5. Len(SubSeq(r, 1, m - n)) = m - n /\ Len(SubSeq(t, 1, m - n)) = m - n
    BY <2>3, <2>4
  <2>6. \A i \in 1 .. m - n : SubSeq(r, 1, m - n)[i] = SubSeq(t, 1, m - n)[i]
    BY <1>4, <2>3, <2>4
  <2> QED BY <2>3, <2>4, <2>5, <2>6, SeqEqual
<1>6. Len(r) <= Len(t)
  BY <1>2, <1>3
<1> QED BY <1>2, <1>5, <1>6 DEF IsSuffix, IsPrefix

-----------------------------------------------------------------------------
(***************************************************************************)
(* The inductive invariant.                                                *)
(***************************************************************************)
(* The reader is somewhere in the document, at its beginning unless it     *)
(* failed; what was buffered is all behind some such point.                *)
ReaderInside ==
  /\ IsSequence(document)
  /\ \E n \in 0 .. Len(document) : rest = From(document, n)
  /\ faults \in Nat
  /\ buffer = {} /\ faults = 0 => rest = document

BufferInside ==
  /\ buffer = {} \/ \E bytes : buffer = {bytes}
  /\ buffer # {} => rest = << >>
  /\ \A bytes \in buffer :
       /\ \E n \in 0 .. Len(document) : bytes = From(document, n)
       /\ faults = 0 => bytes = document

(* A value that was given is what the ladder makes of the buffer.          *)
AnswerParsed ==
  /\ buffer = {} => format = {} /\ ~ answer.ok
  /\ \A bytes \in buffer : answer.ok => answer = parse_auto(bytes, features)

IInv == ReaderInside /\ BufferInside /\ AnswerParsed /\ FormatIsDetected

(* While an encoder writes, nothing has been read.                         *)
SinkReady ==
  /\ IsSequence(sink)
  /\ phase = "writing" => buffer = {} /\ faults = 0

LEMMA InitIInv == Init => IInv
<1> SUFFICES ASSUME Init PROVE IInv
  OBVIOUS
<1>1. /\ document \in Documents /\ rest = document
      /\ buffer = {} /\ format = {} /\ answer = NoAnswer /\ faults = 0
  BY DEF Init
<1>2. IsSequence(document)
  BY <1>1, DocumentsAssumption
<1>3. 0 \in 0 .. Len(document) /\ rest = From(document, 0)
  BY <1>1, <1>2, SequenceFacts, FromEnds
<1>4. ReaderInside
  BY <1>1, <1>2, <1>3 DEF ReaderInside
<1>5. BufferInside /\ FormatIsDetected
  BY <1>1 DEF BufferInside, FormatIsDetected
<1>6. AnswerParsed
  BY <1>1 DEF AnswerParsed, NoAnswer
<1> QED BY <1>4, <1>5, <1>6 DEF IInv

LEMMA ReadFailsIInv ==
  ASSUME IInv, ReadFails
  PROVE  IInv'
<1>1. /\ buffer = {} /\ buffer' = {} /\ faults' = faults + 1 /\ answer' = Err("Io")
      /\ document' = document /\ format' = format
  BY DEF ReadFails
<1> PICK n \in 0 .. Len(document) : rest = From(document, n)
  BY DEF IInv, ReaderInside
<1> PICK g \in 0 .. Len(rest) : rest' = From(rest, g)
  BY DEF ReadFails, From
<1>2. rest' = From(document, n + g) /\ n + g \in 0 .. Len(document)
  BY FromFrom DEF IInv, ReaderInside
<1>3. ReaderInside'
  <2>1. IsSequence(document') /\ faults' \in Nat /\ faults' # 0
    BY <1>1 DEF IInv, ReaderInside
  <2>2. \E k \in 0 .. Len(document') : rest' = From(document', k)
    BY <1>1, <1>2
  <2> QED BY <2>1, <2>2 DEF ReaderInside
<1>4. BufferInside' /\ FormatIsDetected'
  BY <1>1 DEF BufferInside, FormatIsDetected
<1>5. AnswerParsed'
  BY <1>1 DEF AnswerParsed, IInv, Err
<1> QED BY <1>3, <1>4, <1>5 DEF IInv

(* A call on the buffer leaves the format and a value as they are.         *)
LEMMA AnswersFacts ==
  ASSUME NEW bytes, NEW mapped, Answers(bytes, mapped), features' = features,
         format = {} \/ format = detect(bytes, features)
  PROVE  /\ format' = detect(bytes, features')
         /\ answer'.ok => answer' = parse_auto(bytes, features')
<1> PICK verdict : verdict = parse_auto(bytes, features)
  OBVIOUS
<1>1. /\ format' = IF verdict.ok THEN {verdict.format} ELSE format
      /\ answer' = IF verdict.ok /\ mapped /\ ~ Maps(verdict.value) THEN Err("Message") ELSE verdict
  BY DEF Answers
<1>2. detect(bytes, features) = IF verdict.ok THEN {verdict.format} ELSE {}
  BY DEF detect
<1>3. ~ Err("Message").ok
  BY DEF Err
<1>4. format' = detect(bytes, features)
  BY <1>1, <1>2
<1>5. answer'.ok => answer' = verdict
  BY <1>1, <1>3
<1> QED BY <1>4, <1>5

LEMMA BufferAndDecodeIInv ==
  ASSUME IInv, BufferAndDecode
  PROVE  IInv'
<1>1. /\ buffer = {} /\ buffer' = {rest} /\ rest' = << >>
      /\ document' = document /\ features' = features /\ faults' = faults
  BY DEF BufferAndDecode
<1> PICK mapped \in BOOLEAN : Answers(rest, mapped)
  BY DEF BufferAndDecode
<1>2. format = {}
  BY <1>1 DEF IInv, AnswerParsed
<1>3. format' = detect(rest, features') /\ (answer'.ok => answer' = parse_auto(rest, features'))
  BY <1>1, <1>2, AnswersFacts
<1>4. ReaderInside'
  <2>1. rest' = From(document, Len(document)) /\ Len(document) \in 0 .. Len(document)
    BY <1>1, FromEnds, SequenceFacts DEF IInv, ReaderInside
  <2>2. IsSequence(document') /\ faults' \in Nat /\ buffer' # {}
    BY <1>1 DEF IInv, ReaderInside
  <2>3. \E k \in 0 .. Len(document') : rest' = From(document', k)
    BY <1>1, <2>1
  <2> QED BY <2>2, <2>3 DEF ReaderInside
<1>5. BufferInside'
  <2>1. \E n \in 0 .. Len(document) : rest = From(document, n)
    BY DEF IInv, ReaderInside
  <2>2. faults = 0 => rest = document
    BY <1>1 DEF IInv, ReaderInside
  <2> QED BY <1>1, <2>1, <2>2 DEF BufferInside
<1>6. AnswerParsed' /\ FormatIsDetected'
  BY <1>1, <1>3 DEF AnswerParsed, FormatIsDetected
<1> QED BY <1>4, <1>5, <1>6 DEF IInv

LEMMA DecodeAgainIInv ==
  ASSUME IInv, DecodeAgain
  PROVE  /\ IInv' /\ buffer # {}
         /\ features' = features /\ buffer' = buffer
<1>1. UNCHANGED <<document, features, rest, buffer, faults>>
  BY DEF DecodeAgain
<1> PICK bytes \in buffer, mapped \in BOOLEAN : Answers(bytes, mapped)
  BY DEF DecodeAgain
<1>2. buffer = {bytes} /\ format = detect(bytes, features)
  BY DEF IInv, BufferInside, FormatIsDetected
<1>3. format' = detect(bytes, features') /\ (answer'.ok => answer' = parse_auto(bytes, features'))
  BY <1>1, <1>2, AnswersFacts
<1>4. AnswerParsed' /\ FormatIsDetected'
  BY <1>1, <1>2, <1>3 DEF AnswerParsed, FormatIsDetected
<1>5. ReaderInside' /\ BufferInside'
  BY <1>1 DEF IInv, ReaderInside, BufferInside
<1> QED BY <1>1, <1>2, <1>4, <1>5 DEF IInv

LEMMA UnchangedIInv ==
  ASSUME IInv, UNCHANGED vars
  PROVE  IInv'
<1>1. UNCHANGED <<document, features, rest, buffer, format, answer, faults>>
  BY DEF vars
<1> QED BY <1>1 DEF IInv, ReaderInside, BufferInside, AnswerParsed, FormatIsDetected

LEMMA NextIInv ==
  ASSUME IInv, [Next]_vars
  PROVE  IInv'
BY ReadFailsIInv, BufferAndDecodeIInv, DecodeAgainIInv, UnchangedIInv DEF Next

-----------------------------------------------------------------------------
(***************************************************************************)
(* An encoder, and then a decoder over what it wrote.                      *)
(***************************************************************************)
LEMMA SessionInitIInv == SessionInit => IInv /\ SinkReady
<1> SUFFICES ASSUME SessionInit PROVE IInv /\ SinkReady
  OBVIOUS
<1>1. IsSequence(<< >>) /\ Len(<< >>) = 0
  <2>1. << >> \in Seq({}) /\ Len(<< >>) = 0
    BY EmptySeq
  <2> QED BY <2>1, SequenceOfElements
<1>2. SinkReady
  BY <1>1 DEF SessionInit, EncoderInit, SinkReady
<1>3. CASE Init
  BY <1>2, <1>3, InitIInv
<1>4. CASE /\ document = << >> /\ rest = << >>
           /\ buffer = {} /\ format = {} /\ answer = NoAnswer /\ faults = 0
  <2>1. 0 \in 0 .. Len(document) /\ rest = From(document, 0)
    BY <1>1, <1>4, FromEnds
  <2>2. ReaderInside
    BY <1>1, <1>4, <2>1 DEF ReaderInside
  <2>3. BufferInside /\ FormatIsDetected
    BY <1>4 DEF BufferInside, FormatIsDetected
  <2>4. AnswerParsed
    BY <1>4 DEF AnswerParsed, NoAnswer
  <2> QED BY <1>2, <2>2, <2>3, <2>4 DEF IInv
<1> QED BY <1>3, <1>4 DEF SessionInit

LEMMA WriteIInv ==
  ASSUME IInv, SinkReady, Write
  PROVE  IInv' /\ SinkReady' /\ UNCHANGED vars
<1>1. UNCHANGED vars /\ phase' = phase /\ EncoderNext
  BY DEF Write
<1>2. IInv'
  BY <1>1, UnchangedIInv
<1>3. IsSequence(sink')
  <2>1. CASE WritePiece
    <3>1. sink' = Extended(sink, Head(pending))
      BY <2>1 DEF WritePiece, Extended
    <3> QED BY <3>1, AppendSequence DEF SinkReady
  <2>2. CASE set_indent \/ Encode \/ WriterFails
    <3>1. sink' = sink
      BY <2>2 DEF set_indent, Encode, WriterFails
    <3> QED BY <3>1 DEF SinkReady
  <2> QED BY <1>1, <2>1, <2>2 DEF EncoderNext
<1>4. buffer' = buffer /\ faults' = faults
  BY <1>1 DEF vars
<1>5. SinkReady'
  BY <1>1, <1>3, <1>4 DEF SinkReady
<1> QED BY <1>1, <1>2, <1>5

LEMMA OpenIInv ==
  ASSUME IInv, SinkReady, Open
  PROVE  IInv' /\ SinkReady' /\ UNCHANGED <<format, answer>>
<1>1. /\ phase = "writing" /\ phase' = "reading" /\ document' = sink /\ rest' = sink /\ sink' = sink
      /\ UNCHANGED <<buffer, format, answer, faults>>
  BY DEF Open, encoderVars
<1>2. buffer' = {} /\ faults' = 0 /\ IsSequence(sink)
  BY <1>1 DEF SinkReady
<1>3. 0 \in 0 .. Len(document') /\ rest' = From(document', 0)
  BY <1>1, <1>2, SequenceFacts, FromEnds
<1>4. ReaderInside'
  BY <1>1, <1>2, <1>3 DEF ReaderInside
<1>5. BufferInside' /\ FormatIsDetected'
  BY <1>2 DEF BufferInside, FormatIsDetected
<1>6. AnswerParsed'
  BY <1>1, <1>2 DEF IInv, AnswerParsed
<1>7. SinkReady'
  BY <1>1, <1>2 DEF SinkReady
<1> QED BY <1>1, <1>4, <1>5, <1>6, <1>7 DEF IInv

LEMMA SessionNextIInv ==
  ASSUME IInv, SinkReady, [SessionNext]_sessionVars
  PROVE  IInv' /\ SinkReady'
<1>1. CASE Write
  BY <1>1, WriteIInv
<1>2. CASE Open
  BY <1>2, OpenIInv
<1>3. CASE Read
  <2>1. Next /\ phase = "reading" /\ phase' = phase /\ sink' = sink
    BY <1>3 DEF Read, encoderVars
  <2> QED BY <2>1, NextIInv DEF SinkReady
<1>4. CASE UNCHANGED sessionVars
  <2>1. UNCHANGED vars /\ UNCHANGED <<sink, phase>>
    BY <1>4 DEF sessionVars, encoderVars
  <2>2. buffer' = buffer /\ faults' = faults
    BY <2>1 DEF vars
  <2> QED BY <2>1, <2>2, UnchangedIInv DEF SinkReady
<1> QED BY <1>1, <1>2, <1>3, <1>4 DEF SessionNext

-----------------------------------------------------------------------------
(***************************************************************************)
(* Theorems.                                                               *)
(***************************************************************************)
(* Whatever is read, written and opened, the decoder keeps the invariant   *)
(* (de.rs:34-119).                                                         *)
THEOREM SessionInvariance == SessionSpec => [](IInv /\ SinkReady)
<1>1. SessionInit => IInv /\ SinkReady
  BY SessionInitIInv
<1>2. (IInv /\ SinkReady) /\ [SessionNext]_sessionVars => (IInv /\ SinkReady)'
  BY SessionNextIInv
<1> QED BY <1>1, <1>2, PTL DEF SessionSpec

(* A decoder parses a document without a hole: what the reader held from   *)
(* some point to its end, and all of it if the reader never failed         *)
(* (de.rs:109-119).                                                        *)
THEOREM NoHoles == SessionSpec => []BufferedToEnd
<1>1. IInv => BufferedToEnd
  <2> SUFFICES ASSUME IInv PROVE BufferedToEnd
    OBVIOUS
  <2>1. IsSequence(document)
    BY DEF IInv, ReaderInside
  <2>2. IsSuffix(rest, document)
    BY <2>1, FromIsSuffix DEF IInv, ReaderInside
  <2>3. ASSUME NEW bytes \in buffer
        PROVE  IsSuffix(bytes, document) /\ (faults = 0 => bytes = document)
    BY <2>1, FromIsSuffix DEF IInv, BufferInside
  <2>4. buffer # {} => rest = << >>
    BY DEF IInv, BufferInside
  <2> QED BY <2>2, <2>3, <2>4 DEF BufferedToEnd
<1> QED BY <1>1, SessionInvariance, PTL

(* The format is the buffer's, whether or not a value could be mapped      *)
(* (de.rs:51-60).                                                          *)
THEOREM FormatOfTheBuffer == SessionSpec => []FormatIsDetected
<1>1. IInv => FormatIsDetected
  BY DEF IInv
<1> QED BY <1>1, SessionInvariance, PTL

(* Two successful calls give the same value and the same format            *)
(* (de.rs:17-20).                                                          *)
THEOREM CallsAgree == SessionSpec => RepeatedCallsAgree
<1> DEFINE Same == Agree /\ (format # {} => format' = format)
<1>1. ASSUME IInv, Read PROVE Same
  <2>1. CASE ReadFails \/ BufferAndDecode
    <3>1. buffer = {}
      BY <2>1 DEF ReadFails, BufferAndDecode
    <3>2. format = {} /\ ~ answer.ok
      BY <1>1, <3>1 DEF IInv, AnswerParsed
    <3> QED BY <3>2 DEF Agree
  <2>2. CASE DecodeAgain
    <3>1. IInv' /\ buffer # {} /\ features' = features /\ buffer' = buffer
      BY <1>1, <2>2, DecodeAgainIInv
    <3> PICK bytes \in buffer : TRUE
      BY <3>1
    <3>2. format = detect(bytes, features) /\ (answer.ok => answer = parse_auto(bytes, features))
      BY <1>1 DEF IInv, AnswerParsed, FormatIsDetected
    <3>3. format' = detect(bytes, features') /\ (answer'.ok => answer' = parse_auto(bytes, features'))
      BY <3>1 DEF IInv, AnswerParsed, FormatIsDetected
    <3>4. format' = format /\ Agree
      BY <3>1, <3>2, <3>3 DEF Agree
    <3> QED BY <3>4
  <2> QED BY <1>1, <2>1, <2>2 DEF Read, Next
<1>2. ASSUME IInv, SinkReady, [SessionNext]_sessionVars PROVE [Same]_vars
  <2>1. CASE Write
    BY <1>2, <2>1, WriteIInv
  <2>2. CASE Open
    BY <1>2, <2>2, OpenIInv DEF Agree
  <2>3. CASE Read
    BY <1>1, <1>2, <2>3
  <2>4. CASE UNCHANGED sessionVars
    BY <2>4 DEF sessionVars
  <2> QED BY <1>2, <2>1, <2>2, <2>3, <2>4 DEF SessionNext
<1>3. (IInv /\ SinkReady) /\ [SessionNext]_sessionVars => [Same]_vars
  BY <1>2
<1> QED BY <1>3, SessionInvariance, PTL DEF SessionSpec, RepeatedCallsAgree

(* What the ladder answers when every codec is there.                      *)
LEMMA FullLadder ==
  ASSUME document \in Documents, NEW n \in 0 .. Len(document), NEW bytes, bytes = From(document, n)
  PROVE  LET verdict == parse_auto(bytes, Codecs) IN
         /\ ~ verdict.ok => verdict.kind \in {"Parse", "MaxDepthExceeded"}
         /\ verdict.ok /\ (HasMagic(bytes) \/ ~ IsRetrySignal(XmlParse(bytes))) => verdict.format \in {"Binary", "Xml"}
<1> PICK verdict : verdict = parse_auto(bytes, Codecs)
  OBVIOUS
<1>1. /\ VerdictOK(BinaryParse(bytes), {"Binary"}, {"Parse", "MaxDepthExceeded"})
      /\ VerdictOK(XmlParse(bytes), {"Xml"}, {"Parse", "MaxDepthExceeded", "InvalidPlist"})
      /\ VerdictOK(TextParse(bytes), {"OpenStep", "GnuStep"}, {"Parse", "MaxDepthExceeded"})
  BY VerdictsAssumption DEF From
<1>2. verdict = IF HasMagic(bytes) THEN BinaryParse(bytes)
                ELSE IF IsRetrySignal(XmlParse(bytes)) THEN TextParse(bytes) ELSE XmlParse(bytes)
  BY DEF parse_auto, binary_rung, xml_rung, text_rung, Codecs
<1>3. CASE HasMagic(bytes)
  BY <1>1, <1>2, <1>3 DEF VerdictOK
<1>4. CASE ~ HasMagic(bytes) /\ IsRetrySignal(XmlParse(bytes))
  BY <1>1, <1>2, <1>4 DEF VerdictOK
<1>5. CASE ~ HasMagic(bytes) /\ ~ IsRetrySignal(XmlParse(bytes))
  BY <1>1, <1>2, <1>5 DEF VerdictOK, IsRetrySignal
<1> QED BY <1>3, <1>4, <1>5

(* The errors a caller of a full build may see.                            *)
NoBuildErrors ==
  /\ document \in Documents
  /\ features = Codecs /\ ~ answer.ok => answer.kind \notin {"InvalidPlist", "FeatureDisabled"}

LEMMA AnswersErrors ==
  ASSUME NoBuildErrors, NEW n \in 0 .. Len(document), NEW bytes, bytes = From(document, n),
         NEW mapped, Answers(bytes, mapped), UNCHANGED <<document, features>>
  PROVE  NoBuildErrors'
<1> PICK verdict : verdict = parse_auto(bytes, features)
  OBVIOUS
<1>1. answer' = IF verdict.ok /\ mapped /\ ~ Maps(verdict.value) THEN Err("Message") ELSE verdict
  BY DEF Answers
<1>2. features = Codecs /\ ~ verdict.ok => verdict.kind \in {"Parse", "MaxDepthExceeded"}
  BY FullLadder DEF NoBuildErrors
<1>3. Err("Message").kind = "Message"
  BY DEF Err
<1> QED BY <1>1, <1>2, <1>3 DEF NoBuildErrors

(* A full build never names a codec it lacks and never reads recognized    *)
(* bytes as text (de.rs:64-73, 134-182).                                   *)
THEOREM CommittedForGood == Spec => []Commitment
<1>1. Init => IInv /\ NoBuildErrors
  <2>1. Init => NoBuildErrors
    BY DEF Init, NoBuildErrors, NoAnswer
  <2> QED BY <2>1, InitIInv
<1>2. (IInv /\ NoBuildErrors) /\ [Next]_vars => (IInv /\ NoBuildErrors)'
  <2> SUFFICES ASSUME IInv, NoBuildErrors, [Next]_vars PROVE NoBuildErrors'
    BY NextIInv
  <2>1. CASE ReadFails
    BY <2>1 DEF ReadFails, NoBuildErrors, Err
  <2>2. CASE BufferAndDecode
    <3>1. UNCHANGED <<document, features>> /\ \E mapped \in BOOLEAN : Answers(rest, mapped)
      BY <2>2 DEF BufferAndDecode
    <3>2. \E n \in 0 .. Len(document) : rest = From(document, n)
      BY DEF IInv, ReaderInside
    <3> QED BY <3>1, <3>2, AnswersErrors
  <2>3. CASE DecodeAgain
    <3>1. UNCHANGED <<document, features>> /\ \E bytes \in buffer, mapped \in BOOLEAN : Answers(bytes, mapped)
      BY <2>3 DEF DecodeAgain
    <3>2. \A bytes \in buffer : \E n \in 0 .. Len(document) : bytes = From(document, n)
      BY DEF IInv, BufferInside
    <3> QED BY <3>1, <3>2, AnswersErrors
  <2>4. CASE UNCHANGED vars
    BY <2>4 DEF vars, NoBuildErrors
  <2> QED BY <2>1, <2>2, <2>3, <2>4 DEF Next
<1>3. IInv /\ NoBuildErrors => Commitment
  <2> SUFFICES ASSUME IInv, NoBuildErrors, features = Codecs, NEW bytes \in buffer,
                      HasMagic(bytes) \/ ~ IsRetrySignal(XmlParse(bytes))
               PROVE  format \cap {"OpenStep", "GnuStep"} = {}
    BY DEF Commitment, NoBuildErrors
  <2> PICK n \in 0 .. Len(document) : bytes = From(document, n)
    BY DEF IInv, BufferInside
  <2> PICK verdict : verdict = parse_auto(bytes, Codecs)
    OBVIOUS
  <2>1. verdict.ok => verdict.format \in {"Binary", "Xml"}
    BY FullLadder DEF NoBuildErrors
  <2>2. format = IF verdict.ok THEN {verdict.format} ELSE {}
    BY DEF IInv, FormatIsDetected, detect
  <2> QED BY <2>1, <2>2
<1> QED BY <1>1, <1>2, <1>3, PTL DEF Spec

-----------------------------------------------------------------------------
(***************************************************************************)
(* The encoder: what its sink is made up of.                               *)
(***************************************************************************)
LEMMA SliceFacts ==
  ASSUME NEW s, IsSequence(s), NEW a \in Nat, NEW b \in Nat, a <= b, b <= Len(s)
  PROVE  /\ IsSequence(SubSeq(s, a + 1, b)) /\ Len(SubSeq(s, a + 1, b)) = b - a
         /\ \A i \in 1 .. b - a : SubSeq(s, a + 1, b)[i] = s[a + i]
<1> DEFINE R == {s[k] : k \in DOMAIN s}
<1> PICK m \in Nat : m = Len(s) /\ DOMAIN s = 1 .. m
  BY SequenceFacts
<1>1. \A i \in a + 1 .. b : s[i] \in R
  OBVIOUS
<1> HIDE DEF R
<1>2. a + 1 \in Int /\ b \in Int
  OBVIOUS
<1>3. /\ SubSeq(s, a + 1, b) \in Seq(R)
      /\ Len(SubSeq(s, a + 1, b)) = IF a + 1 <= b THEN b - (a + 1) + 1 ELSE 0
      /\ \A i \in 1 .. b - (a + 1) + 1 : SubSeq(s, a + 1, b)[i] = s[(a + 1) + i - 1]
  BY <1>1, <1>2, SubSeqProperties
<1>4. IsSequence(SubSeq(s, a + 1, b))
  BY <1>3, SequenceOfElements
<1> QED BY <1>3, <1>4

LEMMA PrefixFacts ==
  ASSUME NEW s, IsSequence(s), NEW b \in 0 .. Len(s)
  PROVE  /\ IsSequence(SubSeq(s, 1, b)) /\ Len(SubSeq(s, 1, b)) = b
         /\ \A i \in 1 .. b : SubSeq(s, 1, b)[i] = s[i]
<1> PICK m \in Nat : m = Len(s)
  BY SequenceFacts
<1> PICK z \in Nat : z = 0
  OBVIOUS
<1>1. /\ IsSequence(SubSeq(s, z + 1, b)) /\ Len(SubSeq(s, z + 1, b)) = b - z
      /\ \A i \in 1 .. b - z : SubSeq(s, z + 1, b)[i] = s[z + i]
  <2>1. z <= b /\ b <= m /\ b \in Nat
    OBVIOUS
  <2> QED BY <2>1, SliceFacts
<1>2. z + 1 = 1 /\ b - z = b /\ \A i \in 1 .. b : z + i = i
  OBVIOUS
<1> QED BY <1>1, <1>2

LEMMA SameSequence ==
  ASSUME NEW s, NEW t, IsSequence(s), IsSequence(t), Len(s) = Len(t),
         \A i \in 1 .. Len(s) : s[i] = t[i]
  PROVE  s = t
<1> DEFINE R == {s[k] : k \in DOMAIN s} \cup {t[k] : k \in DOMAIN t}
<1>1. s \in Seq(R) /\ t \in Seq(R)
  BY SeqMonotonic DEF IsSequence
<1> HIDE DEF R
<1> QED BY <1>1, SeqEqual

(* A slice of what a sequence was extended to is one of the sequence.      *)
LEMMA SliceOfPrefix ==
  ASSUME NEW s, IsSequence(s), NEW t, IsSequence(t), Len(s) <= Len(t),
         \A i \in 1 .. Len(s) : t[i] = s[i],
         NEW a \in Nat, NEW b \in Nat, a <= b, b <= Len(s)
  PROVE  SubSeq(t, a + 1, b) = SubSeq(s, a + 1, b)
<1> PICK m \in Nat, n \in Nat : m = Len(s) /\ n = Len(t)
  BY SequenceFacts
<1>1. /\ IsSequence(SubSeq(s, a + 1, b)) /\ Len(SubSeq(s, a + 1, b)) = b - a
      /\ \A i \in 1 .. b - a : SubSeq(s, a + 1, b)[i] = s[a + i]
  BY SliceFacts
<1>2. /\ IsSequence(SubSeq(t, a + 1, b)) /\ Len(SubSeq(t, a + 1, b)) = b - a
      /\ \A i \in 1 .. b - a : SubSeq(t, a + 1, b)[i] = t[a + i]
  <2>1. b <= n
    OBVIOUS
  <2> QED BY <2>1, SliceFacts
<1>3. \A i \in 1 .. b - a : SubSeq(t, a + 1, b)[i] = SubSeq(s, a + 1, b)[i]
  <2>1. \A i \in 1 .. b - a : a + i \in 1 .. m
    OBVIOUS
  <2> QED BY <1>1, <1>2, <2>1
<1> QED BY <1>1, <1>2, <1>3, SameSequence

Written(call) == call.answer # "writing"

LEMMA AddedByOthers ==
  ASSUME NEW call, Written(call), NEW to, NEW left, NEW rest1
  PROVE  Added(call, to, left) = Added(call, to, rest1)
  BY DEF Written, Added

(* A call that has not written anything yet. *)
LEMMA ComposedWithMore ==
  ASSUME NEW s, IsSequence(s), NEW made, IsSequence(made), NEW to, NEW left, NEW call, NEW more,
         Composed(s, made, to, left),
         \A n \in 1 .. Len(made) : Written(made[n]),
         << >> \in Added(call, to, more)
  PROVE  Composed(s, Extended(made, call), to, more)
<1> DEFINE c == Extended(made, call)
<1> PICK m \in Nat, n \in Nat : m = Len(s) /\ n = Len(made)
  BY SequenceFacts
<1>1. PICK ends \in [0 .. n -> 0 .. m] :
        /\ ends[0] = 0 /\ ends[n] = m
        /\ \A k \in 1 .. n : /\ ends[k - 1] <= ends[k]
                             /\ SubSeq(s, ends[k - 1] + 1, ends[k]) \in Added(made[k], to, left)
  BY DEF Composed
<1>2. Len(c) = n + 1 /\ c[n + 1] = call /\ \A k \in 1 .. n : c[k] = made[k]
  BY AppendSequence
<1> HIDE DEF c
<1>3. PICK e : e = [k \in 0 .. n + 1 |-> IF k = n + 1 THEN m ELSE ends[k]]
  OBVIOUS
<1>4. /\ e \in [0 .. n + 1 -> 0 .. m] /\ e[n + 1] = m /\ e[n] = m /\ e[0] = 0
      /\ \A k \in 1 .. n : e[k] = ends[k] /\ e[k - 1] = ends[k - 1]
  BY <1>1, <1>3
<1>5. ASSUME NEW k \in 1 .. n + 1
      PROVE  e[k - 1] <= e[k] /\ SubSeq(s, e[k - 1] + 1, e[k]) \in Added(c[k], to, more)
  <2>1. CASE k = n + 1
    <3>1. SubSeq(s, m + 1, m) = << >>
      BY SubSeqEmpty
    <3>2. e[k - 1] = m /\ e[k] = m /\ c[k] = call
      <4>1. k - 1 = n
        BY <2>1
      <4> QED BY <1>2, <1>4, <2>1, <4>1
    <3>3. SubSeq(s, e[k - 1] + 1, e[k]) \in Added(c[k], to, more)
      BY <3>1, <3>2
    <3> QED BY <3>2, <3>3
  <2>2. CASE k \in 1 .. n
    <3>1. Added(made[k], to, left) = Added(made[k], to, more)
      BY <2>2, AddedByOthers
    <3> QED BY <1>1, <1>2, <1>4, <2>2, <3>1
  <2> QED BY <2>1, <2>2
<1>6. Composed(s, c, to, more)
  BY <1>2, <1>4, <1>5 DEF Composed
<1> QED BY <1>6 DEF c

Continues(t, s) == Len(s) <= Len(t) /\ \A i \in 1 .. Len(s) : t[i] = s[i]

OnlyLastChanges(now, made) ==
  /\ Len(now) = Len(made)
  /\ \A n \in 1 .. Len(made) - 1 : Written(made[n]) /\ now[n] = made[n]

(* What was added for a call up to the end of s is, up to the end of t,    *)
(* what may have been added for it by now.                                 *)
GoesOn(s, call, left, t, then, more, to) ==
  \A a \in 0 .. Len(s) : SubSeq(s, a + 1, Len(s)) \in Added(call, to, left)
                         => SubSeq(t, a + 1, Len(t)) \in Added(then, to, more)

(* The last call has written more, or got its answer. *)
LEMMA ComposedFurther ==
  ASSUME NEW s, IsSequence(s), NEW t, IsSequence(t), NEW made, IsSequence(made), NEW now, IsSequence(now),
         NEW to, NEW left, NEW more,
         Composed(s, made, to, left), Continues(t, s), made # << >>, OnlyLastChanges(now, made),
         GoesOn(s, made[Len(made)], left, t, now[Len(made)], more, to)
  PROVE  Composed(t, now, to, more)
<1>0. /\ Len(s) <= Len(t) /\ \A i \in 1 .. Len(s) : t[i] = s[i]
      /\ Len(now) = Len(made)
      /\ \A n \in 1 .. Len(made) - 1 : Written(made[n]) /\ now[n] = made[n]
      /\ \A a \in 0 .. Len(s) : SubSeq(s, a + 1, Len(s)) \in Added(made[Len(made)], to, left)
                             => SubSeq(t, a + 1, Len(t)) \in Added(now[Len(made)], to, more)
  BY DEF Continues, OnlyLastChanges, GoesOn
<1> PICK m \in Nat, p \in Nat, n \in Nat \ {0} : m = Len(s) /\ p = Len(t) /\ n = Len(made)
  BY SequenceFacts
<1>1. PICK ends \in [0 .. n -> 0 .. m] :
        /\ ends[0] = 0 /\ ends[n] = m
        /\ \A k \in 1 .. n : /\ ends[k - 1] <= ends[k]
                             /\ SubSeq(s, ends[k - 1] + 1, ends[k]) \in Added(made[k], to, left)
  BY DEF Composed
<1>2. PICK e : e = [k \in 0 .. n |-> IF k = n THEN p ELSE ends[k]]
  OBVIOUS
<1>3. /\ e \in [0 .. n -> 0 .. p] /\ e[n] = p /\ e[0] = 0
      /\ \A k \in 0 .. n - 1 : e[k] = ends[k]
  BY <1>0, <1>1, <1>2
<1>4. ASSUME NEW k \in 1 .. n
      PROVE  e[k - 1] <= e[k] /\ SubSeq(t, e[k - 1] + 1, e[k]) \in Added(now[k], to, more)
  <2>1. CASE k = n
    <3>0. n - 1 \in 0 .. n
      OBVIOUS
    <3>1. PICK a \in 0 .. m : a = ends[n - 1]
      BY <1>1, <3>0
    <3>2. SubSeq(s, a + 1, m) \in Added(made[n], to, left)
      BY <1>1, <3>1
    <3>3. SubSeq(t, a + 1, p) \in Added(now[n], to, more)
      BY <1>0, <3>2
    <3>4. e[k - 1] = a /\ e[k] = p
      BY <1>3, <2>1, <3>1
    <3> QED BY <1>0, <2>1, <3>1, <3>3, <3>4
  <2>2. CASE k # n
    <3>1. k \in 1 .. n - 1
      BY <2>2
    <3>2. PICK a \in 0 .. m, b \in 0 .. m : a = ends[k - 1] /\ b = ends[k]
      BY <1>1
    <3>3. e[k - 1] = a /\ e[k] = b
      BY <1>3, <3>1, <3>2
    <3>4. a <= b /\ SubSeq(s, a + 1, b) \in Added(made[k], to, left)
      BY <1>1, <3>2
    <3>5. SubSeq(t, a + 1, b) = SubSeq(s, a + 1, b)
      BY <1>0, <3>4, SliceOfPrefix
    <3>6. Added(made[k], to, left) = Added(now[k], to, more)
      BY <1>0, <3>1, AddedByOthers
    <3> QED BY <3>3, <3>4, <3>5, <3>6
  <2> QED BY <2>1, <2>2
<1> QED BY <1>0, <1>3, <1>4 DEF Composed

(* The last n pieces of a document. *)
Rest(d, n) == From(d, Len(d) - n)

(* The writer takes the next piece of a document d, p being what is left.  *)
LEMMA PieceTaken ==
  ASSUME NEW d, IsSequence(d), NEW p, IsSequence(p), p # << >>, Len(p) <= Len(d),
         p = Rest(d, Len(p)), NEW s, IsSequence(s)
  PROVE  /\ IsSequence(Tail(p)) /\ Len(Tail(p)) = Len(p) - 1
         /\ Tail(p) = Rest(d, Len(Tail(p)))
         /\ \A a \in 0 .. Len(s) :
              SubSeq(s, a + 1, Len(s)) = SubSeq(d, 1, Len(d) - Len(p))
              => SubSeq(Extended(s, Head(p)), a + 1, Len(s) + 1) = SubSeq(d, 1, Len(d) - Len(Tail(p)))
<1> PICK m \in Nat, q \in Nat \ {0}, n \in Nat : m = Len(d) /\ q = Len(p) /\ n = Len(s)
  BY SequenceFacts
<1>1. Head(p) = p[1] /\ IsSequence(Tail(p)) /\ Len(Tail(p)) = q - 1 /\ \A i \in 1 .. q - 1 : Tail(p)[i] = p[i + 1]
  <2> DEFINE R == {p[k] : k \in DOMAIN p}
  <2>1. p \in Seq(R)
    BY DEF IsSequence
  <2> HIDE DEF R
  <2>2. Tail(p) \in Seq(R) /\ Len(Tail(p)) = q - 1 /\ \A i \in 1 .. q - 1 : Tail(p)[i] = p[i + 1]
    BY <2>1, HeadTailProperties
  <2>3. Head(p) = p[1]
    BY <2>1
  <2> QED BY <2>2, <2>3, SequenceOfElements
<1>2. \A i \in 1 .. q : p[i] = d[(m - q) + i]
  <2>1. m - q \in 0 .. m /\ m - (m - q) = q
    OBVIOUS
  <2>2. \A i \in 1 .. m - (m - q) : From(d, m - q)[i] = d[(m - q) + i]
    BY <2>1, FromFacts
  <2> QED BY <2>1, <2>2 DEF Rest
<1>3. Tail(p) = From(d, m - (q - 1))
  <2> DEFINE f == From(d, m - (q - 1))
  <2> PICK g : g = m - (q - 1)
    OBVIOUS
  <2>0. g \in 0 .. m /\ g = m - (q - 1) /\ m - g = q - 1
    OBVIOUS
  <2>1. IsSequence(From(d, g)) /\ Len(From(d, g)) = m - g /\ \A i \in 1 .. m - g : From(d, g)[i] = d[g + i]
    BY <2>0, FromFacts
  <2>2. IsSequence(f) /\ Len(f) = q - 1 /\ \A i \in 1 .. q - 1 : f[i] = d[(m - (q - 1)) + i]
    BY <2>0, <2>1
  <2> HIDE DEF f
  <2>3. \A i \in 1 .. q - 1 : Tail(p)[i] = f[i]
    BY <1>1, <1>2, <2>2
  <2>4. Tail(p) = f
    BY <1>1, <2>2, <2>3, SameSequence
  <2> QED BY <2>4 DEF f
<1>4. ASSUME NEW a \in 0 .. n, SubSeq(s, a + 1, n) = SubSeq(d, 1, m - q)
      PROVE  SubSeq(Extended(s, Head(p)), a + 1, n + 1) = SubSeq(d, 1, m - (q - 1))
  <2> DEFINE e == Extended(s, Head(p))
             l == SubSeq(e, a + 1, n + 1)
             r == SubSeq(d, 1, m - (q - 1))
             u == SubSeq(s, a + 1, n)
             v == SubSeq(d, 1, m - q)
  <2>1. IsSequence(e) /\ Len(e) = n + 1 /\ e[n + 1] = d[(m - q) + 1] /\ \A k \in 1 .. n : e[k] = s[k]
    BY <1>1, <1>2, AppendSequence
  <2> HIDE DEF e
  <2>2. IsSequence(l) /\ Len(l) = (n + 1) - a /\ \A i \in 1 .. (n + 1) - a : l[i] = e[a + i]
    BY <2>1, SliceFacts
  <2>3. Len(u) = n - a /\ \A i \in 1 .. n - a : u[i] = s[a + i]
    BY SliceFacts
  <2>4. Len(v) = m - q /\ \A i \in 1 .. m - q : v[i] = d[i]
    <3>1. m - q \in 0 .. m
      OBVIOUS
    <3> QED BY <3>1, PrefixFacts
  <2>5. IsSequence(r) /\ Len(r) = m - (q - 1) /\ \A i \in 1 .. m - (q - 1) : r[i] = d[i]
    <3>1. m - (q - 1) \in 0 .. m
      OBVIOUS
    <3> QED BY <3>1, PrefixFacts
  <2>6. u = v
    BY <1>4
  <2> HIDE DEF l, r, u, v
  <2>7. n - a = m - q /\ Len(l) = (n - a) + 1 /\ Len(r) = (n - a) + 1
    <3>1. Len(u) = n - a /\ Len(v) = m - q /\ Len(l) = (n + 1) - a /\ Len(r) = m - (q - 1)
      BY <2>2, <2>3, <2>4, <2>5
    <3>2. n - a = m - q
      BY <2>6, <3>1
    <3> QED BY <3>1, <3>2
  <2>8. ASSUME NEW i \in 1 .. Len(l) PROVE l[i] = r[i]
    <3>1. CASE i \in 1 .. n - a
      <4>1. a + i \in 1 .. n
        BY <3>1
      <4>2. i \in 1 .. (n + 1) - a /\ i \in 1 .. m - q /\ i \in 1 .. m - (q - 1)
        BY <2>7, <3>1
      <4>3. l[i] = e[a + i] /\ e[a + i] = s[a + i] /\ u[i] = s[a + i]
        BY <2>1, <2>2, <2>3, <3>1, <4>1, <4>2
      <4>4. v[i] = d[i] /\ r[i] = d[i]
        BY <2>4, <2>5, <4>2
      <4> QED BY <2>6, <4>3, <4>4
    <3>2. CASE i = (n - a) + 1
      <4>1. i \in 1 .. (n + 1) - a /\ i \in 1 .. m - (q - 1) /\ a + i = n + 1 /\ (m - q) + 1 = i
        BY <2>7, <3>2
      <4>2. l[i] = e[n + 1] /\ r[i] = d[i]
        BY <2>2, <2>5, <4>1
      <4> QED BY <2>1, <4>1, <4>2
    <3> QED BY <2>2, <2>7, <3>1, <3>2
  <2>9. l = r
    BY <2>2, <2>5, <2>7, <2>8, SameSequence
  <2> QED BY <2>9 DEF l, r, e
<1> QED BY <1>1, <1>3, <1>4 DEF Rest

IsCall(call) == call = [value |-> call.value, indent |-> call.indent, answer |-> call.answer]

InProgress(call, to, left) ==
  LET whole == Pieces(call.value, to, call.indent) IN
  /\ IsCall(call)
  /\ IsSequence(whole) /\ Len(left) <= Len(whole)
  /\ left = Rest(whole, Len(left))

(* Only the last call can be in progress, and what it has still to write   *)
(* is the end of its document.                                             *)
EncoderIInv ==
  /\ target \in Targets /\ indent \in Indents \cup {""}
  /\ IsSequence(sink) /\ IsSequence(calls) /\ IsSequence(pending)
  /\ \A n \in 1 .. Len(calls) - 1 : Written(calls[n])
  /\ pending # << >> => calls # << >> /\ ~ Written(calls[Len(calls)])
  /\ calls # << >> /\ ~ Written(calls[Len(calls)]) => InProgress(calls[Len(calls)], target, pending)
  /\ Composed(sink, calls, target, pending)

LEMMA NothingComposed ==
  ASSUME NEW s, Len(s) = 0, NEW made, Len(made) = 0, NEW to, NEW left
  PROVE  Composed(s, made, to, left)
<1>1. PICK ends : ends = [k \in 0 .. 0 |-> 0]
  OBVIOUS
<1>2. ends \in [0 .. 0 -> 0 .. 0] /\ ends[0] = 0
  BY <1>1
<1> QED BY <1>2 DEF Composed

LEMMA EncoderInitIInv == EncoderInit => EncoderIInv
<1> SUFFICES ASSUME EncoderInit PROVE EncoderIInv
  OBVIOUS
<1>1. target \in Targets /\ indent = "" /\ sink = << >> /\ pending = << >> /\ calls = << >>
  BY DEF EncoderInit
<1>2. IsSequence(<< >>) /\ Len(<< >>) = 0
  BY EmptySequence
<1>3. Composed(sink, calls, target, pending)
  BY <1>1, <1>2, NothingComposed
<1>4. IsSequence(sink) /\ IsSequence(calls) /\ IsSequence(pending) /\ Len(calls) = 0
  BY <1>1, <1>2
<1>5. \A n \in 1 .. Len(calls) - 1 : Written(calls[n])
  BY <1>4
<1> QED BY <1>1, <1>3, <1>4, <1>5 DEF EncoderIInv

LEMMA SetIndentEncoderIInv ==
  ASSUME EncoderIInv, set_indent
  PROVE  EncoderIInv'
<1>1. indent' \in Indents /\ UNCHANGED <<target, sink, pending, calls>>
  BY DEF set_indent
<1> QED BY <1>1 DEF EncoderIInv

(* A call that is recorded when none is in progress. *)
LEMMA RecordedIInv ==
  ASSUME EncoderIInv, Idle, UNCHANGED <<target, indent, sink>>,
         NEW call, calls' = Extended(calls, call), IsSequence(pending'),
         << >> \in Added(call, target, pending'),
         Written(call) => pending' = << >>,
         ~ Written(call) => InProgress(call, target, pending')
  PROVE  EncoderIInv'
<1> PICK n \in Nat : n = Len(calls) /\ DOMAIN calls = 1 .. n
  BY SequenceFacts DEF EncoderIInv
<1> PICK c : c = Extended(calls, call)
  OBVIOUS
<1>1. \A k \in 1 .. n : Written(calls[k])
  BY DEF Idle, Written
<1>2. /\ IsSequence(c) /\ c # << >> /\ Len(c) = n + 1 /\ c[n + 1] = call
      /\ \A k \in 1 .. n : c[k] = calls[k]
  <2>1. IsSequence(calls)
    BY DEF EncoderIInv
  <2> QED BY <2>1, AppendSequence
<1>3. Composed(sink, c, target, pending')
  BY <1>1, ComposedWithMore DEF EncoderIInv
<1>4. \A k \in 1 .. Len(c) - 1 : Written(c[k])
  BY <1>1, <1>2
<1>5. calls' = c /\ target' = target /\ indent' = indent /\ sink' = sink
  OBVIOUS
<1>6. c[Len(c)] = call
  BY <1>2
<1> QED BY <1>2, <1>3, <1>4, <1>5, <1>6 DEF EncoderIInv

LEMMA EncodeEncoderIInv ==
  ASSUME EncoderIInv, Encode
  PROVE  EncoderIInv'
<1>1. Idle /\ UNCHANGED <<target, indent, sink>>
  BY DEF Encode
<1>2. PICK v \in Values, mapped \in BOOLEAN :
        \/ /\ pending' = Pieces(v, target, indent)
           /\ calls' = Append(calls, Record(v, "writing"))
        \/ /\ \E error \in Refusals(v, mapped) : calls' = Append(calls, Record(v, error))
           /\ UNCHANGED pending
  BY DEF Encode
<1>3. CASE /\ pending' = Pieces(v, target, indent)
           /\ calls' = Append(calls, Record(v, "writing"))
  <2> DEFINE d    == Pieces(v, target, indent)
             call == Record(v, "writing")
  <2>1. IsSequence(d)
    BY PiecesAssumption DEF EncoderIInv
  <2>2. call.value = v /\ call.indent = indent /\ call.answer = "writing"
        /\ call = [value |-> v, indent |-> indent, answer |-> "writing"]
    BY DEF Record
  <2> HIDE DEF call
  <2>3. Pieces(call.value, target, call.indent) = d
    BY <2>2
  <2> HIDE DEF d
  <2> PICK m \in Nat : m = Len(d)
    BY <2>1, SequenceFacts
  <2>4. SubSeq(d, 1, m - m) = << >> /\ m - m = 0 /\ From(d, m - m) = d
    BY <2>1, SubSeqEmpty, FromEnds
  <2>5. ~ Written(call) /\ Added(call, target, d) = {<< >>}
    BY <2>2, <2>3, <2>4 DEF Written, Added
  <2>6. InProgress(call, target, d)
    BY <2>1, <2>2, <2>3, <2>4 DEF InProgress, Rest, IsCall
  <2>7. calls' = Extended(calls, call) /\ pending' = d
    BY <1>3 DEF Extended, call, d
  <2> QED BY <1>1, <2>1, <2>5, <2>6, <2>7, RecordedIInv
<1>4. ASSUME NEW error \in Refusals(v, mapped), calls' = Append(calls, Record(v, error)), UNCHANGED pending
      PROVE  EncoderIInv'
  <2> DEFINE call == Record(v, error)
  <2>1. error \in {"NoRootElement", "FeatureDisabled", "Message"}
    BY DEF Refusals
  <2>2. call.answer = error
    BY DEF Record
  <2> HIDE DEF call
  <2>3. Written(call) /\ Added(call, target, pending) = {<< >>}
    BY <2>1, <2>2 DEF Written, Added
  <2>4. IsSequence(pending) /\ pending = << >>
    <3>1. calls # << >> => Written(calls[Len(calls)])
      <4>1. calls # << >> => Len(calls) \in DOMAIN calls
        <5>1. IsSequence(calls)
          BY DEF EncoderIInv
        <5>2. DOMAIN calls = 1 .. Len(calls) /\ (calls # << >> => Len(calls) \in Nat \ {0})
          BY <5>1, SequenceFacts
        <5> QED BY <5>2
      <4> QED BY <1>1, <4>1 DEF Idle, Written
    <3> QED BY <3>1 DEF EncoderIInv
  <2>5. calls' = Extended(calls, call) /\ pending' = pending
    BY <1>4 DEF Extended, call
  <2> QED BY <1>1, <2>3, <2>4, <2>5, RecordedIInv
<1> QED BY <1>2, <1>3, <1>4

Answering(made, answer1) == [made EXCEPT ![Len(made)].answer = answer1]

(* The call in progress, when its answer changes. *)
LEMMA Answered ==
  ASSUME NEW made, IsSequence(made), made # << >>, NEW answer1, IsCall(made[Len(made)])
  PROVE  /\ IsSequence(Answering(made, answer1)) /\ Answering(made, answer1) # << >>
         /\ Len(Answering(made, answer1)) = Len(made)
         /\ \A k \in 1 .. Len(made) - 1 : Answering(made, answer1)[k] = made[k]
         /\ Answering(made, answer1)[Len(made)].value = made[Len(made)].value
         /\ Answering(made, answer1)[Len(made)].indent = made[Len(made)].indent
         /\ Answering(made, answer1)[Len(made)].answer = answer1
<1> PICK n \in Nat \ {0} : n = Len(made)
  BY SequenceFacts
<1> PICK call : call = made[Len(made)]
  OBVIOUS
<1> PICK other : other = [call EXCEPT !.answer = answer1]
  OBVIOUS
<1>1. other.value = call.value /\ other.indent = call.indent /\ other.answer = answer1
  BY DEF IsCall
<1> DEFINE now == Answering(made, answer1)
<1>2. now = Replaced(made, other)
  BY DEF Replaced, Answering
<1> HIDE DEF now
<1>3. /\ IsSequence(now) /\ now # << >> /\ Len(now) = n /\ now[n] = other
      /\ \A k \in 1 .. n : k # n => now[k] = made[k]
  BY <1>2, ReplaceLast
<1>4. \A k \in 1 .. n - 1 : k \in 1 .. n /\ k # n
  OBVIOUS
<1> QED BY <1>1, <1>3, <1>4 DEF now

(* The part of the last call when a document goes on, or stops. *)
LEMMA WritePieceEncoderIInv ==
  ASSUME EncoderIInv, WritePiece
  PROVE  EncoderIInv'
<1>1. /\ pending # << >> /\ IsSequence(pending) /\ IsSequence(calls) /\ IsSequence(sink)
      /\ calls # << >> /\ ~ Written(calls[Len(calls)])
  BY DEF WritePiece, EncoderIInv
<1> PICK n \in Nat \ {0} : n = Len(calls)
  BY <1>1, SequenceFacts
<1> PICK call : call = calls[n]
  OBVIOUS
<1> PICK d : d = Pieces(call.value, target, call.indent)
  OBVIOUS
<1> PICK p : p = pending
  OBVIOUS
<1>2. /\ IsSequence(d) /\ Len(p) <= Len(d) /\ p = Rest(d, Len(p)) /\ call.answer = "writing"
      /\ IsCall(call)
  BY <1>1 DEF EncoderIInv, InProgress, Written
<1>3. /\ sink' = Extended(sink, Head(p)) /\ pending' = Tail(p)
      /\ calls' = IF pending' = << >> THEN Finished("Ok") ELSE calls
      /\ target' = target /\ indent' = indent
  BY DEF WritePiece, Extended
<1>4. /\ IsSequence(Tail(p)) /\ Len(Tail(p)) = Len(p) - 1
      /\ Tail(p) = Rest(d, Len(Tail(p)))
      /\ \A a \in 0 .. Len(sink) :
           SubSeq(sink, a + 1, Len(sink)) = SubSeq(d, 1, Len(d) - Len(p))
           => SubSeq(Extended(sink, Head(p)), a + 1, Len(sink) + 1) = SubSeq(d, 1, Len(d) - Len(Tail(p)))
  <2>1. IsSequence(d) /\ IsSequence(p) /\ p # << >> /\ Len(p) <= Len(d) /\ p = Rest(d, Len(p)) /\ IsSequence(sink)
    BY <1>1, <1>2
  <2> QED BY ONLY <2>1, PieceTaken
<1> PICK t : t = Extended(sink, Head(p))
  OBVIOUS
<1>5. IsSequence(t) /\ Len(sink) \in Nat /\ Len(t) = Len(sink) + 1 /\ \A i \in 1 .. Len(sink) : t[i] = sink[i]
  BY <1>1, AppendSequence
<1>6. /\ Composed(sink, calls, target, p)
      /\ \A k \in 1 .. n - 1 : Written(calls[k])
  BY DEF EncoderIInv
<1>7. Added(call, target, p) = {SubSeq(d, 1, Len(d) - Len(p))}
  BY <1>2 DEF Added
<1> PICK q : q = Tail(p)
  OBVIOUS
<1> PICK u : u = SubSeq(d, 1, Len(d) - Len(q))
  OBVIOUS
<1>8. \A a \in 0 .. Len(sink) :
        SubSeq(sink, a + 1, Len(sink)) \in Added(call, target, p) => SubSeq(t, a + 1, Len(t)) = u
  BY <1>4, <1>5, <1>7
<1>9. CASE q = << >>
  <2>1. PICK now : now = Answering(calls, "Ok")
    OBVIOUS
  <2>2. calls' = now
    BY <1>3, <1>9, <2>1 DEF Finished, Answering
  <2>3. /\ IsSequence(now) /\ now # << >> /\ Len(now) = n
        /\ \A k \in 1 .. n - 1 : now[k] = calls[k]
        /\ now[n].value = call.value /\ now[n].indent = call.indent /\ now[n].answer = "Ok"
    BY <1>1, <1>2, <2>1, Answered
  <2>4. u = d
    <3>1. Len(q) = 0
      BY <1>4, <1>9, SequenceFacts
    <3>2. Len(d) - 0 = Len(d) /\ SubSeq(d, 1, Len(d)) = d
      BY <1>2, SequenceFacts, SubSeqFull DEF IsSequence
    <3> QED BY <3>1, <3>2
  <2>5. Added(now[n], target, q) = {u}
    BY <2>3, <2>4 DEF Added
  <2>6. Composed(t, now, target, q)
    <3>1. Continues(t, sink)
      BY <1>5 DEF Continues
    <3>2. OnlyLastChanges(now, calls)
      BY <1>6, <2>3 DEF OnlyLastChanges
    <3>3. GoesOn(sink, calls[Len(calls)], p, t, now[Len(calls)], q, target)
      BY <1>8, <2>5 DEF GoesOn
    <3> QED BY <1>1, <1>5, <1>6, <2>3, <3>1, <3>2, <3>3, ComposedFurther
  <2>7. \A k \in 1 .. Len(now) - 1 : Written(now[k])
    BY <1>6, <2>3
  <2>8. Written(now[Len(now)])
    BY <2>3 DEF Written
  <2> QED BY <1>3, <1>4, <1>5, <1>9, <2>2, <2>3, <2>6, <2>7, <2>8 DEF EncoderIInv
<1>10. CASE q # << >>
  <2>1. calls' = calls
    BY <1>3, <1>10
  <2>2. Added(call, target, q) = {u}
    BY <1>2 DEF Added
  <2>3. Composed(t, calls, target, q)
    <3>1. Continues(t, sink)
      BY <1>5 DEF Continues
    <3>2. OnlyLastChanges(calls, calls)
      BY <1>6 DEF OnlyLastChanges
    <3>3. GoesOn(sink, calls[Len(calls)], p, t, calls[Len(calls)], q, target)
      BY <1>8, <2>2 DEF GoesOn
    <3> QED BY <1>1, <1>5, <1>6, <3>1, <3>2, <3>3, ComposedFurther
  <2>4. InProgress(call, target, q)
    <3>1. Len(d) \in Nat /\ Len(p) \in Nat
      BY <1>1, <1>2, SequenceFacts
    <3>2. Len(q) <= Len(d)
      BY <1>2, <1>4, <3>1
    <3> QED BY <1>2, <1>4, <3>2 DEF InProgress
  <2> QED BY <1>1, <1>3, <1>4, <1>5, <1>6, <2>1, <2>3, <2>4 DEF EncoderIInv
<1> QED BY <1>9, <1>10

LEMMA WriterFailsEncoderIInv ==
  ASSUME EncoderIInv, WriterFails
  PROVE  EncoderIInv'
<1>1. /\ pending # << >> /\ IsSequence(pending) /\ IsSequence(calls) /\ IsSequence(sink)
      /\ calls # << >> /\ ~ Written(calls[Len(calls)])
  BY DEF WriterFails, EncoderIInv
<1> PICK n \in Nat \ {0} : n = Len(calls)
  BY <1>1, SequenceFacts
<1> PICK call : call = calls[n]
  OBVIOUS
<1> PICK d : d = Pieces(call.value, target, call.indent)
  OBVIOUS
<1> PICK p : p = pending
  OBVIOUS
<1>2. /\ IsSequence(d) /\ Len(p) <= Len(d) /\ call.answer = "writing"
      /\ IsCall(call)
  BY <1>1 DEF EncoderIInv, InProgress, Written
<1>3. PICK now : now = Answering(calls, "Io")
  OBVIOUS
<1>4. calls' = now /\ pending' = << >> /\ target' = target /\ indent' = indent /\ sink' = sink
  BY <1>3 DEF WriterFails, Finished, Answering
<1>5. /\ IsSequence(now) /\ now # << >> /\ Len(now) = n
      /\ \A k \in 1 .. n - 1 : now[k] = calls[k]
      /\ now[n].value = call.value /\ now[n].indent = call.indent /\ now[n].answer = "Io"
  BY <1>1, <1>2, <1>3, Answered
<1>6. /\ Composed(sink, calls, target, p)
      /\ \A k \in 1 .. n - 1 : Written(calls[k])
  BY DEF EncoderIInv
<1>7. Added(call, target, p) = {SubSeq(d, 1, Len(d) - Len(p))}
  BY <1>2 DEF Added
<1>8. SubSeq(d, 1, Len(d) - Len(p)) \in Added(now[n], target, << >>)
  <2>1. Len(d) \in Nat /\ Len(p) \in Nat \ {0}
    BY <1>1, <1>2, SequenceFacts
  <2>2. Len(d) - Len(p) \in 0 .. Len(d) - 1
    BY <1>2, <2>1
  <2> QED BY <1>5, <2>2 DEF Added
<1>9. Len(sink) \in Nat
  BY <1>1, SequenceFacts
<1>10. Composed(sink, now, target, << >>)
  <2>1. Continues(sink, sink)
    BY <1>9 DEF Continues
  <2>2. OnlyLastChanges(now, calls)
    BY <1>5, <1>6 DEF OnlyLastChanges
  <2>3. GoesOn(sink, calls[Len(calls)], p, sink, now[Len(calls)], << >>, target)
    BY <1>7, <1>8 DEF GoesOn
  <2> QED BY <1>1, <1>5, <1>6, <2>1, <2>2, <2>3, ComposedFurther
<1>11. \A k \in 1 .. Len(now) - 1 : Written(now[k])
  BY <1>5, <1>6
<1>12. Written(now[Len(now)])
  BY <1>5 DEF Written
<1> QED BY <1>1, <1>4, <1>5, <1>10, <1>11, <1>12, EmptySequence DEF EncoderIInv

LEMMA EncoderNextIInv ==
  ASSUME EncoderIInv, [EncoderNext]_encoderVars
  PROVE  EncoderIInv'
<1>1. CASE UNCHANGED encoderVars
  BY <1>1 DEF encoderVars, EncoderIInv
<1> QED BY <1>1, SetIndentEncoderIInv, EncodeEncoderIInv, WritePieceEncoderIInv, WriterFailsEncoderIInv
        DEF EncoderNext

(* Whatever is encoded after whatever failures, the sink holds the         *)
(* documents of the calls that succeeded and beginnings of those whose     *)
(* writer failed, in order (ser.rs:187-233).                               *)
THEOREM SinkIsDocuments == SessionSpec => []AppendsDocuments
<1>1. SessionInit => EncoderIInv
  BY EncoderInitIInv DEF SessionInit
<1>2. EncoderIInv /\ [SessionNext]_sessionVars => EncoderIInv'
  <2> SUFFICES ASSUME EncoderIInv, [SessionNext]_sessionVars PROVE EncoderIInv'
    OBVIOUS
  <2>1. [EncoderNext]_encoderVars
    BY DEF SessionNext, Write, Open, Read, sessionVars
  <2> QED BY <2>1, EncoderNextIInv
<1>3. EncoderIInv => AppendsDocuments
  BY DEF EncoderIInv, AppendsDocuments
<1> QED BY <1>1, <1>2, <1>3, PTL DEF SessionSpec

=============================================================================
