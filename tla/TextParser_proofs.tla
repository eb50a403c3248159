-------------------------- MODULE TextParser_proofs ---------------------------
(***************************************************************************)
(* Proofs about the text parser, for every alphabet of lexemes, every      *)
(* length of a document and every depth cap.                               *)
(***************************************************************************)
EXTENDS TextParser, Stacks, FiniteSetTheorems

-----------------------------------------------------------------------------
(***************************************************************************)
(* The inductive invariant.                                                *)
(***************************************************************************)
Shape ==
  /\ IsSequence(input) /\ IsSequence(stack)
  /\ pos \in 0 .. Len(input) /\ depth \in Nat
  /\ format \in {"OpenStep", "GnuStep"} /\ recovering \in BOOLEAN
  /\ \A k \in 1 .. Len(input) : LexemeOK(input[k])

IsFrame(f) ==
  /\ f = [name |-> f.name, collected |-> f.collected, key |-> f.key, implicit |-> f.implicit]
  /\ f.name \in {"dictionary", "array"} /\ f.implicit \in BOOLEAN
  /\ f.key = {} \/ (f.name = "dictionary" /\ \E k : f.key = {k})

(* The dictionary without braces is the outermost, and every open          *)
(* dictionary but the innermost awaits the value of a key.                 *)
StackOK ==
  \A d \in 1 .. Len(stack) :
    /\ IsFrame(stack[d])
    /\ stack[d].implicit <=> recovering /\ d = 1
    /\ stack[d].implicit => stack[d].name = "dictionary"
    /\ stack[d].name = "dictionary" /\ d < Len(stack) => stack[d].key # {}

StepOK ==
  /\ step.op \in {"Open", "Advance", "AfterKey", "Deliver", "Finish", "Ok", "Err"}
  /\ step.op = "Advance" => stack # << >> /\ Top.key = {}
  /\ step.op = "AfterKey" => stack # << >> /\ Top.name = "dictionary" /\ Top.key = {}
  /\ step.op \in {"Open", "Deliver"} /\ stack # << >> => (Top.key # {} <=> Top.name = "dictionary")
  /\ step.op = "Finish" => stack = << >> /\ ~ recovering

(* The frames that hold a level.                                           *)
Levels == IF recovering /\ stack # << >> THEN Len(stack) - 1 ELSE Len(stack)

DepthOK == ~ Returned => depth = Levels /\ depth <= MaxParseDepth

(* The dialect is what has been consumed of this pass says, while a second *)
(* pass can still come because nothing but a string was read before it.    *)
GnuLiteral(t) == t.kind = "Literal" /\ t.dialect = "GnuStep"
DialectOK     == step.op # "Err" => (format = "GnuStep" <=> \E k \in 1 .. pos : GnuLiteral(input[k]))

FirstOK ==
  /\ step.op = "Open" /\ stack = << >> => ~ recovering /\ format = "OpenStep"
  /\ step.op \in {"Deliver", "Finish"} /\ stack = << >> /\ ~ recovering /\ step.value.type = "string" =>
       format = "OpenStep"

IInv == Shape /\ StackOK /\ StepOK /\ DepthOK /\ DialectOK /\ FirstOK

-----------------------------------------------------------------------------
(***************************************************************************)
(* What looking at a lexeme does to what has been looked at.               *)
(***************************************************************************)
Ahead(t) == LexemeOK(t) /\ (pos < Len(input) => t = input[pos + 1])

LEMMA PeekFacts ==
  ASSUME IInv, NEW t, Ahead(t), Peek(t)
  PROVE  /\ IsSequence(input') /\ Len(input') \in Nat /\ pos \in Nat /\ pos < Len(input')
         /\ \A k \in 1 .. Len(input') : LexemeOK(input'[k])
         /\ \A k \in 1 .. pos : input'[k] = input[k]
         /\ input'[pos + 1] = t
<1> PICK n \in Nat : n = Len(input) /\ pos \in 0 .. n /\ IsSequence(input)
  BY SequenceFacts DEF IInv, Shape
<1>1. CASE pos < n
  <2>1. input' = input /\ t = input[pos + 1]
    BY <1>1 DEF Peek, Ahead
  <2> QED BY <1>1, <2>1 DEF IInv, Shape
<1>2. CASE pos = n
  <2>1. input' = Extended(input, t)
    BY <1>2 DEF Peek, Extended
  <2>2. /\ IsSequence(input') /\ Len(input') = n + 1 /\ input'[n + 1] = t
        /\ \A k \in 1 .. n : input'[k] = input[k]
    BY <2>1, AppendSequence
  <2>3. \A k \in 1 .. n + 1 : LexemeOK(input'[k])
    <3>1. ASSUME NEW k \in 1 .. n + 1 PROVE LexemeOK(input'[k])
      <4>1. CASE k \in 1 .. n
        BY <2>2, <4>1 DEF IInv, Shape
      <4>2. CASE k = n + 1
        BY <2>2, <4>2 DEF Ahead
      <4> QED BY <4>1, <4>2
    <3> QED BY <3>1
  <2> QED BY <1>2, <2>2, <2>3
<1> QED BY <1>1, <1>2

(* A step that looks at a lexeme, consumes it or not, and goes on.         *)
LEMMA ReadOn ==
  ASSUME IInv, NEW t, Ahead(t), Peek(t), pos' = pos \/ pos' = pos + 1, step.op # "Err",
         UNCHANGED recovering, format' = IF GnuLiteral(t) /\ pos' = pos + 1 THEN "GnuStep" ELSE format,
         IsSequence(stack'), depth' \in Nat, StackOK', StepOK', DepthOK', FirstOK'
  PROVE  IInv'
<1>1. /\ IsSequence(input') /\ Len(input') \in Nat /\ pos \in Nat /\ pos < Len(input')
      /\ \A k \in 1 .. Len(input') : LexemeOK(input'[k])
      /\ \A k \in 1 .. pos : input'[k] = input[k]
      /\ input'[pos + 1] = t
  BY PeekFacts
<1>2. format \in {"OpenStep", "GnuStep"} /\ recovering' \in BOOLEAN
  BY DEF IInv, Shape
<1>3. Shape'
  <2>1. pos' \in 0 .. Len(input')
    BY <1>1
  <2>2. format' \in {"OpenStep", "GnuStep"}
    BY <1>2
  <2> QED BY <1>1, <1>2, <2>1, <2>2 DEF Shape
<1>4. format = "GnuStep" <=> \E k \in 1 .. pos : GnuLiteral(input[k])
  BY DEF IInv, DialectOK
<1>5. format = "GnuStep" <=> \E k \in 1 .. pos : GnuLiteral(input'[k])
  BY <1>1, <1>4
<1>6. CASE pos' = pos
  <2>1. format' = format
    BY <1>1, <1>6
  <2> QED BY <1>3, <1>5, <1>6, <2>1 DEF IInv, DialectOK
<1>7. CASE pos' = pos + 1
  <2>1. format' = IF GnuLiteral(t) THEN "GnuStep" ELSE format
    BY <1>7
  <2>2. \A k \in 1 .. pos + 1 : k \in 1 .. pos \/ k = pos + 1
    BY <1>1
  <2>3. (\E k \in 1 .. pos + 1 : GnuLiteral(input'[k])) <=> (\E k \in 1 .. pos : GnuLiteral(input'[k])) \/ GnuLiteral(t)
    <3>1. pos + 1 \in 1 .. pos + 1 /\ \A k \in 1 .. pos : k \in 1 .. pos + 1
      BY <1>1
    <3> QED BY <1>1, <2>2, <3>1
  <2>4. format' = "GnuStep" <=> \E k \in 1 .. pos + 1 : GnuLiteral(input'[k])
    BY <1>5, <2>1, <2>3
  <2>5. DialectOK'
    BY <1>7, <2>4 DEF DialectOK
  <2> QED BY <1>3, <2>5 DEF IInv
<1> QED BY <1>6, <1>7

(* A parse that has failed is asked for nothing but its error.             *)
LEMMA FailIInv ==
  ASSUME IInv, NEW t, Ahead(t), Peek(t), pos' = pos \/ pos' = pos + 1, step'.op = "Err",
         UNCHANGED <<stack, format, recovering>>, depth' \in Nat
  PROVE  IInv'
<1>1. /\ IsSequence(input') /\ Len(input') \in Nat /\ pos \in Nat /\ pos < Len(input')
      /\ \A k \in 1 .. Len(input') : LexemeOK(input'[k])
  BY PeekFacts
<1>2. Shape'
  <2>1. pos' \in 0 .. Len(input')
    BY <1>1
  <2> QED BY <1>1, <2>1 DEF IInv, Shape
<1>3. StackOK'
  BY DEF IInv, StackOK
<1>4. StepOK' /\ DepthOK' /\ DialectOK' /\ FirstOK'
  BY DEF StepOK, DepthOK, DialectOK, FirstOK, Returned
<1> QED BY <1>2, <1>3, <1>4 DEF IInv

LEMMA RejectIInv ==
  ASSUME IInv, NEW t, Ahead(t), Reject(t), depth' \in Nat
  PROVE  IInv'
<1>1. /\ Peek(t) /\ (pos' = pos \/ pos' = pos + 1) /\ UNCHANGED <<stack, format, recovering>>
      /\ step'.op = "Err"
  BY DEF Reject, Take, Error
<1> QED BY <1>1, FailIInv

(* What is consumed by one that is no literal leaves the dialect alone.    *)
LEMMA TakeFacts ==
  ASSUME NEW t, Take(t)
  PROVE  /\ Peek(t) /\ (pos' = pos \/ pos' = pos + 1)
         /\ t.kind # "Literal" => ~ GnuLiteral(t)
BY DEF Take, GnuLiteral

-----------------------------------------------------------------------------
(***************************************************************************)
(* The stack, when it is kept, pushed, popped, or its top is replaced.     *)
(***************************************************************************)
LEMMA StackFacts ==
  ASSUME IInv
  PROVE  /\ IsSequence(stack) /\ Len(stack) \in Nat /\ depth \in Nat /\ recovering \in BOOLEAN
         /\ stack # << >> => /\ Len(stack) \in Nat \ {0} /\ Top = stack[Len(stack)] /\ IsFrame(Top)
                             /\ Top.implicit <=> recovering /\ Len(stack) = 1
                             /\ Top.implicit => Top.name = "dictionary"
         /\ stack = << >> => Len(stack) = 0
<1>1. IsSequence(stack) /\ depth \in Nat /\ recovering \in BOOLEAN
  BY DEF IInv, Shape
<1>2. /\ Len(stack) \in Nat
      /\ stack # << >> => Len(stack) \in Nat \ {0}
      /\ stack = << >> => Len(stack) = 0
  BY <1>1, SequenceFacts
<1>3. ASSUME stack # << >>
      PROVE  /\ Top = stack[Len(stack)] /\ IsFrame(Top)
             /\ Top.implicit <=> recovering /\ Len(stack) = 1
             /\ Top.implicit => Top.name = "dictionary"
  <2> PICK n : n = Len(stack)
    OBVIOUS
  <2>1. Top = stack[n] /\ n \in 1 .. Len(stack)
    BY <1>2, <1>3 DEF Top
  <2>2. /\ IsFrame(stack[n]) /\ (stack[n].implicit <=> recovering /\ n = 1)
        /\ stack[n].implicit => stack[n].name = "dictionary"
    BY <2>1 DEF IInv, StackOK
  <2> QED BY <2>1, <2>2
<1> QED BY <1>1, <1>2, <1>3

LEMMA StackKept ==
  ASSUME IInv, UNCHANGED <<stack, recovering>>
  PROVE  StackOK' /\ IsSequence(stack') /\ Levels' = Levels /\ Top' = Top
BY DEF IInv, Shape, StackOK, Levels, Top

LEMMA StackReplaced ==
  ASSUME IInv, stack # << >>, NEW f, IsFrame(f), f.name = Top.name, f.implicit = Top.implicit,
         stack' = WithTop(f), UNCHANGED recovering
  PROVE  StackOK' /\ IsSequence(stack') /\ stack' # << >> /\ Levels' = Levels /\ Top' = f
<1> PICK n \in Nat \ {0} : n = Len(stack) /\ IsSequence(stack)
  BY StackFacts
<1>1. /\ IsSequence(stack') /\ stack' # << >> /\ Len(stack') = n
      /\ stack'[n] = f /\ \A k \in 1 .. n : k # n => stack'[k] = stack[k]
  <2>1. stack' = Replaced(stack, f)
    BY DEF WithTop, Replaced
  <2> QED BY <2>1, ReplaceLast
<1>2. f.name = stack[n].name /\ f.implicit = stack[n].implicit
  BY DEF Top
<1>3. ASSUME NEW d \in 1 .. n
      PROVE  /\ IsFrame(stack'[d])
             /\ stack'[d].implicit <=> recovering /\ d = 1
             /\ stack'[d].implicit => stack'[d].name = "dictionary"
             /\ stack'[d].name = "dictionary" /\ d < n => stack'[d].key # {}
  <2>1. CASE d = n
    BY <1>1, <1>2, <2>1 DEF IInv, StackOK
  <2>2. CASE d # n
    <3>1. stack'[d] = stack[d]
      BY <1>1, <2>2
    <3> QED BY <3>1 DEF IInv, StackOK
  <2> QED BY <2>1, <2>2
<1>4. StackOK'
  BY <1>1, <1>3 DEF StackOK
<1>5. Levels' = Levels /\ Top' = f
  BY <1>1 DEF Levels, Top
<1> QED BY <1>1, <1>4, <1>5

LEMMA StackPushed ==
  ASSUME IInv, NEW f, IsFrame(f), f.implicit = FALSE, stack' = Extended(stack, f), UNCHANGED recovering,
         recovering => stack # << >>, stack # << >> => (Top.key # {} <=> Top.name = "dictionary")
  PROVE  StackOK' /\ IsSequence(stack') /\ stack' # << >> /\ Levels' = Levels + 1 /\ Top' = f
<1> PICK n \in Nat : n = Len(stack) /\ IsSequence(stack)
  BY StackFacts
<1>1. /\ IsSequence(stack') /\ stack' # << >> /\ Len(stack') = n + 1
      /\ \A k \in 1 .. n : stack'[k] = stack[k]
      /\ stack'[n + 1] = f
  BY AppendSequence
<1>2. (stack # << >> => n # 0) /\ (stack = << >> => n = 0)
  BY StackFacts
<1>3. IsFrame(stack'[n + 1]) /\ stack'[n + 1].implicit = FALSE
  BY <1>1
<1>4. recovering => n # 0
  BY <1>2
<1>5. ASSUME NEW d \in 1 .. n
      PROVE  /\ stack'[d] = stack[d] /\ IsFrame(stack[d])
             /\ stack[d].implicit <=> recovering /\ d = 1
             /\ stack[d].implicit => stack[d].name = "dictionary"
             /\ stack[d].name = "dictionary" /\ d < n => stack[d].key # {}
  BY <1>1 DEF IInv, StackOK
<1>6. n # 0 => (stack[n].name = "dictionary" => stack[n].key # {})
  BY <1>2 DEF Top
<1>7. ASSUME NEW d \in 1 .. n + 1
      PROVE  /\ IsFrame(stack'[d])
             /\ stack'[d].implicit <=> recovering /\ d = 1
             /\ stack'[d].implicit => stack'[d].name = "dictionary"
             /\ stack'[d].name = "dictionary" /\ d < n + 1 => stack'[d].key # {}
  <2>1. CASE d = n + 1
    BY <1>3, <1>4, <2>1
  <2>2. CASE d # n + 1
    <3>1. d \in 1 .. n /\ (d < n \/ d = n) /\ n # 0
      BY <2>2
    <3> QED BY <1>5, <1>6, <3>1
  <2> QED BY <2>1, <2>2
<1>8. StackOK'
  BY <1>1, <1>7 DEF StackOK
<1>9. Levels' = Levels + 1
  BY <1>1, <1>2 DEF Levels
<1>10. Top' = f
  BY <1>1 DEF Top
<1> QED BY <1>1, <1>8, <1>9, <1>10

LEMMA StackPopped ==
  ASSUME IInv, stack # << >>, stack' = Pop, UNCHANGED recovering
  PROVE  /\ StackOK' /\ IsSequence(stack')
         /\ stack' # << >> => (Top'.key # {} <=> Top'.name = "dictionary")
         /\ Levels' = IF Top.implicit THEN Levels ELSE Levels - 1
         /\ Levels \in Nat /\ (~ Top.implicit => Levels \in Nat \ {0})
<1> PICK n \in Nat \ {0} : n = Len(stack) /\ IsSequence(stack)
  BY StackFacts
<1>1. /\ IsSequence(stack') /\ Len(stack') = n - 1
      /\ \A k \in 1 .. n - 1 : stack'[k] = stack[k]
  <2>1. stack' = Popped(stack)
    BY DEF Pop, Popped
  <2> QED BY <2>1, PopSequence
<1>2. ASSUME NEW d \in 1 .. n - 1
      PROVE  /\ IsFrame(stack'[d])
             /\ stack'[d].implicit <=> recovering /\ d = 1
             /\ stack'[d].implicit => stack'[d].name = "dictionary"
             /\ stack'[d].name = "dictionary" => stack'[d].key # {}
  <2>1. stack'[d] = stack[d] /\ d \in 1 .. n /\ d < n
    BY <1>1
  <2> QED BY <2>1 DEF IInv, StackOK
<1>3. StackOK'
  BY <1>1, <1>2 DEF StackOK
<1>4. (stack' # << >> => n - 1 \in Nat \ {0}) /\ (stack' = << >> => n - 1 = 0)
  BY <1>1, SequenceFacts
<1>5. ASSUME stack' # << >> PROVE Top'.key # {} <=> Top'.name = "dictionary"
  <2>1. Top' = stack'[n - 1] /\ n - 1 \in 1 .. n - 1
    BY <1>1, <1>4, <1>5 DEF Top
  <2>2. Top'.name = "dictionary" => Top'.key # {}
    BY <1>2, <2>1
  <2>3. IsFrame(Top')
    BY <1>2, <2>1
  <2> QED BY <2>2, <2>3 DEF IsFrame
<1>6. Top.implicit <=> recovering /\ n = 1
  BY StackFacts
<1>7. Levels = (IF recovering THEN n - 1 ELSE n) /\ Levels' = IF recovering /\ n # 1 THEN n - 2 ELSE n - 1
  BY <1>1, <1>4 DEF Levels
<1> QED BY <1>1, <1>3, <1>5, <1>6, <1>7, StackFacts

-----------------------------------------------------------------------------
(***************************************************************************)
(* The actions.                                                            *)
(***************************************************************************)
(* Punctuation and the end of the input are never literals.                *)
LEMMA MarksAreNoLiterals ==
  /\ \A c : Mark(c).kind = "Mark"
  /\ Eof.kind = "Eof"
BY DEF Mark, Eof

LEMMA Going ==
  ASSUME IInv, step.op \in {"Open", "Advance", "AfterKey", "Deliver", "Finish"}
  PROVE  /\ ~ Returned /\ depth = Levels /\ depth <= MaxParseDepth /\ depth \in Nat /\ step.op # "Err"
         /\ stack = << >> => Len(stack) = 0
BY StackFacts DEF IInv, DepthOK, Returned

LEMMA InitIInv == Init => IInv
<1> SUFFICES ASSUME Init PROVE IInv
  OBVIOUS
<1>1. IsSequence(<< >>) /\ Len(<< >>) = 0
  <2>1. << >> \in Seq({}) /\ Len(<< >>) = 0
    BY EmptySeq
  <2> QED BY <2>1, SequenceOfElements
<1>2. /\ input = << >> /\ stack = << >> /\ pos = 0 /\ depth = 0
      /\ format = "OpenStep" /\ recovering = FALSE /\ step.op = "Open"
  BY DEF Init, Open
<1>3. Len(input) = 0 /\ Len(stack) = 0 /\ IsSequence(input) /\ IsSequence(stack)
  BY <1>1, <1>2
<1>4. Shape
  <2>1. pos \in 0 .. Len(input) /\ depth \in Nat
    BY <1>2, <1>3
  <2>2. \A k \in 1 .. Len(input) : LexemeOK(input[k])
    BY <1>3
  <2>3. format \in {"OpenStep", "GnuStep"}
    BY <1>2
  <2>4. recovering \in BOOLEAN
    BY <1>2
  <2> QED BY <1>3, <2>1, <2>2, <2>3, <2>4 DEF Shape
<1>5. StackOK
  BY <1>3 DEF StackOK
<1>6. StepOK
  BY <1>2 DEF StepOK
<1>7. DepthOK
  BY <1>2, <1>3, TextAssumption DEF DepthOK, Levels
<1>8. DialectOK /\ FirstOK
  BY <1>2 DEF DialectOK, FirstOK
<1> QED BY <1>4, <1>5, <1>6, <1>7, <1>8 DEF IInv

LEMMA OpenTooDeepIInv ==
  ASSUME IInv, OpenTooDeep
  PROVE  IInv'
<1>1. UNCHANGED <<input, pos, stack, format, recovering>> /\ depth' = depth + 1 /\ step'.op = "Err"
  BY DEF OpenTooDeep, Error
<1>2. depth' \in Nat
  BY <1>1 DEF IInv, Shape
<1>3. Shape' /\ StackOK'
  BY <1>1, <1>2 DEF IInv, Shape, StackOK
<1>4. StepOK' /\ DepthOK' /\ DialectOK' /\ FirstOK'
  BY <1>1 DEF StepOK, DepthOK, DialectOK, FirstOK, Returned
<1> QED BY <1>3, <1>4 DEF IInv

LEMMA OpenScalarIInv ==
  ASSUME IInv, NEW t, Ahead(t), OpenScalar(t)
  PROVE  IInv'
<1>1. /\ step.op = "Open" /\ Take(t) /\ UNCHANGED <<stack, depth, recovering>>
      /\ format' = IF t.kind = "Literal" /\ t.dialect = "GnuStep" THEN "GnuStep" ELSE format
  BY DEF OpenScalar
<1> PICK value \in ScalarAt(t) : step' = Deliver(value)
  BY DEF OpenScalar
<1>2. step'.op = "Deliver" /\ step'.value = value
  BY DEF Deliver
<1>3. /\ StackOK' /\ IsSequence(stack') /\ Levels' = Levels /\ Top' = Top
      /\ ~ Returned /\ depth = Levels /\ depth <= MaxParseDepth /\ depth \in Nat /\ step.op # "Err"
  BY <1>1, StackKept, Going
<1>4. StepOK'
  BY <1>1, <1>2, <1>3 DEF IInv, StepOK
<1>5. DepthOK'
  BY <1>1, <1>3 DEF DepthOK
<1>6. t = Eof \/ t.kind = "Str" \/ t.kind = "Literal"
  BY DEF ScalarAt
<1>7. t.kind = "Literal" => value.type # "string"
  <2>1. t.kind = "Literal" => t # Eof
    BY DEF Eof
  <2>2. t.kind = "Literal" => value = t.value
    BY <2>1 DEF ScalarAt
  <2> QED BY <2>2 DEF Ahead, LexemeOK
<1>8. FirstOK'
  BY <1>1, <1>2, <1>7 DEF IInv, FirstOK
<1>9. format' = IF GnuLiteral(t) /\ pos' = pos + 1 THEN "GnuStep" ELSE format
  <2>1. t.kind = "Literal" => t # Eof
    BY DEF Eof
  <2> QED BY <1>1, <2>1 DEF Take, GnuLiteral
<1> QED BY <1>1, <1>3, <1>4, <1>5, <1>8, <1>9, TakeFacts, ReadOn

LEMMA OpenContainerIInv ==
  ASSUME IInv, NEW t, Ahead(t), OpenContainer(t)
  PROVE  IInv'
<1> PICK name \in {"dictionary", "array"} : stack' = Extended(stack, Frame(name, FALSE))
  <2>1. stack' = Extended(stack, Frame(IF t = Mark("{") THEN "dictionary" ELSE "array", FALSE))
    BY DEF OpenContainer, Extended
  <2> QED BY <2>1, Zenon
<1> PICK f : f = Frame(name, FALSE)
  OBVIOUS
<1>0. ~ TooDeep /\ depth' = depth + 1
  BY DEF OpenContainer
<1>1. step.op = "Open" /\ Take(t) /\ UNCHANGED <<format, recovering>>
  BY DEF OpenContainer
<1>2. step'.op = "Advance"
  BY DEF OpenContainer, Advance
<1>3. t.kind # "Literal"
  <2>1. t = Mark("{") \/ t = Mark("(")
    BY DEF OpenContainer
  <2> QED BY <2>1, MarksAreNoLiterals
<1>4. stack' = Extended(stack, f)
  OBVIOUS
<1>5. IsFrame(f) /\ f.key = {} /\ f.implicit = FALSE
  BY DEF Frame, IsFrame
<1>6. depth = Levels /\ depth <= MaxParseDepth /\ depth \in Nat /\ step.op # "Err"
  BY <1>1, Going
<1>7. recovering => stack # << >>
  BY <1>1 DEF IInv, FirstOK
<1>8. stack # << >> => (Top.key # {} <=> Top.name = "dictionary")
  BY <1>1 DEF IInv, StepOK
<1>9. /\ StackOK' /\ IsSequence(stack') /\ stack' # << >> /\ Levels' = Levels + 1 /\ Top' = f
  BY <1>1, <1>4, <1>5, <1>7, <1>8, StackPushed
<1>10. StepOK'
  BY <1>2, <1>5, <1>9 DEF StepOK
<1>11. DepthOK' /\ depth' \in Nat
  <2>1. depth \in Nat /\ MaxParseDepth \in Nat
    BY <1>6, TextAssumption
  <2>2. ~ (depth + 1 > MaxParseDepth)
    BY <1>0 DEF TooDeep
  <2>3. depth + 1 <= MaxParseDepth /\ depth + 1 \in Nat
    BY <2>1, <2>2
  <2>4. Levels' = depth + 1
    BY <1>6, <1>9
  <2>5. depth' = Levels' /\ depth' <= MaxParseDepth /\ depth' \in Nat
    BY <1>0, <2>3, <2>4
  <2> QED BY <2>5 DEF DepthOK
<1>12. FirstOK'
  BY <1>2 DEF FirstOK
<1> QED BY <1>1, <1>3, <1>6, <1>9, <1>10, <1>11, <1>12, TakeFacts, ReadOn

LEMMA CloseDictionaryIInv ==
  ASSUME IInv, NEW t, Ahead(t), CloseDictionary(t)
  PROVE  IInv'
<1> PICK value : value = maybe_uid(Top.collected, format = "OpenStep")
  OBVIOUS
<1>1. /\ step.op = "Advance" /\ Take(t) /\ t.kind # "Literal" /\ stack' = Pop /\ step' = Deliver(value)
      /\ depth' = (IF Top.implicit THEN depth ELSE depth - 1) /\ UNCHANGED <<format, recovering>>
  <2>1. t = Mark("}") \/ t = Eof
    BY DEF CloseDictionary
  <2>2. t.kind # "Literal"
    BY <2>1, MarksAreNoLiterals
  <2>3. step' = Deliver(value)
    BY Zenon DEF CloseDictionary
  <2> QED BY <2>2, <2>3 DEF CloseDictionary, InDictionary
<1>2. step'.op = "Deliver" /\ step'.value = value /\ value.type # "string"
  BY <1>1 DEF Deliver, maybe_uid, Uid, Dictionary, Mapping
<1>3. /\ stack # << >> /\ depth = Levels /\ depth <= MaxParseDepth /\ depth \in Nat /\ step.op # "Err"
  BY <1>1, Going DEF IInv, StepOK
<1>4. /\ StackOK' /\ IsSequence(stack')
      /\ stack' # << >> => (Top'.key # {} <=> Top'.name = "dictionary")
      /\ Levels' = IF Top.implicit THEN Levels ELSE Levels - 1
      /\ Levels \in Nat /\ (~ Top.implicit => Levels \in Nat \ {0})
  BY <1>1, <1>3, StackPopped
<1>5. StepOK'
  BY <1>2, <1>4 DEF StepOK
<1>6. DepthOK' /\ depth' \in Nat
  BY <1>1, <1>3, <1>4, TextAssumption DEF DepthOK
<1>7. FirstOK'
  BY <1>2 DEF FirstOK
<1> QED BY <1>1, <1>3, <1>4, <1>5, <1>6, <1>7, TakeFacts, ReadOn

LEMMA CloseArrayIInv ==
  ASSUME IInv, NEW t, Ahead(t), CloseArray(t)
  PROVE  IInv'
<1>1. /\ step.op = "Advance" /\ Take(t) /\ t.kind # "Literal" /\ stack' = Pop /\ step' = Deliver(Array(Top.collected))
      /\ depth' = (IF Top.implicit THEN depth ELSE depth - 1) /\ UNCHANGED <<format, recovering>>
  BY DEF CloseArray, InArray, Mark
<1>2. step'.op = "Deliver" /\ step'.value.type # "string"
  BY <1>1 DEF Deliver, Array
<1>3. /\ stack # << >> /\ depth = Levels /\ depth <= MaxParseDepth /\ depth \in Nat /\ step.op # "Err"
  BY <1>1, Going DEF IInv, StepOK
<1>4. /\ StackOK' /\ IsSequence(stack')
      /\ stack' # << >> => (Top'.key # {} <=> Top'.name = "dictionary")
      /\ Levels' = IF Top.implicit THEN Levels ELSE Levels - 1
      /\ Levels \in Nat /\ (~ Top.implicit => Levels \in Nat \ {0})
  BY <1>1, <1>3, StackPopped
<1>5. StepOK'
  BY <1>2, <1>4 DEF StepOK
<1>6. DepthOK' /\ depth' \in Nat
  BY <1>1, <1>3, <1>4, TextAssumption DEF DepthOK
<1>7. FirstOK'
  BY <1>2 DEF FirstOK
<1> QED BY <1>1, <1>3, <1>4, <1>5, <1>6, <1>7, TakeFacts, ReadOn

(* The steps that leave stack and depth alone, and are in a container.     *)
LEMMA ReadInside ==
  ASSUME IInv, NEW t, Ahead(t), Peek(t), pos' = pos \/ pos' = pos + 1, ~ GnuLiteral(t) \/ pos' = pos,
         step.op \in {"Advance", "AfterKey"}, UNCHANGED <<stack, depth, format, recovering>>,
         \/ step'.op = "Advance" /\ step.op = "Advance"
         \/ step'.op = "AfterKey" /\ Top.name = "dictionary"
         \/ step'.op = "Open" /\ Top.name = "array"
  PROVE  IInv'
<1>1. /\ StackOK' /\ IsSequence(stack') /\ Levels' = Levels /\ Top' = Top
      /\ depth = Levels /\ depth <= MaxParseDepth /\ depth \in Nat /\ step.op # "Err"
      /\ stack # << >> /\ Top.key = {}
  BY StackKept, Going DEF IInv, StepOK
<1>2. StepOK'
  BY <1>1 DEF StepOK
<1>3. DepthOK' /\ FirstOK'
  BY <1>1 DEF DepthOK, FirstOK
<1>4. format' = IF GnuLiteral(t) /\ pos' = pos + 1 THEN "GnuStep" ELSE format
  <2>1. pos \in Int
    BY PeekFacts
  <2> QED BY <2>1
<1> QED BY <1>1, <1>2, <1>3, <1>4, ReadOn

LEMMA ReadKeyIInv ==
  ASSUME IInv, NEW t, Ahead(t), ReadKey(t)
  PROVE  IInv'
<1>1. /\ step.op = "Advance" /\ Top.name = "dictionary" /\ Take(t) /\ t.kind # "Literal" /\ step'.op = "AfterKey"
      /\ UNCHANGED <<stack, depth, format, recovering>>
  BY DEF ReadKey, InDictionary, AfterKey
<1> QED BY <1>1, TakeFacts, ReadInside

LEMMA SkipCommaIInv ==
  ASSUME IInv, NEW t, Ahead(t), SkipComma(t)
  PROVE  IInv'
<1>1. /\ step.op = "Advance" /\ Take(t) /\ t.kind # "Literal" /\ step' = step
      /\ UNCHANGED <<stack, depth, format, recovering>>
  BY DEF SkipComma, InArray, Mark
<1> QED BY <1>1, TakeFacts, ReadInside

LEMMA ReadElementIInv ==
  ASSUME IInv, NEW t, Ahead(t), ReadElement(t)
  PROVE  IInv'
<1>1. /\ step.op = "Advance" /\ Top.name = "array" /\ Peek(t) /\ pos' = pos /\ step'.op = "Open"
      /\ UNCHANGED <<stack, depth, format, recovering>>
  BY DEF ReadElement, InArray, Open
<1> QED BY <1>1, ReadInside

(* The steps that replace the top.                                         *)
LEMMA ReplaceInside ==
  ASSUME IInv, NEW t, Ahead(t), Take(t), t.kind # "Literal", stack # << >>,
         step.op \in {"Open", "Advance", "AfterKey", "Deliver"},
         NEW f, IsFrame(f), f.name = "dictionary", Top.name = "dictionary", f.implicit = Top.implicit,
         stack' = WithTop(f), UNCHANGED <<depth, format, recovering>>,
         \/ step'.op = "Advance" /\ f.key = {}
         \/ step'.op = "Open" /\ f.key # {}
  PROVE  IInv'
<1>1. StackOK' /\ IsSequence(stack') /\ stack' # << >> /\ Levels' = Levels /\ Top' = f
  BY StackReplaced
<1>2. depth = Levels /\ depth <= MaxParseDepth /\ depth \in Nat /\ step.op # "Err"
  BY Going
<1>3. StepOK'
  BY <1>1 DEF StepOK
<1>4. DepthOK' /\ FirstOK'
  BY <1>1, <1>2 DEF DepthOK, FirstOK
<1> QED BY <1>1, <1>2, <1>3, <1>4, TakeFacts, ReadOn

LEMMA FrameChanges ==
  ASSUME NEW f, IsFrame(f), f.name = "dictionary", NEW g, g.name = f.name, g.implicit = f.implicit,
         g = [name |-> g.name, collected |-> g.collected, key |-> g.key, implicit |-> g.implicit],
         g.key = f.key \/ g.key = {} \/ \E k : g.key = {k}
  PROVE  IsFrame(g) /\ g.name = "dictionary"
BY DEF IsFrame

LEMMA FrameFields ==
  ASSUME NEW f, IsFrame(f), NEW c, NEW k
  PROVE  /\ [f EXCEPT !.collected = c] =
              [name |-> f.name, collected |-> c, key |-> f.key, implicit |-> f.implicit]
         /\ [f EXCEPT !.key = k] =
              [name |-> f.name, collected |-> f.collected, key |-> k, implicit |-> f.implicit]
         /\ [f EXCEPT !.collected = c, !.key = k] =
              [name |-> f.name, collected |-> c, key |-> k, implicit |-> f.implicit]
<1> PICK name, collected, key, implicit :
      f = [name |-> name, collected |-> collected, key |-> key, implicit |-> implicit]
  BY DEF IsFrame
<1>1. [f EXCEPT !.collected = c] = [name |-> name, collected |-> c, key |-> key, implicit |-> implicit]
  OBVIOUS
<1>2. [f EXCEPT !.key = k] = [name |-> name, collected |-> collected, key |-> k, implicit |-> implicit]
  OBVIOUS
<1>3. [f EXCEPT !.collected = c, !.key = k] = [[f EXCEPT !.collected = c] EXCEPT !.key = k]
  OBVIOUS
<1>4. [[f EXCEPT !.collected = c] EXCEPT !.key = k] =
        [name |-> name, collected |-> c, key |-> k, implicit |-> implicit]
  <2>1. ASSUME NEW g, g = [name |-> name, collected |-> c, key |-> key, implicit |-> implicit]
        PROVE  [g EXCEPT !.key = k] = [name |-> name, collected |-> c, key |-> k, implicit |-> implicit]
    BY <2>1
  <2> QED BY <1>1, <2>1
<1>5. f.name = name /\ f.collected = collected /\ f.key = key /\ f.implicit = implicit
  OBVIOUS
<1> QED BY <1>1, <1>2, <1>3, <1>4, <1>5

LEMMA ReadShorthandIInv ==
  ASSUME IInv, NEW t, Ahead(t), ReadShorthand(t)
  PROVE  IInv'
<1> PICK c : c = Append(Top.collected, Entry(step.text, String(step.text)))
  OBVIOUS
<1> PICK f : f = [Top EXCEPT !.collected = c]
  OBVIOUS
<1>1. /\ step.op = "AfterKey" /\ Take(t) /\ t.kind # "Literal" /\ stack' = WithTop(f) /\ step'.op = "Advance"
      /\ UNCHANGED <<depth, format, recovering>>
  BY DEF ReadShorthand, Advance, Mark
<1>2. stack # << >> /\ Top.name = "dictionary" /\ Top.key = {} /\ IsFrame(Top)
  BY <1>1, StackFacts DEF IInv, StepOK
<1>3. f = [name |-> Top.name, collected |-> c, key |-> Top.key, implicit |-> Top.implicit]
  BY <1>2, FrameFields
<1>4. IsFrame(f) /\ f.key = {} /\ f.name = "dictionary" /\ f.implicit = Top.implicit
  BY <1>2, <1>3, FrameChanges
<1> QED BY <1>1, <1>2, <1>4, ReplaceInside

LEMMA ReadEqualsIInv ==
  ASSUME IInv, NEW t, Ahead(t), ReadEquals(t)
  PROVE  IInv'
<1> PICK f : f = [Top EXCEPT !.key = {step.text}]
  OBVIOUS
<1>1. /\ step.op = "AfterKey" /\ Take(t) /\ t.kind # "Literal" /\ stack' = WithTop(f) /\ step'.op = "Open"
      /\ UNCHANGED <<depth, format, recovering>>
  BY DEF ReadEquals, Open, Mark
<1>2. stack # << >> /\ Top.name = "dictionary" /\ IsFrame(Top)
  BY <1>1, StackFacts DEF IInv, StepOK
<1>3. f = [name |-> Top.name, collected |-> Top.collected, key |-> {step.text}, implicit |-> Top.implicit]
  BY <1>2, FrameFields
<1>4. IsFrame(f) /\ f.key # {} /\ f.name = "dictionary" /\ f.implicit = Top.implicit
  BY <1>2, <1>3, FrameChanges
<1> QED BY <1>1, <1>2, <1>4, ReplaceInside

LEMMA DeliverEntryIInv ==
  ASSUME IInv, NEW t, Ahead(t), DeliverEntry(t)
  PROVE  IInv'
<1> PICK c : c = Append(Top.collected, Entry(CHOOSE k \in Top.key : TRUE, step.value))
  OBVIOUS
<1> PICK f : f = [Top EXCEPT !.collected = c, !.key = {}]
  OBVIOUS
<1>1. /\ step.op = "Deliver" /\ stack # << >> /\ Top.name = "dictionary" /\ Take(t) /\ t.kind # "Literal"
      /\ stack' = WithTop(f) /\ step'.op = "Advance" /\ UNCHANGED <<depth, format, recovering>>
  BY DEF DeliverEntry, InFrame, Advance, Mark
<1>2. IsFrame(Top)
  BY <1>1, StackFacts
<1>3. f = [name |-> Top.name, collected |-> c, key |-> {}, implicit |-> Top.implicit]
  BY <1>2, FrameFields
<1>4. IsFrame(f) /\ f.key = {} /\ f.name = "dictionary" /\ f.implicit = Top.implicit
  BY <1>1, <1>2, <1>3, FrameChanges
<1> QED BY <1>1, <1>2, <1>4, ReplaceInside

(* Steps that look at nothing.                                             *)
LEMMA Unread ==
  ASSUME IInv, UNCHANGED <<input, pos, depth, format, recovering>>, step.op # "Err",
         IsSequence(stack'), StackOK', StepOK', DepthOK', FirstOK'
  PROVE  IInv'
<1>1. Shape' /\ DialectOK'
  BY DEF IInv, Shape, DialectOK
<1> QED BY <1>1 DEF IInv

LEMMA DeliverElementIInv ==
  ASSUME IInv, DeliverElement
  PROVE  IInv'
<1>1. /\ step.op = "Deliver" /\ stack # << >> /\ Top.name = "array" /\ step'.op = "Advance"
      /\ UNCHANGED <<input, pos, depth, format, recovering>>
  BY DEF DeliverElement, InFrame, Advance
<1>2. IsFrame(Top) /\ Top.key = {}
  BY <1>1, StackFacts DEF IInv, StepOK
<1>3. StackOK' /\ IsSequence(stack') /\ Levels' = Levels /\ Top'.key = {} /\ stack' # << >>
  <2>1. CASE stack' = stack
    BY <1>1, <1>2, <2>1, StackKept
  <2>2. CASE stack' # stack
    <3> PICK c : c = Append(Top.collected, step.value)
      OBVIOUS
    <3> PICK f : f = [Top EXCEPT !.collected = c]
      OBVIOUS
    <3>1. stack' = WithTop(f)
      BY <2>2 DEF DeliverElement
    <3>2. IsFrame(f) /\ f.name = Top.name /\ f.implicit = Top.implicit /\ f.key = {}
      BY <1>2 DEF IsFrame
    <3> QED BY <1>1, <3>1, <3>2, StackReplaced
  <2> QED BY <2>1, <2>2
<1>4. depth = Levels /\ depth <= MaxParseDepth /\ step.op # "Err"
  BY <1>1, Going
<1>5. StepOK' /\ FirstOK'
  BY <1>1, <1>3 DEF StepOK, FirstOK
<1>6. DepthOK'
  BY <1>1, <1>3, <1>4 DEF DepthOK
<1> QED BY <1>1, <1>3, <1>4, <1>5, <1>6, Unread

LEMMA DeliverOutIInv ==
  ASSUME IInv, DeliverOut
  PROVE  IInv'
<1>1. /\ step.op = "Deliver" /\ stack = << >> /\ UNCHANGED <<input, pos, stack, depth, format, recovering>>
      /\ step' = IF recovering THEN Return(step.value) ELSE Finish(step.value)
  BY DEF DeliverOut
<1>2. /\ recovering => step'.op = "Ok"
      /\ ~ recovering => step'.op = "Finish" /\ step'.value = step.value
  BY <1>1 DEF Return, Finish
<1>3. StackOK' /\ IsSequence(stack') /\ Levels' = Levels
  BY <1>1, StackKept
<1>4. depth = Levels /\ depth <= MaxParseDepth /\ step.op # "Err"
  BY <1>1, Going
<1>5. StepOK' /\ FirstOK'
  BY <1>1, <1>2 DEF StepOK, FirstOK, IInv
<1>6. DepthOK'
  BY <1>1, <1>3, <1>4 DEF DepthOK
<1> QED BY <1>1, <1>3, <1>4, <1>5, <1>6, Unread

LEMMA AcceptIInv ==
  ASSUME IInv, NEW t, Ahead(t), Accept(t)
  PROVE  IInv'
<1>1. /\ step.op = "Finish" /\ Peek(t) /\ pos' = pos /\ step'.op = "Ok"
      /\ UNCHANGED <<stack, depth, format, recovering>>
  BY DEF Accept, Return
<1>2. StackOK' /\ IsSequence(stack') /\ depth \in Nat /\ step.op # "Err"
  BY <1>1, StackKept, Going
<1>3. StepOK' /\ FirstOK' /\ DepthOK'
  BY <1>1 DEF StepOK, FirstOK, DepthOK, Returned
<1>4. format' = IF GnuLiteral(t) /\ pos' = pos + 1 THEN "GnuStep" ELSE format
  <2>1. pos \in Int
    BY <1>1, PeekFacts
  <2> QED BY <1>1, <2>1
<1> QED BY <1>1, <1>2, <1>3, <1>4, ReadOn

(* The second pass starts from nothing, and what the first has read, one   *)
(* string, leaves no mark on the dialect.                                  *)
LEMMA RecoverIInv ==
  ASSUME IInv, NEW t, Ahead(t), Recover(t)
  PROVE  IInv'
<1> PICK f : f = Frame("dictionary", TRUE)
  OBVIOUS
<1>1. /\ step.op = "Finish" /\ step.value.type = "string" /\ Peek(t) /\ pos' = 0 /\ stack' = <<f>>
      /\ step'.op = "Advance" /\ recovering' = TRUE /\ UNCHANGED <<depth, format>>
  BY DEF Recover, Advance
<1>2. IsFrame(f) /\ f.key = {} /\ f.implicit /\ f.name = "dictionary"
  BY DEF Frame, IsFrame
<1>3. IsSequence(stack') /\ Len(stack') = 1 /\ stack'[1] = f /\ stack' # << >>
  <2>1. stack' \in Seq({f}) /\ Len(stack') = 1 /\ stack'[1] = f
    BY <1>1
  <2>2. IsSequence(stack')
    BY <2>1, SequenceOfElements
  <2> QED BY <2>1, <2>2, SequenceFacts
<1>4. stack = << >> /\ ~ recovering /\ format = "OpenStep" /\ depth = Levels /\ depth <= MaxParseDepth /\ Len(stack) = 0
  BY <1>1, Going DEF IInv, StepOK, FirstOK
<1>5. Shape'
  <2>1. /\ IsSequence(input') /\ Len(input') \in Nat
        /\ \A k \in 1 .. Len(input') : LexemeOK(input'[k])
    BY <1>1, PeekFacts
  <2> QED BY <1>1, <1>3, <2>1 DEF IInv, Shape
<1>6. StackOK'
  <2>1. ASSUME NEW d \in 1 .. 1
        PROVE  /\ IsFrame(stack'[d])
               /\ stack'[d].implicit <=> recovering' /\ d = 1
               /\ stack'[d].implicit => stack'[d].name = "dictionary"
               /\ stack'[d].name = "dictionary" /\ d < 1 => stack'[d].key # {}
    <3>1. d = 1
      OBVIOUS
    <3>2. stack'[d] = f /\ recovering' = TRUE
      BY <1>1, <1>3, <3>1
    <3>3. stack'[d].implicit <=> recovering' /\ d = 1
      BY <1>2, <3>1, <3>2
    <3>4. IsFrame(stack'[d]) /\ stack'[d].name = "dictionary"
      BY <1>2, <3>2
    <3>5. ~ (d < 1)
      BY <3>1
    <3> QED BY <3>3, <3>4, <3>5
  <2> QED BY <1>3, <2>1 DEF StackOK
<1>7. StepOK'
  BY <1>1, <1>2, <1>3 DEF StepOK, Top
<1>8. DepthOK'
  BY <1>1, <1>3, <1>4 DEF DepthOK, Levels
<1>9. DialectOK' /\ FirstOK'
  BY <1>1, <1>4 DEF DialectOK, FirstOK
<1> QED BY <1>5, <1>6, <1>7, <1>8, <1>9 DEF IInv

(* Every other reading of a lexeme fails.                                  *)
LEMMA FailsIInv ==
  ASSUME IInv, NEW t, Ahead(t),
         OpenFails(t) \/ DictionaryFails(t) \/ KeyFails(t) \/ ArrayFails(t) \/ EntryFails(t) \/ DocumentFails(t)
  PROVE  IInv'
<1>1. depth \in Nat
  BY DEF IInv, Shape
<1>2. CASE DocumentFails(t)
  <2>1. Peek(t) /\ pos' = pos /\ step'.op = "Err" /\ UNCHANGED <<stack, depth, format, recovering>>
    BY <1>2 DEF DocumentFails, Error
  <2> QED BY <1>1, <2>1, FailIInv
<1>3. CASE OpenFails(t)
  <2>1. Reject(t) /\ depth' = depth + 1
    BY <1>3 DEF OpenFails
  <2>2. depth' \in Nat
    BY <1>1, <2>1
  <2> QED BY <2>1, <2>2, RejectIInv
<1>4. CASE DictionaryFails(t) \/ KeyFails(t) \/ ArrayFails(t) \/ EntryFails(t)
  BY <1>1, <1>4, RejectIInv DEF DictionaryFails, KeyFails, ArrayFails, EntryFails
<1> QED BY <1>2, <1>3, <1>4

LEMMA UnchangedIInv ==
  ASSUME IInv, UNCHANGED vars
  PROVE  IInv'
<1>1. UNCHANGED <<input, pos, stack, step, depth, format, recovering>>
  BY DEF vars
<1> QED BY <1>1 DEF IInv, Shape, StackOK, StepOK, DepthOK, DialectOK, FirstOK, Levels, Returned, Top

-----------------------------------------------------------------------------
(***************************************************************************)
(* Theorems.                                                               *)
(***************************************************************************)
(* Whatever lexemes come next, a step keeps the invariant.                 *)
LEMMA NextOnIInv ==
  ASSUME IInv, NEW lexemes, \A t \in lexemes : LexemeOK(t), NextOn(lexemes)
  PROVE  IInv'
<1>1. ASSUME NEW t, Ahead(t), Read(t) PROVE IInv'
  BY <1>1, OpenScalarIInv, OpenContainerIInv, CloseDictionaryIInv, ReadKeyIInv, ReadShorthandIInv, ReadEqualsIInv,
     CloseArrayIInv, SkipCommaIInv, ReadElementIInv, DeliverEntryIInv, AcceptIInv, RecoverIInv, FailsIInv DEF Read
<1>2. ASSUME NEW t \in IF pos < Len(input) THEN {input[pos + 1]} ELSE lexemes PROVE Ahead(t)
  <2>1. CASE pos < Len(input)
    <3>1. pos + 1 \in 1 .. Len(input) /\ t = input[pos + 1]
      BY <2>1, SequenceFacts DEF IInv, Shape
    <3> QED BY <3>1 DEF Ahead, IInv, Shape
  <2>2. CASE ~ (pos < Len(input))
    BY <2>2 DEF Ahead
  <2> QED BY <2>1, <2>2
<1>3. CASE OpenTooDeep \/ DeliverElement \/ DeliverOut \/ Stop
  BY <1>3, OpenTooDeepIInv, DeliverElementIInv, DeliverOutIInv, UnchangedIInv DEF Stop
<1> QED BY <1>1, <1>2, <1>3 DEF NextOn

(* The parser keeps the invariant (parser.rs:100-420).                     *)
THEOREM Invariance == Spec => []IInv
<1>1. Init => IInv
  BY InitIInv
<1>2. ASSUME IInv, [Next]_vars PROVE IInv'
  <2>1. ASSUME NEW t \in IF Len(input) < MaxLexemes THEN Lexemes \cup {Eof} ELSE {Eof}
        PROVE  LexemeOK(t)
    <3>1. LexemeOK(Eof)
      BY DEF LexemeOK, Eof
    <3> QED BY <3>1, LexemesAssumption
  <2>2. CASE Next
    BY <1>2, <2>1, <2>2, NextOnIInv DEF Next
  <2> QED BY <1>2, <2>2, UnchangedIInv
<1>3. IInv /\ [Next]_vars => IInv'
  BY <1>2
<1> QED BY <1>1, <1>3, PTL DEF Spec

(* A key awaits its value exactly while that value is read, and the        *)
(* dictionary without braces is the outermost and of the second pass only  *)
(* (parser.rs:240-420).                                                    *)
THEOREM TypeCorrect == Spec => []TypeOK
<1>1. IInv => TypeOK
  <2> SUFFICES ASSUME IInv PROVE TypeOK
    OBVIOUS
  <2>1. /\ pos \in 0 .. Len(input) /\ depth \in Nat
        /\ format \in {"OpenStep", "GnuStep"} /\ recovering \in BOOLEAN
    BY DEF IInv, Shape
  <2>2. DOMAIN stack = 1 .. Len(stack)
    BY SequenceFacts DEF IInv, Shape
  <2>3. ASSUME NEW d \in 1 .. Len(stack)
        PROVE  /\ FrameOK(stack[d])
               /\ stack[d].implicit = (recovering /\ d = 1)
               /\ stack[d].name = "dictionary" /\ d < Len(stack) => stack[d].key # {}
    <3> PICK f : f = stack[d]
      OBVIOUS
    <3>1. /\ IsFrame(f) /\ (f.implicit <=> recovering /\ d = 1) /\ (f.implicit => f.name = "dictionary")
          /\ f.name = "dictionary" /\ d < Len(stack) => f.key # {}
      BY DEF IInv, StackOK
    <3>2. f.implicit = (recovering /\ d = 1)
      BY <2>1, <3>1 DEF IsFrame
    <3>3. Cardinality(f.key) <= 1
      <4>1. f.key = {} \/ \E k : f.key = {k}
        BY <3>1 DEF IsFrame
      <4>2. Cardinality(f.key) \in {0, 1}
        BY <4>1, FS_EmptySet, FS_Singleton
      <4> QED BY <4>2
    <3>4. FrameOK(f)
      BY <3>1, <3>3 DEF FrameOK, IsFrame
    <3> QED BY <3>1, <3>2, <3>4
  <2>4. /\ step.op = "Advance" => stack # << >> /\ Top.key = {}
        /\ step.op = "AfterKey" => stack # << >> /\ Top.name = "dictionary" /\ Top.key = {}
        /\ step.op \in {"Open", "Deliver"} /\ stack # << >> => (Top.key # {} <=> Top.name = "dictionary")
    BY DEF IInv, StepOK
  <2> QED BY <2>1, <2>2, <2>3, <2>4 DEF TypeOK
<1> QED BY <1>1, Invariance, PTL

LEMMA IntervalSizes ==
  ASSUME NEW n \in Nat
  PROVE  Cardinality(1 .. n) = n /\ Cardinality(2 .. n) = IF n = 0 THEN 0 ELSE n - 1
<1>1. Cardinality(1 .. n) = IF 1 > n THEN 0 ELSE n - 1 + 1
  BY FS_Interval
<1>2. Cardinality(2 .. n) = IF 2 > n THEN 0 ELSE n - 2 + 1
  BY FS_Interval
<1> QED BY <1>1, <1>2

(* The counter is the number of the open containers with braces, on every  *)
(* way out of one and over both passes (parser.rs:128-135, depth.rs).      *)
THEOREM GuardsBalance == Spec => []DepthBalanced
<1>1. IInv => DepthBalanced
  <2> SUFFICES ASSUME IInv, ~ Returned
               PROVE  depth = Cardinality({d \in DOMAIN stack : ~ stack[d].implicit}) /\ depth <= MaxParseDepth
    BY DEF DepthBalanced
  <2> PICK n \in Nat : n = Len(stack) /\ DOMAIN stack = 1 .. n
    BY SequenceFacts DEF IInv, Shape
  <2>1. \A d \in 1 .. n : stack[d].implicit <=> recovering /\ d = 1
    BY DEF IInv, StackOK
  <2>2. depth = Levels /\ depth <= MaxParseDepth
    BY DEF IInv, DepthOK
  <2>3. stack = << >> <=> n = 0
    BY StackFacts
  <2>4. CASE recovering
    <3>1. {d \in 1 .. n : ~ stack[d].implicit} = 2 .. n
      BY <2>1, <2>4
    <3>2. Cardinality(2 .. n) = IF n = 0 THEN 0 ELSE n - 1
      BY IntervalSizes
    <3>3. depth = IF n = 0 THEN 0 ELSE n - 1
      BY <2>2, <2>3, <2>4 DEF Levels
    <3> QED BY <2>2, <3>1, <3>2, <3>3
  <2>5. CASE ~ recovering
    <3>1. {d \in 1 .. n : ~ stack[d].implicit} = 1 .. n
      BY <2>1, <2>5
    <3>2. Cardinality(1 .. n) = n
      BY IntervalSizes
    <3>3. depth = n
      BY <2>2, <2>5 DEF Levels
    <3> QED BY <2>2, <3>1, <3>2, <3>3
  <2> QED BY <2>4, <2>5
<1> QED BY <1>1, Invariance, PTL

(* The dialect that is reported is GNUStep exactly if a GNUStep literal    *)
(* was read, in the second pass as in the first (parser.rs:27-28).         *)
THEOREM DialectReported == Spec => []FormatTellsLiterals
<1>1. IInv => FormatTellsLiterals
  <2> SUFFICES ASSUME IInv, step.op = "Ok"
               PROVE  format = "GnuStep" <=>
                        \E k \in 1 .. pos : input[k].kind = "Literal" /\ input[k].dialect = "GnuStep"
    BY DEF FormatTellsLiterals
  <2> QED BY DEF IInv, DialectOK, GnuLiteral
<1> QED BY <1>1, Invariance, PTL

-----------------------------------------------------------------------------
(***************************************************************************)
(* The walker and the recursive parse.  A judgment <<c, o>> says that call *)
(* c returns o.  Follows is the rule of each call: the judgments in D about *)
(* the calls it makes are what c needs to return o.  A derivation is a set *)
(* of judgments each of which follows from others in the set.              *)
(***************************************************************************)
Follows(d, c, o, D) ==
  IF Continues(d, c) THEN <<Continuation(d, c), o>> \in D
  ELSE IF Asks(d, c)
       THEN \E p : /\ <<ChildCall(c), p>> \in D
                   /\ IF Resumes(d, c, p) THEN <<RestCall(d, c, p), o>> \in D
                      ELSE o = Settled(d, c, p)
       ELSE o = Answer(d, c)

Derivation(d, D) == \A c, o : <<c, o>> \in D => Follows(d, c, o, D)

Returns(d, c, o) == \E D : Derivation(d, D) /\ <<c, o>> \in D

LEMMA FollowsMore ==
  ASSUME NEW d, NEW c, NEW o, NEW D, NEW E, D \subseteq E, Follows(d, c, o, D)
  PROVE  Follows(d, c, o, E)
BY DEF Follows

LEMMA UnionDerives ==
  ASSUME NEW d, NEW D, NEW E, Derivation(d, D), Derivation(d, E)
  PROVE  Derivation(d, D \cup E)
<1> SUFFICES ASSUME NEW c, NEW o, <<c, o>> \in D \cup E
             PROVE  Follows(d, c, o, D \cup E)
  BY DEF Derivation
<1>1. Follows(d, c, o, D) \/ Follows(d, c, o, E)
  BY DEF Derivation
<1>2. D \subseteq D \cup E /\ E \subseteq D \cup E
  OBVIOUS
<1> QED BY <1>1, <1>2, FollowsMore

(* A call returns what follows from judgments that are derived. *)
LEMMA Concluded ==
  ASSUME NEW d, NEW D, Derivation(d, D), NEW c, NEW o, Follows(d, c, o, D)
  PROVE  Returns(d, c, o)
<1> PICK E : E = D \cup {<<c, o>>}
  OBVIOUS
<1>1. D \subseteq E /\ <<c, o>> \in E
  OBVIOUS
<1>2. ASSUME NEW b, NEW p, <<b, p>> \in E PROVE Follows(d, b, p, E)
  <2>1. CASE <<b, p>> \in D
    <3>1. Follows(d, b, p, D)
      BY <2>1 DEF Derivation
    <3> QED BY <1>1, <3>1, FollowsMore
  <2>2. CASE <<b, p>> = <<c, o>>
    <3>1. b = c /\ p = o
      BY <2>2
    <3> QED BY <1>1, <3>1, FollowsMore
  <2> QED BY <1>2, <2>1, <2>2
<1>3. Derivation(d, E)
  BY <1>2 DEF Derivation
<1> QED BY <1>1, <1>3 DEF Returns

(* The rules, call by call. *)
LEMMA AnswerRule ==
  ASSUME NEW d, NEW c, ~ Continues(d, c), ~ Asks(d, c)
  PROVE  Returns(d, c, Answer(d, c))
<1>1. Derivation(d, {})
  BY DEF Derivation
<1>2. Follows(d, c, Answer(d, c), {})
  BY DEF Follows
<1> QED BY <1>1, <1>2, Concluded

LEMMA ContinueRule ==
  ASSUME NEW d, NEW c, Continues(d, c), NEW o, Returns(d, Continuation(d, c), o)
  PROVE  Returns(d, c, o)
<1>1. PICK D : Derivation(d, D) /\ <<Continuation(d, c), o>> \in D
  BY DEF Returns
<1>2. Follows(d, c, o, D)
  BY <1>1 DEF Follows
<1> QED BY <1>1, <1>2, Concluded

LEMMA AskRule ==
  ASSUME NEW d, NEW c, ~ Continues(d, c), Asks(d, c), NEW p, Returns(d, ChildCall(c), p)
  PROVE  /\ ~ Resumes(d, c, p) => Returns(d, c, Settled(d, c, p))
         /\ Resumes(d, c, p) => \A o : Returns(d, RestCall(d, c, p), o) => Returns(d, c, o)
<1>1. PICK D : Derivation(d, D) /\ <<ChildCall(c), p>> \in D
  BY DEF Returns
<1>2. CASE ~ Resumes(d, c, p)
  <2>1. Follows(d, c, Settled(d, c, p), D)
    BY <1>1, <1>2 DEF Follows
  <2> QED BY <1>1, <1>2, <2>1, Concluded
<1>3. ASSUME Resumes(d, c, p), NEW o, Returns(d, RestCall(d, c, p), o) PROVE Returns(d, c, o)
  <2>1. PICK E : Derivation(d, E) /\ <<RestCall(d, c, p), o>> \in E
    BY <1>3 DEF Returns
  <2>2. Derivation(d, D \cup E)
    BY <1>1, <2>1, UnionDerives
  <2>3. <<ChildCall(c), p>> \in D \cup E /\ <<RestCall(d, c, p), o>> \in D \cup E
    BY <1>1, <2>1
  <2>4. Follows(d, c, o, D \cup E)
    BY <1>3, <2>3 DEF Follows
  <2> QED BY <2>2, <2>4, Concluded
<1> QED BY <1>2, <1>3

(* What a call returns came from the calls it made. *)
LEMMA RuleUsed ==
  ASSUME NEW d, NEW c, NEW o, Returns(d, c, o)
  PROVE  IF Continues(d, c) THEN Returns(d, Continuation(d, c), o)
         ELSE IF Asks(d, c)
              THEN \E p : /\ Returns(d, ChildCall(c), p)
                          /\ IF Resumes(d, c, p) THEN Returns(d, RestCall(d, c, p), o)
                             ELSE o = Settled(d, c, p)
              ELSE o = Answer(d, c)
<1>1. PICK D : Derivation(d, D) /\ <<c, o>> \in D
  BY DEF Returns
<1>2. Follows(d, c, o, D)
  BY <1>1 DEF Derivation
<1>3. \A b, p : <<b, p>> \in D => Returns(d, b, p)
  BY <1>1 DEF Returns
<1> QED BY <1>2, <1>3 DEF Follows

(* The fields of the calls and of an outcome. *)
LEMMA CallFields ==
  ASSUME NEW read, NEW level, NEW dialect, NEW implicit, NEW kept
  PROVE  /\ ValueCall(read, level, dialect).kind = "value"
         /\ ValueCall(read, level, dialect).read = read
         /\ ValueCall(read, level, dialect).level = level
         /\ ValueCall(read, level, dialect).dialect = dialect
         /\ EntriesCall(read, level, dialect, implicit, kept).kind = "entries"
         /\ EntriesCall(read, level, dialect, implicit, kept).read = read
         /\ EntriesCall(read, level, dialect, implicit, kept).level = level
         /\ EntriesCall(read, level, dialect, implicit, kept).dialect = dialect
         /\ EntriesCall(read, level, dialect, implicit, kept).implicit = implicit
         /\ EntriesCall(read, level, dialect, implicit, kept).entries = kept
         /\ ElementsCall(read, level, dialect, kept).kind = "elements"
         /\ ElementsCall(read, level, dialect, kept).read = read
         /\ ElementsCall(read, level, dialect, kept).level = level
         /\ ElementsCall(read, level, dialect, kept).dialect = dialect
         /\ ElementsCall(read, level, dialect, kept).items = kept
         /\ DocumentCall.kind = "document"
BY DEF ValueCall, EntriesCall, ElementsCall, DocumentCall

LEMMA OutcomeFields ==
  ASSUME NEW out, NEW read, NEW dialect
  PROVE  /\ Outcome(out, read, dialect).out = out
         /\ Outcome(out, read, dialect).read = read
         /\ Outcome(out, read, dialect).dialect = dialect
         /\ Failed(Outcome(out, read, dialect)) <=> out.op = "Err"
BY DEF Outcome, Failed

-----------------------------------------------------------------------------
(***************************************************************************)
(* A call returns exactly one outcome.  Every call that a call makes of    *)
(* its own accord reads from further on, but for an element, which is read *)
(* from where the array stands; what comes after a value is further on     *)
(* because a value that is no error consumes a lexeme.                     *)
(***************************************************************************)
IsCall(d, c) == c.kind \in {"value", "entries", "elements"} /\ c.read \in 0 .. Len(d)
Rank(d, c)   == 2 * (Len(d) - c.read) + IF c.kind = "elements" THEN 1 ELSE 0

Moves(d, c, o) ==
  ~ Failed(o) => /\ o.read \in c.read .. Len(d)
                 /\ c.kind = "value" /\ At(d, c.read) # Eof => o.read # c.read

Decided(d, c) ==
  /\ \E o : Returns(d, c, o)
  /\ \A o, p : Returns(d, c, o) /\ Returns(d, c, p) => o = p
  /\ \A o : Returns(d, c, o) => Moves(d, c, o)

LEMMA FurtherIsLower ==
  ASSUME NEW n \in Nat, NEW r \in Nat, NEW q \in Nat, r + 1 <= q, NEW v \in 0 .. 1, NEW w \in 0 .. 1
  PROVE  2 * (n - q) + v < 2 * (n - r) + w
<1>1. 2 * (n - q) = 2 * n - 2 * q /\ 2 * (n - r) = 2 * n - 2 * r /\ 2 * r + 2 <= 2 * q
  OBVIOUS
<1> QED BY <1>1

(* A mark, and any lexeme that is not Bad, is within the document. *)
LEMMA KindsDiffer ==
  /\ \A m : Mark(m) # Bad /\ Mark(m) # Eof
  /\ Eof # Bad /\ Bad.kind # "Str"
  /\ \A t : t.kind = "Str" => t # Eof /\ t # Bad /\ ScalarAt(t) # {}
<1>1. (\A m : Mark(m).kind = "Mark") /\ Eof.kind = "Eof" /\ Bad.kind = "Bad"
  BY DEF Mark, Eof, Bad
<1>2. \A t : t.kind = "Str" => t # Eof /\ t # Bad /\ ScalarAt(t) # {}
  BY <1>1 DEF ScalarAt
<1> QED BY <1>1, <1>2

LEMMA Within ==
  ASSUME NEW d, NEW read, At(d, read) # Bad
  PROVE  read < Len(d)
BY DEF At

LEMMA AnswerMoves ==
  ASSUME NEW d, Len(d) \in Nat, NEW c, IsCall(d, c), ~ Continues(d, c), ~ Asks(d, c)
  PROVE  Moves(d, c, Answer(d, c))
<1> PICK r \in Nat : r = c.read /\ r <= Len(d)
  BY DEF IsCall
<1> PICK t : t = At(d, r)
  OBVIOUS
<1>1. Error("Parse").op = "Err" /\ Error("MaxDepthExceeded").op = "Err"
  BY DEF Error
<1>2. \A n, dialect : Failed(Failure(d, n, dialect))
  BY <1>1, OutcomeFields DEF Failure
<1>3. After(d, r) = IF t = Eof THEN r ELSE r + 1
  BY DEF After
<1>4. t # Bad => r + 1 <= Len(d)
  <2>1. t # Bad => r < Len(d)
    BY Within
  <2> QED BY <2>1
<1>5. CASE c.kind = "value"
  <2>1. Answer(d, c) = ValueAnswer(d, c)
    BY <1>5 DEF Answer
  <2>2. CASE c.level + 1 > MaxParseDepth
    <3>1. Failed(Answer(d, c))
      BY <1>1, <2>1, <2>2, OutcomeFields DEF ValueAnswer
    <3> QED BY <3>1 DEF Moves
  <2>3. CASE ~ (c.level + 1 > MaxParseDepth) /\ ScalarAt(t) = {}
    <3>1. Failed(Answer(d, c))
      BY <1>2, <2>1, <2>3 DEF ValueAnswer
    <3> QED BY <3>1 DEF Moves
  <2>4. CASE ~ (c.level + 1 > MaxParseDepth) /\ ScalarAt(t) # {}
    <3>1. Answer(d, c).read = After(d, r)
      BY <2>1, <2>4, OutcomeFields DEF ValueAnswer
    <3>2. t # Bad
      <4>1. Bad.kind = "Bad" /\ Bad # Eof
        BY KindsDiffer DEF Bad
      <4>2. ScalarAt(Bad) = {}
        BY <4>1 DEF ScalarAt
      <4> QED BY <2>4, <4>2
    <3>3. After(d, r) \in r .. Len(d) /\ (t # Eof => After(d, r) # r)
      BY <1>3, <1>4, <3>2
    <3> QED BY <3>1, <3>3 DEF Moves
  <2> QED BY <2>2, <2>3, <2>4
<1>6. CASE c.kind = "entries"
  <2>1. Answer(d, c) = EntriesAnswer(d, c)
    BY <1>6 DEF Answer
  <2>2. CASE t = Mark("}") \/ (c.implicit /\ t = Eof)
    <3> PICK v : v = maybe_uid(c.entries, c.dialect = "OpenStep")
      OBVIOUS
    <3>1. EntriesAnswer(d, c) = Outcome(Return(v), After(d, r), c.dialect)
      BY <2>2, Zenon DEF EntriesAnswer
    <3>2. Answer(d, c).read = After(d, r)
      BY <2>1, <3>1, OutcomeFields
    <3>3. t # Bad
      BY <2>2, KindsDiffer
    <3>4. After(d, r) \in r .. Len(d)
      BY <1>3, <1>4, <3>3
    <3> QED BY <1>6, <3>2, <3>4 DEF Moves
  <2>3. CASE ~ (t = Mark("}") \/ (c.implicit /\ t = Eof))
    <3>1. Failed(Answer(d, c))
      BY <1>2, <2>1, <2>3 DEF EntriesAnswer
    <3> QED BY <3>1 DEF Moves
  <2> QED BY <2>2, <2>3
<1>7. CASE c.kind = "elements"
  <2>1. Answer(d, c) = ElementsAnswer(d, c)
    BY <1>7 DEF Answer
  <2>2. CASE t = Mark(")")
    <3>1. Answer(d, c).read = r + 1
      BY <2>1, <2>2, OutcomeFields DEF ElementsAnswer
    <3>2. r + 1 \in r .. Len(d)
      BY <1>4, <2>2, KindsDiffer
    <3> QED BY <1>7, <3>1, <3>2 DEF Moves
  <2>3. CASE t # Mark(")")
    <3>1. Failed(Answer(d, c))
      BY <1>2, <2>1, <2>3 DEF ElementsAnswer
    <3> QED BY <3>1 DEF Moves
  <2> QED BY <2>2, <2>3
<1> QED BY <1>5, <1>6, <1>7 DEF IsCall

(* What a call goes on as is a call of lower rank, and moves it too. *)
LEMMA ContinuationCall ==
  ASSUME NEW d, Len(d) \in Nat, NEW c, IsCall(d, c), Continues(d, c)
  PROVE  /\ IsCall(d, Continuation(d, c))
         /\ Continuation(d, c).kind # "value"
         /\ Continuation(d, c).read \in c.read + 1 .. c.read + 2
<1> PICK r \in Nat : r = c.read /\ r <= Len(d)
  BY DEF IsCall
<1>1. CASE c.kind = "value"
  <2>1. At(d, r) # Bad
    BY <1>1, KindsDiffer DEF Continues
  <2>2. r + 1 <= Len(d)
    BY <2>1, Within
  <2>3. CASE At(d, r) = Mark("{")
    <3>1. PICK no : Continuation(d, c) = EntriesCall(r + 1, c.level + 1, c.dialect, no, << >>)
      BY <1>1, <2>3 DEF Continuation
    <3>2. Continuation(d, c).kind = "entries" /\ Continuation(d, c).read = r + 1
      BY <3>1, CallFields
    <3> QED BY <2>2, <3>2 DEF IsCall
  <2>4. CASE At(d, r) # Mark("{")
    <3>1. Continuation(d, c) = ElementsCall(r + 1, c.level + 1, c.dialect, << >>)
      BY <1>1, <2>4 DEF Continuation
    <3>2. Continuation(d, c).kind = "elements" /\ Continuation(d, c).read = r + 1
      BY <3>1, CallFields
    <3> QED BY <2>2, <3>2 DEF IsCall
  <2> QED BY <2>3, <2>4
<1>2. CASE c.kind = "entries"
  <2>1. r + 2 <= Len(d)
    <3>1. At(d, r + 1) # Bad
      BY <1>2, KindsDiffer DEF Continues
    <3>2. r + 1 < Len(d)
      BY <3>1, Within
    <3> QED BY <3>2
  <2>2. PICK kept : Continuation(d, c) = EntriesCall(r + 2, c.level, c.dialect, c.implicit, kept)
    BY <1>2 DEF Continuation
  <2>3. Continuation(d, c).kind = "entries" /\ Continuation(d, c).read = r + 2
    BY <2>2, CallFields
  <2> QED BY <2>1, <2>3 DEF IsCall
<1>3. CASE c.kind = "elements"
  <2>1. At(d, r) # Bad
    BY <1>3, KindsDiffer DEF Continues
  <2>2. r + 1 <= Len(d)
    BY <2>1, Within
  <2>3. Continuation(d, c) = ElementsCall(r + 1, c.level, c.dialect, c.items)
    BY <1>3 DEF Continuation
  <2>4. Continuation(d, c).kind = "elements" /\ Continuation(d, c).read = r + 1
    BY <2>3, CallFields
  <2> QED BY <2>2, <2>4 DEF IsCall
<1> QED BY <1>1, <1>2, <1>3 DEF IsCall

LEMMA ContinuationDecides ==
  ASSUME NEW d, Len(d) \in Nat, NEW c, IsCall(d, c), Continues(d, c), Decided(d, Continuation(d, c))
  PROVE  Decided(d, c)
<1> PICK r \in Nat : r = c.read /\ r <= Len(d)
  BY DEF IsCall
<1> PICK b : b = Continuation(d, c)
  OBVIOUS
<1>1. \E o : Returns(d, c, o)
  BY ContinueRule DEF Decided
<1>2. \A o : Returns(d, c, o) => Returns(d, b, o)
  BY RuleUsed
<1>3. b.kind # "value" /\ b.read \in r + 1 .. r + 2
  BY ContinuationCall
<1>4. ASSUME NEW o, Returns(d, c, o) PROVE Moves(d, c, o)
  <2>1. Moves(d, b, o)
    BY <1>2, <1>4 DEF Decided
  <2>2. ASSUME ~ Failed(o) PROVE o.read \in r .. Len(d) /\ o.read # r
    <3>1. o.read \in b.read .. Len(d)
      BY <2>1, <2>2 DEF Moves
    <3> QED BY <1>3, <3>1
  <2> QED BY <2>2 DEF Moves
<1> QED BY <1>1, <1>2, <1>4 DEF Decided

(* So is the value that is asked for, and what goes on after it. *)
LEMMA ChildCallFacts ==
  ASSUME NEW d, Len(d) \in Nat, NEW c, IsCall(d, c), Asks(d, c)
  PROVE  /\ IsCall(d, ChildCall(c)) /\ Rank(d, ChildCall(c)) < Rank(d, c)
         /\ c.kind # "value" /\ ChildCall(c).kind = "value"
         /\ c.kind = "entries" => ChildCall(c).read = c.read + 2
         /\ c.kind = "elements" => ChildCall(c).read = c.read /\ At(d, c.read) # Eof
<1> PICK r \in Nat : r = c.read /\ r <= Len(d)
  BY DEF IsCall
<1>1. CASE c.kind = "entries"
  <2>1. r + 2 <= Len(d)
    <3>1. At(d, r + 1) # Bad
      BY <1>1, KindsDiffer DEF Asks
    <3>2. r + 1 < Len(d)
      BY <3>1, Within
    <3> QED BY <3>2
  <2>2. ChildCall(c) = ValueCall(r + 2, c.level, c.dialect)
    BY <1>1 DEF ChildCall
  <2>3. ChildCall(c).kind = "value" /\ ChildCall(c).read = r + 2
    BY <2>2, CallFields
  <2>4. Rank(d, c) = 2 * (Len(d) - r) + 0 /\ Rank(d, ChildCall(c)) = 2 * (Len(d) - (r + 2)) + 0
    BY <1>1, <2>3 DEF Rank
  <2> QED BY <1>1, <2>1, <2>3, <2>4 DEF IsCall
<1>2. CASE c.kind = "elements"
  <2>1. ChildCall(c) = ValueCall(r, c.level, c.dialect)
    BY <1>2 DEF ChildCall
  <2>2. ChildCall(c).kind = "value" /\ ChildCall(c).read = r
    BY <2>1, CallFields
  <2>3. Rank(d, c) = 2 * (Len(d) - r) + 1 /\ Rank(d, ChildCall(c)) = 2 * (Len(d) - r) + 0
    BY <1>2, <2>2 DEF Rank
  <2>4. At(d, r) # Eof
    BY <1>2 DEF Asks
  <2> QED BY <1>2, <2>2, <2>3, <2>4 DEF IsCall
<1> QED BY <1>1, <1>2 DEF Asks, IsCall

LEMMA RestCallFacts ==
  ASSUME NEW d, Len(d) \in Nat, NEW c, IsCall(d, c), Asks(d, c),
         NEW p, Resumes(d, c, p), Moves(d, ChildCall(c), p)
  PROVE  /\ IsCall(d, RestCall(d, c, p)) /\ Rank(d, RestCall(d, c, p)) < Rank(d, c)
         /\ RestCall(d, c, p).kind # "value"
         /\ RestCall(d, c, p).read \in c.read .. Len(d)
<1> PICK r \in Nat : r = c.read /\ r <= Len(d)
  BY DEF IsCall
<1>1. p.read \in ChildCall(c).read .. Len(d)
  BY DEF Moves, Resumes
<1>2. CASE c.kind = "entries"
  <2>1. PICK q \in Nat : q = p.read /\ r + 2 <= q
    BY <1>1, <1>2, ChildCallFacts
  <2>2. q + 1 <= Len(d)
    <3>1. At(d, q) # Bad
      BY <1>2, <2>1, KindsDiffer DEF Resumes
    <3>2. q < Len(d)
      BY <3>1, Within
    <3> QED BY <3>2
  <2>3. PICK kept : RestCall(d, c, p) = EntriesCall(q + 1, c.level, p.dialect, c.implicit, kept)
    BY <1>2, <2>1 DEF RestCall
  <2>4. RestCall(d, c, p).kind = "entries" /\ RestCall(d, c, p).read = q + 1
    BY <2>3, CallFields
  <2>5. Rank(d, c) = 2 * (Len(d) - r) + 0 /\ Rank(d, RestCall(d, c, p)) = 2 * (Len(d) - (q + 1)) + 0
    BY <1>2, <2>4 DEF Rank
  <2>6. Rank(d, RestCall(d, c, p)) < Rank(d, c)
    <3>1. 2 * (Len(d) - (q + 1)) + 0 < 2 * (Len(d) - r) + 0
      <4>1. q + 1 \in Nat /\ r + 1 <= q + 1
        BY <2>1
      <4> QED BY <4>1, FurtherIsLower
    <3> QED BY <2>5, <3>1
  <2> QED BY <2>1, <2>2, <2>4, <2>6 DEF IsCall
<1>3. CASE c.kind = "elements"
  <2>1. PICK q \in Nat : q = p.read /\ r < q /\ q <= Len(d)
    <3>1. p.read # ChildCall(c).read
      BY <1>3, ChildCallFacts DEF Moves, Resumes
    <3> QED BY <1>1, <1>3, <3>1, ChildCallFacts
  <2>2. PICK kept : RestCall(d, c, p) = ElementsCall(q, c.level, p.dialect, kept)
    BY <1>3, <2>1 DEF RestCall
  <2>3. RestCall(d, c, p).kind = "elements" /\ RestCall(d, c, p).read = q
    BY <2>2, CallFields
  <2>4. Rank(d, c) = 2 * (Len(d) - r) + 1 /\ Rank(d, RestCall(d, c, p)) = 2 * (Len(d) - q) + 1
    BY <1>3, <2>3 DEF Rank
  <2> QED BY <2>1, <2>3, <2>4 DEF IsCall
<1> QED BY <1>2, <1>3, ChildCallFacts DEF IsCall

LEMMA AskDecides ==
  ASSUME NEW d, Len(d) \in Nat, NEW c, IsCall(d, c), ~ Continues(d, c), Asks(d, c),
         \A b : IsCall(d, b) /\ Rank(d, b) < Rank(d, c) => Decided(d, b)
  PROVE  Decided(d, c)
<1>1. Decided(d, ChildCall(c))
  BY ChildCallFacts
<1>2. PICK p : Returns(d, ChildCall(c), p)
  BY <1>1 DEF Decided
<1>3. \A a : Returns(d, ChildCall(c), a) => a = p
  BY <1>1, <1>2 DEF Decided
<1>4. Moves(d, ChildCall(c), p)
  BY <1>1, <1>2 DEF Decided
<1>5. CASE Resumes(d, c, p)
  <2> PICK b : b = RestCall(d, c, p)
    OBVIOUS
  <2>1. Decided(d, b) /\ b.kind # "value" /\ b.read \in c.read .. Len(d)
    BY <1>4, <1>5, RestCallFacts
  <2>2. \E o : Returns(d, c, o)
    BY <1>2, <1>5, <2>1, AskRule DEF Decided
  <2>3. \A o : Returns(d, c, o) => Returns(d, b, o)
    <3> SUFFICES ASSUME NEW o, Returns(d, c, o) PROVE Returns(d, b, o)
      OBVIOUS
    <3>1. PICK a : /\ Returns(d, ChildCall(c), a)
                   /\ IF Resumes(d, c, a) THEN Returns(d, RestCall(d, c, a), o) ELSE o = Settled(d, c, a)
      BY RuleUsed
    <3> QED BY <1>3, <1>5, <3>1
  <2>4. ASSUME NEW o, Returns(d, c, o) PROVE Moves(d, c, o)
    <3>1. Moves(d, b, o)
      BY <2>1, <2>3, <2>4 DEF Decided
    <3>2. c.kind # "value"
      BY ChildCallFacts
    <3>3. ASSUME ~ Failed(o) PROVE o.read \in c.read .. Len(d)
      <4>1. o.read \in b.read .. Len(d)
        BY <3>1, <3>3 DEF Moves
      <4>2. c.read \in Nat
        BY DEF IsCall
      <4> QED BY <2>1, <4>1, <4>2
    <3> QED BY <3>2, <3>3 DEF Moves
  <2> QED BY <2>1, <2>2, <2>3, <2>4 DEF Decided
<1>6. CASE ~ Resumes(d, c, p)
  <2>1. Returns(d, c, Settled(d, c, p))
    BY <1>2, <1>6, AskRule
  <2>2. \A o : Returns(d, c, o) => o = Settled(d, c, p)
    <3> SUFFICES ASSUME NEW o, Returns(d, c, o) PROVE o = Settled(d, c, p)
      OBVIOUS
    <3>1. PICK a : /\ Returns(d, ChildCall(c), a)
                   /\ IF Resumes(d, c, a) THEN Returns(d, RestCall(d, c, a), o) ELSE o = Settled(d, c, a)
      BY RuleUsed
    <3> QED BY <1>3, <1>6, <3>1
  <2>3. Failed(Settled(d, c, p))
    <3>1. c.kind # "document"
      BY DEF IsCall
    <3>2. Failed(Failure(d, p.read, p.dialect))
      BY OutcomeFields DEF Failure, Error
    <3> QED BY <3>1, <3>2 DEF Settled
  <2>4. Moves(d, c, Settled(d, c, p))
    BY <2>3 DEF Moves
  <2> QED BY <2>1, <2>2, <2>4 DEF Decided
<1> QED BY <1>5, <1>6

LEMMA ContinuationLower ==
  ASSUME NEW d, Len(d) \in Nat, NEW c, IsCall(d, c), Continues(d, c)
  PROVE  Rank(d, Continuation(d, c)) < Rank(d, c)
<1> PICK r \in Nat : r = c.read /\ r <= Len(d)
  BY DEF IsCall
<1> PICK b : b = Continuation(d, c)
  OBVIOUS
<1> PICK q \in Nat : q = b.read /\ r + 1 <= q
  BY ContinuationCall
<1>1. PICK w \in 0 .. 1 : Rank(d, c) = 2 * (Len(d) - r) + w
  BY DEF Rank
<1>2. PICK v \in 0 .. 1 : Rank(d, b) = 2 * (Len(d) - q) + v
  BY DEF Rank
<1>3. 2 * (Len(d) - q) + v < 2 * (Len(d) - r) + w
  BY FurtherIsLower
<1> QED BY <1>1, <1>2, <1>3

LEMMA CallsDecided ==
  ASSUME NEW d, Len(d) \in Nat, NEW b, IsCall(d, b)
  PROVE  Decided(d, b)
<1> DEFINE Undecided(k) == \E c : IsCall(d, c) /\ k = Rank(d, c) /\ ~ Decided(d, c)
           T == {k \in Nat : Undecided(k)}
<1>1. SUFFICES ASSUME ~ Decided(d, b) PROVE FALSE
  OBVIOUS
<1>2. \A c : IsCall(d, c) => Rank(d, c) \in Nat
  BY DEF IsCall, Rank
<1>3. T # {}
  BY <1>1, <1>2
<1>4. PICK k \in T : \A j \in T : k <= j
  <2> HIDE DEF Undecided
  <2>1. T \in SUBSET Nat
    OBVIOUS
  <2> HIDE DEF T
  <2> QED BY <1>3, <2>1, LeastNumber
<1>5. PICK c : IsCall(d, c) /\ k = Rank(d, c) /\ ~ Decided(d, c)
  BY <1>4
<1>6. ASSUME NEW a, IsCall(d, a), Rank(d, a) < Rank(d, c) PROVE Decided(d, a)
  <2> SUFFICES ASSUME ~ Decided(d, a) PROVE FALSE
    OBVIOUS
  <2>1. PICK j \in Nat : j = Rank(d, a)
    BY <1>2, <1>6
  <2>2. j \in T
    BY <1>6, <2>1
  <2>3. k <= j /\ k \in Nat /\ j < k
    BY <1>4, <1>5, <1>6, <2>1, <2>2
  <2> QED BY <2>3
<1>7. CASE Continues(d, c)
  <2>1. Decided(d, Continuation(d, c))
    BY <1>5, <1>6, <1>7, ContinuationCall, ContinuationLower
  <2> QED BY <1>5, <1>7, <2>1, ContinuationDecides
<1>8. CASE ~ Continues(d, c) /\ Asks(d, c)
  BY <1>5, <1>6, <1>8, AskDecides
<1>9. CASE ~ Continues(d, c) /\ ~ Asks(d, c)
  <2>1. Returns(d, c, Answer(d, c)) /\ \A o : Returns(d, c, o) => o = Answer(d, c)
    BY <1>9, AnswerRule, RuleUsed
  <2>2. Moves(d, c, Answer(d, c))
    BY <1>5, <1>9, AnswerMoves
  <2>3. Decided(d, c)
    BY <2>1, <2>2 DEF Decided
  <2> QED BY <1>5, <2>3
<1> QED BY <1>7, <1>8, <1>9

(* The recursive parse is a function: every finite document, whatever its  *)
(* lexemes, has exactly one outcome, so that the rules define what they    *)
(* are meant to and leave no document without an answer.                   *)
THEOREM OneParse ==
  ASSUME NEW d, IsSequence(d)
  PROVE  \E o : Returns(d, DocumentCall, o) /\ \A p : Returns(d, DocumentCall, p) => p = o
<1> PICK c : c = DocumentCall
  OBVIOUS
<1>1. Len(d) \in Nat
  BY SequenceFacts
<1>2. c.kind = "document" /\ ~ Continues(d, c) /\ Asks(d, c)
  BY CallFields DEF Continues, Asks
<1>3. ChildCall(c) = RootCall
  BY <1>2 DEF ChildCall
<1>4. Decided(d, RootCall)
  <2>1. IsCall(d, RootCall)
    BY <1>1, CallFields DEF RootCall, IsCall
  <2> QED BY <1>1, <2>1, CallsDecided
<1>5. PICK p : Returns(d, RootCall, p) /\ \A a : Returns(d, RootCall, a) => a = p
  BY <1>4 DEF Decided
<1>6. \A o : Returns(d, c, o) =>
        IF Resumes(d, c, p) THEN Returns(d, RestCall(d, c, p), o) ELSE o = Settled(d, c, p)
  BY <1>2, <1>3, <1>5, RuleUsed
<1>7. CASE Resumes(d, c, p)
  <2>1. PICK yes : RestCall(d, c, p) = EntriesCall(0, 0, p.dialect, yes, << >>)
    BY <1>2 DEF RestCall
  <2>2. RestCall(d, c, p).kind = "entries" /\ RestCall(d, c, p).read = 0
    BY <2>1, CallFields
  <2>3. Decided(d, RestCall(d, c, p))
    BY <1>1, <2>2, CallsDecided DEF IsCall
  <2>4. \A o : Returns(d, RestCall(d, c, p), o) => Returns(d, c, o)
    BY <1>2, <1>3, <1>5, <1>7, AskRule
  <2> QED BY <1>6, <1>7, <2>3, <2>4 DEF Decided
<1>8. CASE ~ Resumes(d, c, p)
  <2>1. Returns(d, c, Settled(d, c, p))
    BY <1>2, <1>3, <1>5, <1>8, AskRule
  <2> QED BY <1>6, <1>8, <2>1
<1> QED BY <1>7, <1>8

-----------------------------------------------------------------------------
(***************************************************************************)
(* The calls the walker has open, in a document d that begins with what    *)
(* has been looked at.  asked[k] is the call that frame k has got as far   *)
(* as while it waits for a value; the call for that value is the one frame *)
(* k + 1 was entered with.  What the innermost call returns decides what   *)
(* all the others do.                                                      *)
(***************************************************************************)
Begins(d) ==
  /\ IsSequence(d) /\ Len(input) <= Len(d)
  /\ \A k \in 1 .. Len(input) : d[k] = input[k]

Leads(d, c, b) == \A o : Returns(d, b, o) => Returns(d, c, o)

Level(again, k) == IF again THEN k - 1 ELSE k

Entered(again, asked, k) ==
  IF k = 1 THEN IF again THEN DocumentCall ELSE RootCall ELSE ChildCall(asked[k - 1])

Fits(d, f, c) ==
  IF f.name = "dictionary"
  THEN /\ c.kind = "entries" /\ c.entries = f.collected /\ c.implicit = f.implicit
       /\ f.key = {At(d, c.read).text}
  ELSE c.kind = "elements" /\ c.items = f.collected

Awaits(d, s, again, asked, k) ==
  /\ Asks(d, asked[k]) /\ Fits(d, s[k], asked[k]) /\ asked[k].level = Level(again, k)
  /\ Leads(d, Entered(again, asked, k), asked[k])

Waiting(k) == k < Len(stack) \/ step.op \in {"Open", "Deliver"}

CallsOpen(d, asked) ==
  \A k \in 1 .. Len(stack) : Waiting(k) => Awaits(d, stack, recovering, asked, k)

(* The call for what is left of a frame. *)
RestOf(f, level, read, dialect) ==
  IF f.name = "dictionary" THEN EntriesCall(read, level, dialect, f.implicit, f.collected)
  ELSE ElementsCall(read, level, dialect, f.collected)

CallsCurrent(d, asked) ==
  /\ step.op = "Open" => Entered(recovering, asked, Len(stack) + 1) = ValueCall(pos, depth, format)
  /\ step.op = "Advance" =>
       Leads(d, Entered(recovering, asked, Len(stack)), RestOf(Top, depth, pos, format))
  /\ step.op = "AfterKey" =>
       /\ pos # 0 /\ At(d, pos - 1).kind = "Str" /\ At(d, pos - 1).text = step.text
       /\ Leads(d, Entered(recovering, asked, Len(stack)), RestOf(Top, depth, pos - 1, format))
  /\ step.op = "Deliver" =>
       Returns(d, Entered(recovering, asked, Len(stack) + 1), Outcome(Return(step.value), pos, format))
  /\ step.op = "Finish" => Returns(d, RootCall, Outcome(Return(step.value), pos, format))

Walked(d) ==
  /\ ~ Returned => \E asked : CallsOpen(d, asked) /\ CallsCurrent(d, asked)
  /\ Returned => Returns(d, DocumentCall, Outcome(step, pos, format))

RecursionInv == \A d : Begins(d) => Walked(d)

LEMMA LeadsOn ==
  ASSUME NEW d, NEW a, NEW b, NEW c, Leads(d, a, b), Leads(d, b, c)
  PROVE  Leads(d, a, c)
BY DEF Leads

LEMMA RecursionInit == Init => RecursionInv
<1> SUFFICES ASSUME Init, NEW d, Begins(d) PROVE Walked(d)
  BY DEF RecursionInv
<1>1. /\ Len(stack) = 0 /\ pos = 0 /\ depth = 0 /\ format = "OpenStep" /\ recovering = FALSE
      /\ step.op = "Open"
  BY EmptySequence DEF Init, Open
<1> PICK asked : asked = << >>
  OBVIOUS
<1>2. CallsOpen(d, asked)
  BY <1>1 DEF CallsOpen
<1>3. Entered(recovering, asked, Len(stack) + 1) = ValueCall(pos, depth, format)
  BY <1>1 DEF Entered, RootCall
<1>4. CallsCurrent(d, asked)
  BY <1>1, <1>3 DEF CallsCurrent
<1> QED BY <1>1, <1>2, <1>4 DEF Walked, Returned

(* What is looked at is what the document has there. *)
LEMMA Looked ==
  ASSUME IInv, NEW t, Ahead(t), Peek(t), NEW d, Begins(d)'
  PROVE  Begins(d) /\ At(d, pos) = t /\ pos \in Nat /\ Len(d) \in Nat
<1> PICK n \in Nat : n = Len(input) /\ pos \in 0 .. n /\ IsSequence(input)
  BY SequenceFacts DEF IInv, Shape
<1> PICK m \in Nat : m = Len(d)
  BY SequenceFacts DEF Begins
<1>1. /\ IsSequence(d) /\ Len(input') <= m
      /\ \A k \in 1 .. Len(input') : d[k] = input'[k]
  BY DEF Begins
<1>2. /\ Len(input') \in Nat /\ n <= Len(input') /\ pos < Len(input')
      /\ \A k \in 1 .. n : input'[k] = input[k]
      /\ input'[pos + 1] = t
  <2>1. CASE pos < n
    <3>1. input' = input /\ t = input[pos + 1]
      BY <2>1 DEF Peek, Ahead
    <3> QED BY <2>1, <3>1
  <2>2. CASE pos = n
    <3>1. input' = Extended(input, t)
      BY <2>2 DEF Peek, Extended
    <3> QED BY <2>2, <3>1, AppendSequence
  <2> QED BY <2>1, <2>2
<1>3. Begins(d)
  BY <1>1, <1>2 DEF Begins
<1>4. pos < m /\ d[pos + 1] = t
  <2>1. pos + 1 \in 1 .. Len(input')
    BY <1>2
  <2> QED BY <1>1, <1>2, <2>1
<1> QED BY <1>3, <1>4 DEF At

LEMMA Consumed ==
  ASSUME IInv, NEW t, Ahead(t), Take(t), NEW d, Begins(d)'
  PROVE  /\ Begins(d) /\ At(d, pos) = t /\ pos \in Nat /\ Len(d) \in Nat
         /\ pos' = After(d, pos)
         /\ t # Eof => pos' = pos + 1
<1>1. Peek(t) /\ pos' = IF t = Eof THEN pos ELSE pos + 1
  BY DEF Take
<1>2. Begins(d) /\ At(d, pos) = t /\ pos \in Nat /\ Len(d) \in Nat
  BY <1>1, Looked
<1> QED BY <1>1, <1>2 DEF After

(* A call that asks does not go on by itself. *)
LEMMA AskingWaits ==
  ASSUME NEW d, NEW c, Asks(d, c)
  PROVE  ~ Continues(d, c)
<1>1. Mark(",") \in {Mark(")"), Mark(","), Eof, Unclosed} /\ Mark("=") # Mark(";")
  BY DEF Mark
<1> QED BY <1>1 DEF Asks, Continues

(* The answer to an open call.  An error goes all the way down. *)
LEMMA EnteredAnswered ==
  ASSUME NEW d, NEW s, NEW again, NEW asked, NEW k \in Nat, Awaits(d, s, again, asked, k), k # 0,
         NEW p, Returns(d, Entered(again, asked, k + 1), p)
  PROVE  /\ ~ Resumes(d, asked[k], p) => Returns(d, Entered(again, asked, k), Settled(d, asked[k], p))
         /\ Resumes(d, asked[k], p) => Leads(d, Entered(again, asked, k), RestCall(d, asked[k], p))
<1> PICK c : c = asked[k]
  OBVIOUS
<1>1. Asks(d, c) /\ Leads(d, Entered(again, asked, k), c)
  BY DEF Awaits
<1>2. Entered(again, asked, k + 1) = ChildCall(c)
  <2>1. k + 1 # 1 /\ (k + 1) - 1 = k
    OBVIOUS
  <2> QED BY <2>1 DEF Entered
<1>3. ~ Continues(d, c)
  BY <1>1, AskingWaits
<1>4. Returns(d, ChildCall(c), p)
  BY <1>2
<1>5. /\ ~ Resumes(d, c, p) => Returns(d, c, Settled(d, c, p))
      /\ Resumes(d, c, p) => \A o : Returns(d, RestCall(d, c, p), o) => Returns(d, c, o)
  BY <1>1, <1>3, <1>4, AskRule
<1> QED BY <1>1, <1>5 DEF Leads

LEMMA FailureSettles ==
  ASSUME NEW d, NEW c, NEW p, Failed(p)
  PROVE  ~ Resumes(d, c, p) /\ Settled(d, c, p) = p
BY DEF Resumes, Settled

LEMMA DocumentAnswered ==
  ASSUME NEW d, NEW p, Returns(d, RootCall, p)
  PROVE  /\ ~ Resumes(d, DocumentCall, p) => Returns(d, DocumentCall, Settled(d, DocumentCall, p))
         /\ Resumes(d, DocumentCall, p) => Leads(d, DocumentCall, RestCall(d, DocumentCall, p))
<1> PICK c : c = DocumentCall
  OBVIOUS
<1>1. c.kind = "document"
  BY CallFields
<1>2. Asks(d, c) /\ ChildCall(c) = RootCall
  BY <1>1 DEF Asks, ChildCall
<1>3. ~ Continues(d, c)
  BY <1>2, AskingWaits
<1>4. /\ ~ Resumes(d, c, p) => Returns(d, c, Settled(d, c, p))
      /\ Resumes(d, c, p) => \A o : Returns(d, RestCall(d, c, p), o) => Returns(d, c, o)
  BY <1>2, <1>3, AskRule
<1> QED BY <1>4 DEF Leads

LEMMA ErrorPassed ==
  ASSUME NEW d, NEW s, NEW again, NEW asked, NEW m \in Nat,
         \A k \in 1 .. m : Awaits(d, s, again, asked, k),
         NEW o, Failed(o), Returns(d, Entered(again, asked, m + 1), o)
  PROVE  Returns(d, DocumentCall, o)
<1> DEFINE T == {k \in Nat : k # 0 /\ k <= m + 1 /\ Returns(d, Entered(again, asked, k), o)}
<1>1. T # {}
  <2>1. m + 1 \in T
    OBVIOUS
  <2> QED BY <2>1
<1>2. PICK k \in T : \A j \in T : k <= j
  <2>1. T \in SUBSET Nat
    OBVIOUS
  <2> HIDE DEF T
  <2> QED BY <1>1, <2>1, LeastNumber
<1>3. k \in Nat /\ k # 0 /\ k <= m + 1 /\ Returns(d, Entered(again, asked, k), o)
  BY <1>2
<1>4. CASE k = 1
  <2>1. CASE again
    BY <1>3, <1>4, <2>1 DEF Entered
  <2>2. CASE ~ again
    <3>1. Returns(d, RootCall, o)
      BY <1>3, <1>4, <2>2 DEF Entered
    <3> QED BY <3>1, DocumentAnswered, FailureSettles
  <2> QED BY <2>1, <2>2
<1>5. CASE k # 1
  <2>1. PICK j \in Nat : j + 1 = k /\ j # 0 /\ j <= m
    <3>1. k - 1 \in Nat /\ (k - 1) + 1 = k /\ k - 1 # 0 /\ k - 1 <= m
      BY <1>3, <1>5
    <3> QED BY <3>1
  <2>2. Awaits(d, s, again, asked, j)
    BY <2>1
  <2>3. Returns(d, Entered(again, asked, j + 1), o)
    BY <1>3, <2>1
  <2>4. Returns(d, Entered(again, asked, j), o)
    BY <2>1, <2>2, <2>3, EnteredAnswered, FailureSettles
  <2>5. j \in T
    BY <2>1, <2>4
  <2>6. k <= j
    BY <1>2, <2>5
  <2> QED BY <1>3, <2>1, <2>6
<1> QED BY <1>4, <1>5

LEMMA Unreturned ==
  ASSUME NEW d, NEW asked, CallsOpen(d, asked)', CallsCurrent(d, asked)',
         step'.op \notin {"Ok", "Err"}
  PROVE  Walked(d)'
BY DEF Walked, Returned

(* The frames that are untouched and wait as they did. *)
LEMMA OpenKept ==
  ASSUME NEW d, NEW asked, CallsOpen(d, asked), UNCHANGED recovering,
         \A k \in 1 .. Len(stack') : Waiting(k)' =>
           k \in 1 .. Len(stack) /\ Waiting(k) /\ stack'[k] = stack[k]
  PROVE  CallsOpen(d, asked)'
<1>1. ASSUME NEW k \in 1 .. Len(stack'), Waiting(k)'
      PROVE  Awaits(d, stack', recovering', asked, k)
  <2>1. Awaits(d, stack, recovering, asked, k) /\ stack'[k] = stack[k]
    BY <1>1 DEF CallsOpen
  <2> QED BY <2>1 DEF Awaits
<1> QED BY <1>1 DEF CallsOpen

(* A frame that asks for a value from a call it has got as far as. *)
LEMMA NewlyAsked ==
  ASSUME IInv, NEW d, NEW asked, CallsOpen(d, asked), UNCHANGED recovering, stack # << >>,
         IsSequence(stack'), Len(stack') = Len(stack),
         \A k \in 1 .. Len(stack) : k # Len(stack) => stack'[k] = stack[k],
         NEW c, Asks(d, c), Fits(d, stack'[Len(stack)], c), c.level = Level(recovering, Len(stack)),
         Leads(d, Entered(recovering, asked, Len(stack)), c)
  PROVE  \E other : CallsOpen(d, other)' /\ Entered(recovering', other, Len(stack') + 1) = ChildCall(c)
<1> PICK n \in Nat \ {0} : n = Len(stack)
  BY StackFacts
<1> PICK other : other = [k \in 1 .. n |-> IF k < n THEN asked[k] ELSE c]
  OBVIOUS
<1>1. other[n] = c /\ \A k \in 1 .. n - 1 : other[k] = asked[k]
  OBVIOUS
<1>2. \A k \in 1 .. n : Entered(recovering, other, k) = Entered(recovering, asked, k)
  <2> SUFFICES ASSUME NEW k \in 1 .. n
               PROVE  Entered(recovering, other, k) = Entered(recovering, asked, k)
    OBVIOUS
  <2>1. k # 1 => other[k - 1] = asked[k - 1]
    <3>1. k # 1 => k - 1 \in 1 .. n - 1
      OBVIOUS
    <3> QED BY <1>1, <3>1
  <2> QED BY <2>1 DEF Entered
<1>3. ASSUME NEW k \in 1 .. n PROVE Awaits(d, stack', recovering', other, k)
  <2>1. CASE k = n
    BY <1>1, <1>2, <2>1 DEF Awaits
  <2>2. CASE k # n
    <3>1. k < n /\ k \in 1 .. n - 1 /\ stack'[k] = stack[k]
      BY <2>2
    <3>2. Awaits(d, stack, recovering, asked, k)
      BY <3>1 DEF CallsOpen, Waiting
    <3>3. other[k] = asked[k]
      BY <1>1, <3>1
    <3> QED BY <1>2, <3>1, <3>2, <3>3 DEF Awaits
  <2> QED BY <2>1, <2>2
<1>4. CallsOpen(d, other)'
  BY <1>3 DEF CallsOpen
<1>5. Entered(recovering', other, Len(stack') + 1) = ChildCall(c)
  <2>1. n + 1 # 1 /\ (n + 1) - 1 = n
    OBVIOUS
  <2> QED BY <1>1, <2>1 DEF Entered
<1> QED BY <1>4, <1>5

LEMMA LevelOfTop ==
  ASSUME IInv, stack # << >>, ~ Returned
  PROVE  depth = Level(recovering, Len(stack)) /\ depth \in Nat
<1>1. depth = Levels /\ depth \in Nat
  BY DEF IInv, DepthOK, Shape
<1> QED BY <1>1 DEF Levels, Level

-----------------------------------------------------------------------------
(***************************************************************************)
(* Opening a value.                                                        *)
(***************************************************************************)
LEMMA Asking ==
  ASSUME IInv, step.op \in {"Open", "Deliver"}, NEW d, NEW asked, CallsOpen(d, asked)
  PROVE  Len(stack) \in Nat /\ \A k \in 1 .. Len(stack) : Awaits(d, stack, recovering, asked, k)
BY StackFacts DEF CallsOpen, Waiting

LEMMA Inside ==
  ASSUME IInv, stack # << >>, NEW d, NEW asked, CallsOpen(d, asked)
  PROVE  \E m \in Nat : /\ m + 1 = Len(stack)
                        /\ \A k \in 1 .. m : Awaits(d, stack, recovering, asked, k)
<1> PICK n \in Nat \ {0} : n = Len(stack)
  BY StackFacts
<1>1. n - 1 \in Nat /\ (n - 1) + 1 = n
  OBVIOUS
<1> PICK m \in Nat : m + 1 = n
  BY <1>1
<1>2. \A k \in 1 .. m : k \in 1 .. n /\ k < n
  OBVIOUS
<1> QED BY <1>2 DEF CallsOpen, Waiting

(* The value call that is open, and what becomes of its answers. *)
LEMMA OpenFailsWith ==
  ASSUME IInv, step.op = "Open", NEW d, NEW asked, CallsOpen(d, asked), CallsCurrent(d, asked),
         NEW o, Failed(o), Returns(d, ValueCall(pos, depth, format), o)
  PROVE  Returns(d, DocumentCall, o)
<1>1. Entered(recovering, asked, Len(stack) + 1) = ValueCall(pos, depth, format)
  BY DEF CallsCurrent
<1> QED BY <1>1, Asking, ErrorPassed

LEMMA OpenTooDeepRecursion ==
  ASSUME IInv, OpenTooDeep, NEW d, Begins(d)', NEW asked, CallsOpen(d, asked), CallsCurrent(d, asked)
  PROVE  Walked(d)'
<1> PICK c : c = ValueCall(pos, depth, format)
  OBVIOUS
<1> PICK e : e = Error("MaxDepthExceeded")
  OBVIOUS
<1>1. /\ step.op = "Open" /\ depth + 1 > MaxParseDepth /\ step' = e
      /\ UNCHANGED <<input, pos, stack, format, recovering>>
  BY DEF OpenTooDeep, TooDeep
<1>2. c.kind = "value" /\ c.read = pos /\ c.level = depth /\ c.dialect = format
  BY CallFields
<1>3. depth \in Nat /\ MaxParseDepth \in Nat
  BY TextAssumption DEF IInv, Shape
<1>10. ~ (depth + 1 <= MaxParseDepth)
  BY <1>1, <1>3
<1>4. ~ Continues(d, c) /\ ~ Asks(d, c)
  BY <1>2, <1>10 DEF Continues, Asks
<1>5. Answer(d, c) = Outcome(e, pos, format)
  BY <1>1, <1>2 DEF Answer, ValueAnswer
<1>6. Returns(d, c, Outcome(e, pos, format))
  BY <1>4, <1>5, AnswerRule
<1>7. e.op = "Err"
  BY DEF Error
<1>8. Failed(Outcome(e, pos, format))
  BY <1>7, OutcomeFields
<1>9. Returns(d, DocumentCall, Outcome(e, pos, format))
  BY <1>1, <1>6, <1>8, OpenFailsWith
<1> QED BY <1>1, <1>7, <1>9 DEF Walked, Returned

LEMMA OpenFailsRecursion ==
  ASSUME IInv, NEW t, Ahead(t), OpenFails(t), NEW d, Begins(d)',
         NEW asked, CallsOpen(d, asked), CallsCurrent(d, asked)
  PROVE  Walked(d)'
<1> PICK c : c = ValueCall(pos, depth, format)
  OBVIOUS
<1> PICK e : e = Error("Parse")
  OBVIOUS
<1>1. /\ step.op = "Open" /\ ~ (depth + 1 > MaxParseDepth) /\ ScalarAt(t) = {}
      /\ t \notin {Mark("{"), Mark("(")} /\ Take(t) /\ step' = e
      /\ UNCHANGED <<stack, format, recovering>>
  BY DEF OpenFails, TooDeep, Reject
<1>2. c.kind = "value" /\ c.read = pos /\ c.level = depth /\ c.dialect = format
  BY CallFields
<1>3. At(d, pos) = t /\ pos' = After(d, pos)
  BY <1>1, Consumed
<1>4. ~ Continues(d, c) /\ ~ Asks(d, c)
  BY <1>1, <1>2, <1>3 DEF Continues, Asks
<1>5. Answer(d, c) = Outcome(e, pos', format)
  BY <1>1, <1>2, <1>3 DEF Answer, ValueAnswer, Failure
<1>6. Returns(d, c, Outcome(e, pos', format))
  BY <1>4, <1>5, AnswerRule
<1>7. e.op = "Err"
  BY DEF Error
<1>8. Failed(Outcome(e, pos', format))
  BY <1>7, OutcomeFields
<1>9. Returns(d, DocumentCall, Outcome(e, pos', format))
  BY <1>1, <1>6, <1>8, OpenFailsWith
<1> QED BY <1>1, <1>7, <1>9 DEF Walked, Returned

LEMMA OneScalar ==
  ASSUME NEW t, NEW v \in ScalarAt(t)
  PROVE  ScalarAt(t) = {v}
<1>1. PICK w : ScalarAt(t) = {w}
  <2>1. CASE t = Eof
    <3>1. Eof.kind = "Eof"
      BY DEF Eof
    <3> QED BY <2>1, <3>1 DEF ScalarAt
  <2>2. CASE t # Eof /\ t.kind = "Str"
    BY <2>2, Zenon DEF ScalarAt
  <2>3. CASE t # Eof /\ t.kind # "Str" /\ t.kind = "Literal"
    BY <2>3 DEF ScalarAt
  <2>4. CASE t # Eof /\ t.kind # "Str" /\ t.kind # "Literal"
    BY <2>4 DEF ScalarAt
  <2> QED BY <2>1, <2>2, <2>3, <2>4
<1> QED BY <1>1

LEMMA OpenScalarRecursion ==
  ASSUME IInv, NEW t, Ahead(t), OpenScalar(t), NEW d, Begins(d)',
         NEW asked, CallsOpen(d, asked), CallsCurrent(d, asked)
  PROVE  Walked(d)'
<1> PICK c : c = ValueCall(pos, depth, format)
  OBVIOUS
<1> PICK v \in ScalarAt(t) : step' = Deliver(v)
  BY DEF OpenScalar
<1>1. /\ step.op = "Open" /\ ~ (depth + 1 > MaxParseDepth) /\ Take(t)
      /\ format' = IF t.kind = "Literal" /\ t.dialect = "GnuStep" THEN "GnuStep" ELSE format
      /\ UNCHANGED <<stack, depth, recovering>>
  BY DEF OpenScalar, TooDeep
<1>2. c.kind = "value" /\ c.read = pos /\ c.level = depth /\ c.dialect = format
  BY CallFields
<1>3. At(d, pos) = t /\ pos' = After(d, pos)
  BY <1>1, Consumed
<1>4. ScalarAt(t) = {v} /\ t \notin {Mark("{"), Mark("(")}
  <2>1. t = Eof \/ t.kind = "Str" \/ t.kind = "Literal"
    BY DEF ScalarAt
  <2>2. Eof.kind = "Eof" /\ \A m : Mark(m).kind = "Mark"
    BY DEF Eof, Mark
  <2>3. t \notin {Mark("{"), Mark("(")}
    BY <2>1, <2>2
  <2> QED BY <2>3, OneScalar
<1>5. ~ Continues(d, c) /\ ~ Asks(d, c)
  BY <1>2, <1>3, <1>4 DEF Continues, Asks
<1>6. (CHOOSE w \in ScalarAt(t) : TRUE) = v
  BY <1>4
<1>7. Answer(d, c) = Outcome(Return(v), pos', format')
  BY <1>1, <1>2, <1>3, <1>4, <1>6 DEF Answer, ValueAnswer
<1>8. Returns(d, c, Outcome(Return(v), pos', format'))
  BY <1>5, <1>7, AnswerRule
<1>9. step'.op = "Deliver" /\ step'.value = v
  BY DEF Deliver
<1>10. CallsOpen(d, asked)'
  <2>1. \A k \in 1 .. Len(stack') : Waiting(k)' =>
          k \in 1 .. Len(stack) /\ Waiting(k) /\ stack'[k] = stack[k]
    BY <1>1 DEF Waiting
  <2> QED BY <1>1, <2>1, OpenKept
<1>11. Entered(recovering', asked, Len(stack') + 1) = c
  BY <1>1 DEF CallsCurrent
<1>12. CallsCurrent(d, asked)'
  BY <1>8, <1>9, <1>11 DEF CallsCurrent
<1> QED BY <1>9, <1>10, <1>12, Unreturned

LEMMA OpenContainerRecursion ==
  ASSUME IInv, NEW t, Ahead(t), OpenContainer(t), NEW d, Begins(d)',
         NEW asked, CallsOpen(d, asked), CallsCurrent(d, asked)
  PROVE  Walked(d)'
<1> PICK c : c = ValueCall(pos, depth, format)
  OBVIOUS
<1> PICK no : no = FALSE
  OBVIOUS
<1>15. PICK n \in Nat : n = Len(stack) /\ IsSequence(stack)
  BY StackFacts
<1>16. PICK name : name = IF t = Mark("{") THEN "dictionary" ELSE "array"
  OBVIOUS
<1>17. PICK f : f = Frame(name, no)
  OBVIOUS
<1>1. /\ step.op = "Open" /\ ~ (depth + 1 > MaxParseDepth) /\ Take(t) /\ t \in {Mark("{"), Mark("(")}
      /\ stack' = Extended(stack, f) /\ depth' = depth + 1
      /\ UNCHANGED <<format, recovering>>
  BY <1>16, <1>17 DEF OpenContainer, TooDeep, Extended
<1>2. step'.op = "Advance"
  BY DEF OpenContainer, Advance
<1>3. c.kind = "value" /\ c.read = pos /\ c.level = depth /\ c.dialect = format
  BY CallFields
<1>4. At(d, pos) = t /\ pos' = pos + 1
  <2>1. t # Eof
    BY <1>1, KindsDiffer
  <2> QED BY <1>1, <2>1, Consumed
<1>5. depth \in Nat /\ MaxParseDepth \in Nat
  BY TextAssumption DEF IInv, Shape
<1>6. Continues(d, c)
  <2>2. ~ (depth + 1 > MaxParseDepth)
    BY <1>1
  <2>3. depth + 1 <= MaxParseDepth
    BY <1>5, <2>2
  <2>1. c.level + 1 <= MaxParseDepth
    BY <1>3, <2>3
  <2> QED BY <1>1, <1>3, <1>4, <2>1 DEF Continues
<1>7. f.name = name /\ f.collected = << >> /\ f.implicit = no
  BY <1>17 DEF Frame
<1>8. Continuation(d, c) = RestOf(f, depth', pos', format')
  <2>1. CASE t = Mark("{")
    <3>1. Continuation(d, c) = EntriesCall(pos + 1, depth + 1, format, no, << >>)
      BY <1>3, <1>4, <2>1 DEF Continuation
    <3>2. f.name = "dictionary"
      BY <1>7, <1>16, <2>1
    <3> QED BY <1>1, <1>4, <1>7, <3>1, <3>2 DEF RestOf
  <2>2. CASE t # Mark("{")
    <3>1. Continuation(d, c) = ElementsCall(pos + 1, depth + 1, format, << >>)
      <4>1. c.kind = "value" /\ At(d, c.read) # Mark("{")
        BY <1>3, <1>4, <2>2
      <4>2. Continuation(d, c) = ElementsCall(c.read + 1, c.level + 1, c.dialect, << >>)
        BY ONLY <4>1 DEF Continuation
      <4> QED BY <1>3, <4>2
    <3>2. f.name # "dictionary"
      BY <1>7, <1>16, <2>2
    <3> QED BY <1>1, <1>4, <1>7, <3>1, <3>2 DEF RestOf
  <2> QED BY <2>1, <2>2
<1>9. Leads(d, c, RestOf(f, depth', pos', format'))
  BY <1>6, <1>8, ContinueRule DEF Leads
<1>10. /\ Len(stack') = n + 1 /\ stack'[n + 1] = f /\ \A k \in 1 .. n : stack'[k] = stack[k]
  <2>1. stack' = Extended(stack, f)
    BY <1>1
  <2> QED BY <1>15, <2>1, AppendSequence
<1>11. CallsOpen(d, asked)'
  <2>1. \A k \in 1 .. Len(stack') : Waiting(k)' =>
          k \in 1 .. Len(stack) /\ Waiting(k) /\ stack'[k] = stack[k]
    <3> SUFFICES ASSUME NEW k \in 1 .. n + 1, Waiting(k)'
                 PROVE  k \in 1 .. n /\ Waiting(k) /\ stack'[k] = stack[k]
      BY <1>10, <1>15
    <3>1. k < n + 1
      BY <1>2, <1>10 DEF Waiting
    <3>2. k \in 1 .. n
      BY <1>15, <3>1
    <3> QED BY <1>1, <1>10, <1>15, <3>2 DEF Waiting
  <2> QED BY <1>1, <2>1, OpenKept
<1>12. Entered(recovering', asked, Len(stack')) = c
  BY <1>1, <1>10, <1>15 DEF CallsCurrent
<1>13. Top' = f
  BY <1>10 DEF Top
<1>14. CallsCurrent(d, asked)'
  <2>1. Leads(d, Entered(recovering', asked, Len(stack')), RestOf(Top', depth', pos', format'))
    BY <1>9, <1>12, <1>13
  <2> QED BY <1>2, <2>1 DEF CallsCurrent
<1> QED BY <1>2, <1>11, <1>14, Unreturned

-----------------------------------------------------------------------------
(***************************************************************************)
(* In a container: c is the call for what is left of it.                   *)
(***************************************************************************)
LEMMA RestFields ==
  ASSUME NEW f, NEW level, NEW read, NEW dialect
  PROVE  /\ RestOf(f, level, read, dialect).read = read
         /\ RestOf(f, level, read, dialect).level = level
         /\ RestOf(f, level, read, dialect).dialect = dialect
         /\ f.name = "dictionary" =>
              /\ RestOf(f, level, read, dialect).kind = "entries"
              /\ RestOf(f, level, read, dialect).implicit = f.implicit
              /\ RestOf(f, level, read, dialect).entries = f.collected
         /\ f.name = "array" =>
              /\ RestOf(f, level, read, dialect).kind = "elements"
              /\ RestOf(f, level, read, dialect).items = f.collected
<1>1. CASE f.name = "dictionary"
  BY <1>1, CallFields DEF RestOf
<1>2. CASE f.name # "dictionary"
  BY <1>2, CallFields DEF RestOf
<1> QED BY <1>1, <1>2

LEMMA InsideFails ==
  ASSUME IInv, stack # << >>, NEW d, NEW asked, CallsOpen(d, asked),
         NEW c, Leads(d, Entered(recovering, asked, Len(stack)), c),
         Returns(d, c, Outcome(Error("Parse"), pos', format')), step' = Error("Parse")
  PROVE  Walked(d)'
<1> PICK e : e = Error("Parse")
  OBVIOUS
<1> PICK o : o = Outcome(e, pos', format')
  OBVIOUS
<1>1. e.op = "Err"
  BY DEF Error
<1>2. Failed(o)
  BY <1>1, OutcomeFields
<1>3. PICK m \in Nat : m + 1 = Len(stack) /\ \A k \in 1 .. m : Awaits(d, stack, recovering, asked, k)
  BY Inside
<1>4. Returns(d, Entered(recovering, asked, m + 1), o)
  BY <1>3 DEF Leads
<1>5. Returns(d, DocumentCall, o)
  BY <1>2, <1>3, <1>4, ErrorPassed
<1>6. step' = e /\ step'.op = "Err"
  BY <1>1
<1>7. Returns(d, DocumentCall, Outcome(step', pos', format'))
  BY <1>5, <1>6
<1> QED BY <1>6, <1>7 DEF Walked, Returned

LEMMA InsideCloses ==
  ASSUME IInv, stack # << >>, NEW d, NEW asked, CallsOpen(d, asked),
         NEW c, Leads(d, Entered(recovering, asked, Len(stack)), c),
         NEW v, Returns(d, c, Outcome(Return(v), pos', format')), step' = Deliver(v),
         stack' = Pop, UNCHANGED recovering
  PROVE  Walked(d)'
<1>1. PICK n \in Nat \ {0} : n = Len(stack) /\ IsSequence(stack)
  BY StackFacts
<1>2. Len(stack') = n - 1 /\ \A k \in 1 .. n - 1 : stack'[k] = stack[k]
  <2>1. stack' = Popped(stack)
    BY DEF Pop, Popped
  <2> QED BY <1>1, <2>1, PopSequence
<1>3. \A k \in 1 .. Len(stack') : Waiting(k)' =>
        k \in 1 .. Len(stack) /\ Waiting(k) /\ stack'[k] = stack[k]
  <2>1. \A k \in 1 .. n - 1 : k \in 1 .. n /\ k < n
    BY <1>1
  <2> QED BY <1>1, <1>2, <2>1 DEF Waiting
<1>4. CallsOpen(d, asked)'
  BY <1>3, OpenKept
<1>5. step'.op = "Deliver" /\ step'.value = v
  BY DEF Deliver
<1>6. Len(stack') + 1 = Len(stack)
  BY <1>1, <1>2
<1>7. Returns(d, Entered(recovering', asked, Len(stack') + 1), Outcome(Return(step'.value), pos', format'))
  BY <1>5, <1>6 DEF Leads
<1>8. CallsCurrent(d, asked)'
  BY <1>5, <1>7 DEF CallsCurrent
<1> QED BY <1>4, <1>5, <1>8, Unreturned

LEMMA InsideGoesOn ==
  ASSUME IInv, stack # << >>, NEW d, NEW asked, CallsOpen(d, asked),
         UNCHANGED recovering, step'.op = "Advance",
         NEW f, stack' = Replaced(stack, f) \/ (stack' = stack /\ f = Top),
         Leads(d, Entered(recovering, asked, Len(stack)), RestOf(f, depth', pos', format'))
  PROVE  Walked(d)'
<1>1. PICK n \in Nat \ {0} : n = Len(stack) /\ IsSequence(stack)
  BY StackFacts
<1>2. /\ Len(stack') = n /\ stack'[n] = f
      /\ \A k \in 1 .. n : k # n => stack'[k] = stack[k]
  <2>1. CASE stack' = Replaced(stack, f)
    BY <1>1, <2>1, ReplaceLast
  <2>2. CASE stack' = stack /\ f = Top
    BY <1>1, <2>2 DEF Top
  <2> QED BY <2>1, <2>2
<1>3. \A k \in 1 .. Len(stack') : Waiting(k)' =>
        k \in 1 .. Len(stack) /\ Waiting(k) /\ stack'[k] = stack[k]
  <2>1. \A k : k < n => k # n
    BY <1>1
  <2> QED BY <1>1, <1>2, <2>1 DEF Waiting
<1>4. CallsOpen(d, asked)'
  BY <1>3, OpenKept
<1>5. Top' = f
  BY <1>2 DEF Top
<1>6. Leads(d, Entered(recovering', asked, Len(stack')), RestOf(Top', depth', pos', format'))
  BY <1>1, <1>2, <1>5
<1>7. CallsCurrent(d, asked)'
  BY <1>6 DEF CallsCurrent
<1> QED BY <1>4, <1>7, Unreturned

(* The state in a container, from what its calls say of it. *)
LEMMA InContainer ==
  ASSUME IInv, step.op = "Advance", NEW d, NEW asked, CallsCurrent(d, asked),
         NEW c, c = RestOf(Top, depth, pos, format)
  PROVE  /\ stack # << >> /\ Leads(d, Entered(recovering, asked, Len(stack)), c)
         /\ c.read = pos /\ c.level = depth /\ c.dialect = format
         /\ Top.name = "dictionary" =>
              c.kind = "entries" /\ c.implicit = Top.implicit /\ c.entries = Top.collected
         /\ Top.name = "array" => c.kind = "elements" /\ c.items = Top.collected
<1>1. stack # << >>
  BY DEF IInv, StepOK
<1>2. Leads(d, Entered(recovering, asked, Len(stack)), c)
  BY DEF CallsCurrent
<1> QED BY <1>1, <1>2, RestFields

LEMMA CloseDictionaryRecursion ==
  ASSUME IInv, NEW t, Ahead(t), CloseDictionary(t), NEW d, Begins(d)',
         NEW asked, CallsOpen(d, asked), CallsCurrent(d, asked)
  PROVE  Walked(d)'
<1> PICK c : c = RestOf(Top, depth, pos, format)
  OBVIOUS
<1> PICK v : v = maybe_uid(Top.collected, format = "OpenStep")
  OBVIOUS
<1>1. /\ step.op = "Advance" /\ Top.name = "dictionary"
      /\ t = Mark("}") \/ (t = Eof /\ Top.implicit)
      /\ Take(t) /\ stack' = Pop /\ UNCHANGED <<format, recovering>>
  BY DEF CloseDictionary, InDictionary
<1>2. step' = Deliver(v)
  BY Zenon DEF CloseDictionary
<1>3. /\ stack # << >> /\ Leads(d, Entered(recovering, asked, Len(stack)), c)
      /\ c.read = pos /\ c.dialect = format
      /\ c.kind = "entries" /\ c.implicit = Top.implicit /\ c.entries = Top.collected
  BY <1>1, InContainer
<1>4. At(d, pos) = t /\ pos' = After(d, pos)
  BY <1>1, Consumed
<1>5. t.kind # "Str"
  <2>1. Eof.kind = "Eof" /\ Mark("}").kind = "Mark"
    BY DEF Eof, Mark
  <2> QED BY <1>1, <2>1
<1>6. ~ Continues(d, c) /\ ~ Asks(d, c)
  BY <1>3, <1>4, <1>5 DEF Continues, Asks
<1>7. Answer(d, c) = EntriesAnswer(d, c)
  BY <1>3 DEF Answer
<1>8. EntriesAnswer(d, c) = Outcome(Return(v), pos', format)
  <2>1. At(d, c.read) = Mark("}") \/ (c.implicit /\ At(d, c.read) = Eof)
    BY <1>1, <1>3, <1>4, Zenon
  <2>2. EntriesAnswer(d, c) =
          Outcome(Return(maybe_uid(c.entries, c.dialect = "OpenStep")), After(d, c.read), c.dialect)
    BY <2>1, Zenon DEF EntriesAnswer
  <2>3. maybe_uid(c.entries, c.dialect = "OpenStep") = v
    BY <1>3, Zenon
  <2> QED BY <1>3, <1>4, <2>2, <2>3
<1>9. Returns(d, c, Outcome(Return(v), pos', format'))
  <2>1. Returns(d, c, Answer(d, c))
    BY <1>6, AnswerRule
  <2>2. format' = format
    BY <1>1
  <2> QED BY <1>7, <1>8, <2>1, <2>2
<1> QED BY <1>1, <1>2, <1>3, <1>9, InsideCloses

LEMMA DictionaryFailsRecursion ==
  ASSUME IInv, NEW t, Ahead(t), DictionaryFails(t), NEW d, Begins(d)',
         NEW asked, CallsOpen(d, asked), CallsCurrent(d, asked)
  PROVE  Walked(d)'
<1> PICK c : c = RestOf(Top, depth, pos, format)
  OBVIOUS
<1>1. /\ step.op = "Advance" /\ Top.name = "dictionary"
      /\ t.kind # "Str" /\ t # Mark("}") /\ ~ (t = Eof /\ Top.implicit)
      /\ Take(t) /\ step' = Error("Parse") /\ UNCHANGED <<stack, format, recovering>>
  BY DEF DictionaryFails, InDictionary, Reject
<1>2. /\ stack # << >> /\ Leads(d, Entered(recovering, asked, Len(stack)), c)
      /\ c.read = pos /\ c.dialect = format
      /\ c.kind = "entries" /\ c.implicit = Top.implicit
  BY <1>1, InContainer
<1>3. At(d, pos) = t /\ pos' = After(d, pos)
  BY <1>1, Consumed
<1>4. ~ Continues(d, c) /\ ~ Asks(d, c)
  BY <1>1, <1>2, <1>3 DEF Continues, Asks
<1>5. Answer(d, c) = EntriesAnswer(d, c)
  BY <1>2 DEF Answer
<1>6. EntriesAnswer(d, c) = Outcome(Error("Parse"), pos', format)
  <2>1. ~ (At(d, c.read) = Mark("}") \/ (c.implicit /\ At(d, c.read) = Eof))
    BY <1>1, <1>2, <1>3, Zenon
  <2>2. At(d, c.read).kind # "Str"
    BY <1>1, <1>2, <1>3
  <2>3. EntriesAnswer(d, c) = Failure(d, c.read, c.dialect)
    BY <2>1, <2>2, Zenon DEF EntriesAnswer
  <2> QED BY <1>2, <1>3, <2>3 DEF Failure
<1>7. Returns(d, c, Outcome(Error("Parse"), pos', format'))
  BY <1>1, <1>4, <1>5, <1>6, AnswerRule
<1> QED BY <1>1, <1>2, <1>7, InsideFails

LEMMA ReadKeyRecursion ==
  ASSUME IInv, NEW t, Ahead(t), ReadKey(t), NEW d, Begins(d)',
         NEW asked, CallsOpen(d, asked), CallsCurrent(d, asked)
  PROVE  Walked(d)'
<1>1. /\ step.op = "Advance" /\ t.kind = "Str" /\ Take(t) /\ step' = AfterKey(t.text)
      /\ UNCHANGED <<stack, depth, format, recovering>>
  BY DEF ReadKey, InDictionary
<1>2. step'.op = "AfterKey" /\ step'.text = t.text
  BY <1>1 DEF AfterKey
<1>3. At(d, pos) = t /\ pos' = pos + 1 /\ pos \in Nat
  <2>1. t # Eof
    BY <1>1, KindsDiffer
  <2> QED BY <1>1, <2>1, Consumed
<1>4. pos' # 0 /\ pos' - 1 = pos
  BY <1>3
<1>5. CallsOpen(d, asked)'
  <2>1. \A k \in 1 .. Len(stack') : Waiting(k)' =>
          k \in 1 .. Len(stack) /\ Waiting(k) /\ stack'[k] = stack[k]
    BY <1>1, <1>2 DEF Waiting
  <2> QED BY <1>1, <2>1, OpenKept
<1>6. Leads(d, Entered(recovering, asked, Len(stack)), RestOf(Top, depth, pos, format))
  BY <1>1 DEF CallsCurrent
<1>7. Top' = Top
  BY <1>1 DEF Top
<1>8. Leads(d, Entered(recovering', asked, Len(stack')), RestOf(Top', depth', pos' - 1, format'))
  BY <1>1, <1>4, <1>6, <1>7
<1>9. At(d, pos' - 1).kind = "Str" /\ At(d, pos' - 1).text = step'.text
  BY <1>1, <1>2, <1>3, <1>4
<1>10. CallsCurrent(d, asked)'
  BY <1>2, <1>4, <1>8, <1>9 DEF CallsCurrent
<1> QED BY <1>2, <1>5, <1>10, Unreturned

(* After a key the call for the dictionary is one lexeme behind. *)
LEMMA BehindKey ==
  ASSUME IInv, step.op = "AfterKey", NEW t, Ahead(t), Take(t), NEW d, Begins(d)',
         NEW asked, CallsCurrent(d, asked), NEW c, c = RestOf(Top, depth, pos - 1, format)
  PROVE  /\ stack # << >> /\ Top.name = "dictionary" /\ IsFrame(Top) /\ Top.key = {}
         /\ Leads(d, Entered(recovering, asked, Len(stack)), c)
         /\ c.kind = "entries" /\ c.implicit = Top.implicit /\ c.entries = Top.collected
         /\ c.level = depth /\ c.dialect = format
         /\ At(d, c.read).kind = "Str" /\ At(d, c.read).text = step.text
         /\ At(d, c.read + 1) = t /\ c.read + 1 = pos /\ c.read \in Nat
<1>1. pos \in Nat /\ At(d, pos) = t
  BY Consumed
<1>2. /\ pos # 0 /\ At(d, pos - 1).kind = "Str" /\ At(d, pos - 1).text = step.text
      /\ Leads(d, Entered(recovering, asked, Len(stack)), c)
  BY DEF CallsCurrent
<1>3. stack # << >> /\ Top.name = "dictionary" /\ Top.key = {}
  BY DEF IInv, StepOK
<1>4. IsFrame(Top)
  BY <1>3, StackFacts
<1>5. /\ c.kind = "entries" /\ c.implicit = Top.implicit /\ c.entries = Top.collected
      /\ c.level = depth /\ c.dialect = format /\ c.read = pos - 1
  BY <1>3, RestFields
<1>6. (pos - 1) + 1 = pos /\ pos - 1 \in Nat
  BY <1>1, <1>2
<1> QED BY <1>1, <1>2, <1>3, <1>4, <1>5, <1>6

LEMMA KeyFailsRecursion ==
  ASSUME IInv, NEW t, Ahead(t), KeyFails(t), NEW d, Begins(d)',
         NEW asked, CallsOpen(d, asked), CallsCurrent(d, asked)
  PROVE  Walked(d)'
<1> PICK c : c = RestOf(Top, depth, pos - 1, format)
  OBVIOUS
<1>1. /\ step.op = "AfterKey" /\ t \notin {Mark(";"), Mark("=")}
      /\ Take(t) /\ step' = Error("Parse") /\ UNCHANGED <<stack, format, recovering>>
  BY DEF KeyFails, Reject
<1>2. /\ stack # << >> /\ Leads(d, Entered(recovering, asked, Len(stack)), c)
      /\ c.kind = "entries" /\ c.dialect = format
      /\ At(d, c.read).kind = "Str" /\ At(d, c.read + 1) = t /\ c.read + 1 = pos
  <2>1. step.op = "AfterKey" /\ Take(t)
    BY <1>1
  <2> QED BY <2>1, BehindKey
<1>3. pos' = After(d, pos)
  BY <1>1, Consumed
<1>4. ~ Continues(d, c) /\ ~ Asks(d, c)
  BY <1>1, <1>2 DEF Continues, Asks
<1>5. Answer(d, c) = EntriesAnswer(d, c)
  BY <1>2 DEF Answer
<1>6. EntriesAnswer(d, c) = Outcome(Error("Parse"), pos', format)
  <2>1. At(d, c.read) # Mark("}") /\ At(d, c.read) # Eof
    <3>1. Eof.kind = "Eof" /\ Mark("}").kind = "Mark"
      BY DEF Eof, Mark
    <3> QED BY <1>2, <3>1
  <2>2. EntriesAnswer(d, c) = Failure(d, c.read + 1, c.dialect)
    BY <1>2, <2>1, Zenon DEF EntriesAnswer
  <2> QED BY <1>2, <1>3, <2>2 DEF Failure
<1>7. Returns(d, c, Outcome(Error("Parse"), pos', format'))
  BY <1>1, <1>4, <1>5, <1>6, AnswerRule
<1> QED BY <1>1, <1>2, <1>7, InsideFails

LEMMA ReadShorthandRecursion ==
  ASSUME IInv, NEW t, Ahead(t), ReadShorthand(t), NEW d, Begins(d)',
         NEW asked, CallsOpen(d, asked), CallsCurrent(d, asked)
  PROVE  Walked(d)'
<1> PICK c : c = RestOf(Top, depth, pos - 1, format)
  OBVIOUS
<1> PICK kept : kept = Append(Top.collected, Entry(step.text, String(step.text)))
  OBVIOUS
<1> PICK f : f = [Top EXCEPT !.collected = kept]
  OBVIOUS
<1>1. /\ step.op = "AfterKey" /\ t = Mark(";") /\ Take(t) /\ stack' = WithTop(f)
      /\ step'.op = "Advance" /\ UNCHANGED <<depth, format, recovering>>
  BY DEF ReadShorthand, Advance
<1>2. /\ stack # << >> /\ Top.name = "dictionary" /\ IsFrame(Top)
      /\ Leads(d, Entered(recovering, asked, Len(stack)), c)
      /\ c.kind = "entries" /\ c.implicit = Top.implicit /\ c.entries = Top.collected
      /\ c.level = depth /\ c.dialect = format
      /\ At(d, c.read).kind = "Str" /\ At(d, c.read).text = step.text
      /\ At(d, c.read + 1) = t /\ c.read + 1 = pos /\ c.read \in Nat
  <2>1. step.op = "AfterKey" /\ Take(t)
    BY <1>1
  <2> QED BY <2>1, BehindKey
<1>3. pos' = c.read + 2
  <2>1. t # Eof
    BY <1>1, KindsDiffer
  <2>2. pos' = pos + 1
    BY <1>1, <2>1, Consumed
  <2> QED BY <1>2, <2>2
<1>4. Continues(d, c)
  BY <1>1, <1>2 DEF Continues
<1>5. f.name = "dictionary" /\ f.collected = kept /\ f.implicit = Top.implicit
  BY <1>2, FrameFields
<1>6. Continuation(d, c) = RestOf(f, depth', pos', format')
  <2>1. Continuation(d, c) =
          EntriesCall(c.read + 2, c.level, c.dialect, c.implicit,
                      Append(c.entries, Entry(At(d, c.read).text, String(At(d, c.read).text))))
    BY <1>2 DEF Continuation
  <2>2. Continuation(d, c) = EntriesCall(pos', depth, format, f.implicit, kept)
    BY <1>2, <1>3, <1>5, <2>1
  <2> QED BY <1>1, <1>5, <2>2 DEF RestOf
<1>7. Leads(d, c, RestOf(f, depth', pos', format'))
  BY <1>4, <1>6, ContinueRule DEF Leads
<1>8. stack' = Replaced(stack, f)
  BY <1>1 DEF WithTop, Replaced
<1>9. Leads(d, Entered(recovering, asked, Len(stack)), RestOf(f, depth', pos', format'))
  BY <1>2, <1>7, LeadsOn
<1> QED BY <1>1, <1>2, <1>8, <1>9, InsideGoesOn

LEMMA ReadEqualsRecursion ==
  ASSUME IInv, NEW t, Ahead(t), ReadEquals(t), NEW d, Begins(d)',
         NEW asked, CallsOpen(d, asked), CallsCurrent(d, asked)
  PROVE  Walked(d)'
<1> PICK c : c = RestOf(Top, depth, pos - 1, format)
  OBVIOUS
<1> PICK f : f = [Top EXCEPT !.key = {step.text}]
  OBVIOUS
<1>1. /\ step.op = "AfterKey" /\ t = Mark("=") /\ Take(t) /\ stack' = WithTop(f)
      /\ step'.op = "Open" /\ UNCHANGED <<depth, format, recovering>>
  BY DEF ReadEquals, Open
<1>2. /\ stack # << >> /\ Top.name = "dictionary" /\ IsFrame(Top)
      /\ Leads(d, Entered(recovering, asked, Len(stack)), c)
      /\ c.kind = "entries" /\ c.implicit = Top.implicit /\ c.entries = Top.collected
      /\ c.level = depth /\ c.dialect = format
      /\ At(d, c.read).kind = "Str" /\ At(d, c.read).text = step.text
      /\ At(d, c.read + 1) = t /\ c.read + 1 = pos /\ c.read \in Nat
  <2>1. step.op = "AfterKey" /\ Take(t)
    BY <1>1
  <2> QED BY <2>1, BehindKey
<1>3. pos' = c.read + 2
  <2>1. t # Eof
    BY <1>1, KindsDiffer
  <2>2. pos' = pos + 1
    BY <1>1, <2>1, Consumed
  <2> QED BY <1>2, <2>2
<1>4. Asks(d, c)
  BY <1>1, <1>2 DEF Asks
<1>5. /\ f.name = "dictionary" /\ f.collected = Top.collected /\ f.implicit = Top.implicit
      /\ f.key = {step.text}
  BY <1>2, FrameFields
<1>6. Fits(d, f, c)
  BY <1>2, <1>5 DEF Fits
<1>7. ChildCall(c) = ValueCall(pos', depth', format')
  BY <1>1, <1>2, <1>3 DEF ChildCall
<1>8. stack' = Replaced(stack, f)
  BY <1>1 DEF WithTop, Replaced
<1>9. /\ IsSequence(stack') /\ Len(stack') = Len(stack) /\ stack'[Len(stack)] = f
      /\ \A k \in 1 .. Len(stack) : k # Len(stack) => stack'[k] = stack[k]
  BY <1>2, <1>8, StackFacts, ReplaceLast
<1>10. c.level = Level(recovering, Len(stack))
  BY <1>1, <1>2, LevelOfTop DEF Returned
<1>11. PICK other : CallsOpen(d, other)' /\ Entered(recovering', other, Len(stack') + 1) = ChildCall(c)
  <2>1. stack # << >> /\ recovering' = recovering /\ Leads(d, Entered(recovering, asked, Len(stack)), c)
    BY <1>1, <1>2
  <2>2. Fits(d, stack'[Len(stack)], c)
    BY <1>6, <1>9
  <2>3. /\ IsSequence(stack') /\ Len(stack') = Len(stack)
        /\ \A k \in 1 .. Len(stack) : k # Len(stack) => stack'[k] = stack[k]
    BY <1>9
  <2> QED BY <1>4, <1>10, <2>1, <2>2, <2>3, NewlyAsked
<1>12. CallsCurrent(d, other)'
  BY <1>1, <1>7, <1>11 DEF CallsCurrent
<1> QED BY <1>1, <1>11, <1>12, Unreturned

LEMMA CloseArrayRecursion ==
  ASSUME IInv, NEW t, Ahead(t), CloseArray(t), NEW d, Begins(d)',
         NEW asked, CallsOpen(d, asked), CallsCurrent(d, asked)
  PROVE  Walked(d)'
<1> PICK c : c = RestOf(Top, depth, pos, format)
  OBVIOUS
<1> PICK v : v = Array(Top.collected)
  OBVIOUS
<1>1. /\ step.op = "Advance" /\ Top.name = "array" /\ t = Mark(")") /\ Take(t)
      /\ stack' = Pop /\ step' = Deliver(v) /\ UNCHANGED <<format, recovering>>
  BY DEF CloseArray, InArray
<1>2. /\ stack # << >> /\ Leads(d, Entered(recovering, asked, Len(stack)), c)
      /\ c.read = pos /\ c.dialect = format /\ c.kind = "elements" /\ c.items = Top.collected
  BY <1>1, InContainer
<1>3. At(d, pos) = t /\ pos' = pos + 1
  <2>1. t # Eof
    BY <1>1, KindsDiffer
  <2> QED BY <1>1, <2>1, Consumed
<1>4. ~ Continues(d, c) /\ ~ Asks(d, c)
  <2>1. Mark(")") # Mark(",")
    BY DEF Mark
  <2> QED BY <1>1, <1>2, <1>3, <2>1 DEF Continues, Asks
<1>5. Answer(d, c) = Outcome(Return(v), pos', format)
  BY <1>1, <1>2, <1>3 DEF Answer, ElementsAnswer
<1>6. Returns(d, c, Outcome(Return(v), pos', format'))
  <2>1. Returns(d, c, Answer(d, c))
    BY <1>4, AnswerRule
  <2>2. format' = format
    BY <1>1
  <2> QED BY <1>5, <2>1, <2>2
<1> QED BY <1>1, <1>2, <1>6, InsideCloses

LEMMA ArrayFailsRecursion ==
  ASSUME IInv, NEW t, Ahead(t), ArrayFails(t), NEW d, Begins(d)',
         NEW asked, CallsOpen(d, asked), CallsCurrent(d, asked)
  PROVE  Walked(d)'
<1> PICK c : c = RestOf(Top, depth, pos, format)
  OBVIOUS
<1>1. /\ step.op = "Advance" /\ Top.name = "array" /\ t \in {Eof, Unclosed} /\ Take(t)
      /\ step' = Error("Parse") /\ UNCHANGED <<stack, format, recovering>>
  BY DEF ArrayFails, InArray, Reject
<1>2. /\ stack # << >> /\ Leads(d, Entered(recovering, asked, Len(stack)), c)
      /\ c.read = pos /\ c.dialect = format /\ c.kind = "elements"
  BY <1>1, InContainer
<1>3. At(d, pos) = t /\ pos' = After(d, pos)
  BY <1>1, Consumed
<1>4. t # Mark(")") /\ t # Mark(",")
  <2>1. Eof.kind = "Eof" /\ Unclosed.kind = "Unclosed" /\ \A m : Mark(m).kind = "Mark"
    BY DEF Mark, Eof, Unclosed
  <2>2. t = Eof \/ t = Unclosed
    BY <1>1
  <2> QED BY <2>1, <2>2
<1>5. ~ Continues(d, c) /\ ~ Asks(d, c)
  BY <1>1, <1>2, <1>3, <1>4 DEF Continues, Asks
<1>6. Answer(d, c) = Outcome(Error("Parse"), pos', format)
  BY <1>2, <1>3, <1>4 DEF Answer, ElementsAnswer, Failure
<1>7. Returns(d, c, Outcome(Error("Parse"), pos', format'))
  <2>1. Returns(d, c, Answer(d, c))
    BY <1>5, AnswerRule
  <2>2. format' = format
    BY <1>1
  <2> QED BY <1>6, <2>1, <2>2
<1> QED BY <1>1, <1>2, <1>7, InsideFails

LEMMA SkipCommaRecursion ==
  ASSUME IInv, NEW t, Ahead(t), SkipComma(t), NEW d, Begins(d)',
         NEW asked, CallsOpen(d, asked), CallsCurrent(d, asked)
  PROVE  Walked(d)'
<1> PICK c : c = RestOf(Top, depth, pos, format)
  OBVIOUS
<1>1. /\ step.op = "Advance" /\ Top.name = "array" /\ t = Mark(",") /\ Take(t)
      /\ UNCHANGED <<stack, step, depth, format, recovering>>
  BY DEF SkipComma, InArray
<1>2. /\ stack # << >> /\ Leads(d, Entered(recovering, asked, Len(stack)), c)
      /\ c.read = pos /\ c.level = depth /\ c.dialect = format
      /\ c.kind = "elements" /\ c.items = Top.collected
  BY <1>1, InContainer
<1>3. At(d, pos) = t /\ pos' = pos + 1
  <2>1. t # Eof
    BY <1>1, KindsDiffer
  <2> QED BY <1>1, <2>1, Consumed
<1>4. Continues(d, c)
  BY <1>1, <1>2, <1>3 DEF Continues
<1>5. Continuation(d, c) = RestOf(Top, depth', pos', format')
  <2>1. Continuation(d, c) = ElementsCall(c.read + 1, c.level, c.dialect, c.items)
    BY <1>2 DEF Continuation
  <2> QED BY <1>1, <1>2, <1>3, <2>1 DEF RestOf
<1>6. Leads(d, c, RestOf(Top, depth', pos', format'))
  BY <1>4, <1>5, ContinueRule DEF Leads
<1>7. Leads(d, Entered(recovering, asked, Len(stack)), RestOf(Top, depth', pos', format'))
  BY <1>2, <1>6, LeadsOn
<1>8. stack' = stack /\ step'.op = "Advance" /\ recovering' = recovering
  BY <1>1
<1> QED BY <1>2, <1>7, <1>8, InsideGoesOn

LEMMA ReadElementRecursion ==
  ASSUME IInv, NEW t, Ahead(t), ReadElement(t), NEW d, Begins(d)',
         NEW asked, CallsOpen(d, asked), CallsCurrent(d, asked)
  PROVE  Walked(d)'
<1> PICK c : c = RestOf(Top, depth, pos, format)
  OBVIOUS
<1>1. /\ step.op = "Advance" /\ Top.name = "array" /\ t \notin {Mark(")"), Mark(","), Eof, Unclosed}
      /\ Peek(t) /\ step'.op = "Open" /\ UNCHANGED <<pos, stack, depth, format, recovering>>
  BY DEF ReadElement, InArray, Open
<1>2. /\ stack # << >> /\ Leads(d, Entered(recovering, asked, Len(stack)), c)
      /\ c.read = pos /\ c.level = depth /\ c.dialect = format
      /\ c.kind = "elements" /\ c.items = Top.collected
  BY <1>1, InContainer
<1>3. At(d, pos) = t
  BY <1>1, Looked
<1>4. Asks(d, c)
  BY <1>1, <1>2, <1>3 DEF Asks
<1>5. Fits(d, Top, c)
  BY <1>1, <1>2 DEF Fits
<1>6. ChildCall(c) = ValueCall(pos', depth', format')
  BY <1>1, <1>2 DEF ChildCall
<1>7. /\ IsSequence(stack') /\ Len(stack') = Len(stack) /\ stack'[Len(stack)] = Top
      /\ \A k \in 1 .. Len(stack) : k # Len(stack) => stack'[k] = stack[k]
  BY <1>1, StackFacts DEF Top
<1>8. c.level = Level(recovering, Len(stack))
  BY <1>1, <1>2, LevelOfTop DEF Returned
<1>9. PICK other : CallsOpen(d, other)' /\ Entered(recovering', other, Len(stack') + 1) = ChildCall(c)
  <2>1. stack # << >> /\ recovering' = recovering /\ Leads(d, Entered(recovering, asked, Len(stack)), c)
    BY <1>1, <1>2
  <2>2. Fits(d, stack'[Len(stack)], c)
    BY <1>5, <1>7
  <2>3. /\ IsSequence(stack') /\ Len(stack') = Len(stack)
        /\ \A k \in 1 .. Len(stack) : k # Len(stack) => stack'[k] = stack[k]
    BY <1>7
  <2> QED BY <1>4, <1>8, <2>1, <2>2, <2>3, NewlyAsked
<1>10. CallsCurrent(d, other)'
  BY <1>1, <1>6, <1>9 DEF CallsCurrent
<1> QED BY <1>1, <1>9, <1>10, Unreturned

-----------------------------------------------------------------------------
(***************************************************************************)
(* Delivering a value to the call that asked for it.                       *)
(***************************************************************************)
LEMMA Delivering ==
  ASSUME IInv, step.op = "Deliver", stack # << >>,
         NEW d, NEW asked, CallsOpen(d, asked), CallsCurrent(d, asked),
         NEW c, c = asked[Len(stack)], NEW p, p = Outcome(Return(step.value), pos, format)
  PROVE  /\ Asks(d, c) /\ Fits(d, Top, c) /\ c.level = depth
         /\ ~ Failed(p) /\ p.out.value = step.value /\ p.read = pos /\ p.dialect = format
         /\ ~ Resumes(d, c, p) => Returns(d, Entered(recovering, asked, Len(stack)), Settled(d, c, p))
         /\ Resumes(d, c, p) => Leads(d, Entered(recovering, asked, Len(stack)), RestCall(d, c, p))
<1>1. PICK n \in Nat \ {0} : n = Len(stack) /\ n \in 1 .. Len(stack)
  BY StackFacts
<1>2. Awaits(d, stack, recovering, asked, n)
  BY <1>1, Asking
<1>3. Asks(d, c) /\ Fits(d, Top, c) /\ c.level = Level(recovering, Len(stack))
  BY <1>1, <1>2 DEF Awaits, Top
<1>4. c.level = depth
  BY <1>3, LevelOfTop DEF Returned
<1>5. Return(step.value).op = "Ok" /\ Return(step.value).value = step.value
  BY DEF Return
<1>6. ~ Failed(p) /\ p.out.value = step.value /\ p.read = pos /\ p.dialect = format
  BY <1>5, OutcomeFields
<1>7. Returns(d, Entered(recovering, asked, n + 1), p)
  BY <1>1 DEF CallsCurrent
<1>8. /\ ~ Resumes(d, c, p) => Returns(d, Entered(recovering, asked, n), Settled(d, c, p))
      /\ Resumes(d, c, p) => Leads(d, Entered(recovering, asked, n), RestCall(d, c, p))
  BY <1>1, <1>2, <1>7, EnteredAnswered
<1> QED BY <1>1, <1>3, <1>4, <1>6, <1>8

LEMMA DeliverEntryRecursion ==
  ASSUME IInv, NEW t, Ahead(t), DeliverEntry(t), NEW d, Begins(d)',
         NEW asked, CallsOpen(d, asked), CallsCurrent(d, asked)
  PROVE  Walked(d)'
<1> PICK c : c = asked[Len(stack)]
  OBVIOUS
<1> PICK p : p = Outcome(Return(step.value), pos, format)
  OBVIOUS
<1> PICK kept : kept = Append(Top.collected, Entry(CHOOSE k \in Top.key : TRUE, step.value))
  OBVIOUS
<1> PICK f : f = [Top EXCEPT !.collected = kept, !.key = {}]
  OBVIOUS
<1>1. /\ step.op = "Deliver" /\ stack # << >> /\ Top.name = "dictionary" /\ t = Mark(";") /\ Take(t)
      /\ stack' = WithTop(f) /\ step'.op = "Advance" /\ UNCHANGED <<depth, format, recovering>>
  BY DEF DeliverEntry, InFrame, Advance
<1>2. /\ Asks(d, c) /\ Fits(d, Top, c) /\ c.level = depth
      /\ ~ Failed(p) /\ p.out.value = step.value /\ p.read = pos /\ p.dialect = format
      /\ Resumes(d, c, p) => Leads(d, Entered(recovering, asked, Len(stack)), RestCall(d, c, p))
  BY <1>1, Delivering
<1>3. At(d, pos) = t /\ pos' = pos + 1
  <2>1. t # Eof
    BY <1>1, KindsDiffer
  <2> QED BY <1>1, <2>1, Consumed
<1>4. /\ c.kind = "entries" /\ c.entries = Top.collected /\ c.implicit = Top.implicit
      /\ Top.key = {At(d, c.read).text}
  BY <1>1, <1>2 DEF Fits
<1>5. Resumes(d, c, p)
  BY <1>1, <1>2, <1>3, <1>4 DEF Resumes
<1>6. IsFrame(Top)
  BY <1>1, StackFacts
<1>7. f.name = "dictionary" /\ f.collected = kept /\ f.implicit = Top.implicit
  BY <1>1, <1>6, FrameFields
<1>8. (CHOOSE k \in Top.key : TRUE) = At(d, c.read).text
  BY <1>4
<1>9. RestCall(d, c, p) = RestOf(f, depth', pos', format')
  <2>1. RestCall(d, c, p) =
          EntriesCall(p.read + 1, c.level, p.dialect, c.implicit,
                      Append(c.entries, Entry(At(d, c.read).text, p.out.value)))
    BY <1>4 DEF RestCall
  <2>2. RestCall(d, c, p) = EntriesCall(pos', depth, format, f.implicit, kept)
    BY <1>2, <1>3, <1>4, <1>7, <1>8, <2>1
  <2> QED BY <1>1, <1>7, <2>2 DEF RestOf
<1>10. Leads(d, Entered(recovering, asked, Len(stack)), RestOf(f, depth', pos', format'))
  BY <1>2, <1>5, <1>9
<1>11. stack' = Replaced(stack, f)
  BY <1>1 DEF WithTop, Replaced
<1> QED BY <1>1, <1>10, <1>11, InsideGoesOn

LEMMA EntryFailsRecursion ==
  ASSUME IInv, NEW t, Ahead(t), EntryFails(t), NEW d, Begins(d)',
         NEW asked, CallsOpen(d, asked), CallsCurrent(d, asked)
  PROVE  Walked(d)'
<1> PICK c : c = asked[Len(stack)]
  OBVIOUS
<1> PICK p : p = Outcome(Return(step.value), pos, format)
  OBVIOUS
<1> PICK b : b = Entered(recovering, asked, Len(stack))
  OBVIOUS
<1>1. /\ step.op = "Deliver" /\ stack # << >> /\ Top.name = "dictionary" /\ t # Mark(";") /\ Take(t)
      /\ step' = Error("Parse") /\ UNCHANGED <<stack, format, recovering>>
  BY DEF EntryFails, InFrame, Reject
<1>2. /\ Fits(d, Top, c)
      /\ ~ Failed(p) /\ p.read = pos /\ p.dialect = format
      /\ ~ Resumes(d, c, p) => Returns(d, b, Settled(d, c, p))
  BY <1>1, Delivering
<1>3. At(d, pos) = t /\ pos' = After(d, pos)
  BY <1>1, Consumed
<1>4. c.kind = "entries"
  BY <1>1, <1>2 DEF Fits
<1>5. ~ Resumes(d, c, p)
  BY <1>1, <1>2, <1>3, <1>4 DEF Resumes
<1>6. Settled(d, c, p) = Outcome(Error("Parse"), pos', format)
  BY <1>2, <1>3, <1>4 DEF Settled, Failure
<1>7. Returns(d, b, Outcome(Error("Parse"), pos', format'))
  <2>1. format' = format
    BY <1>1
  <2> QED BY <1>2, <1>5, <1>6, <2>1
<1>8. Leads(d, Entered(recovering, asked, Len(stack)), b)
  BY DEF Leads
<1> QED BY <1>1, <1>7, <1>8, InsideFails

LEMMA DeliverElementRecursion ==
  ASSUME IInv, DeliverElement, NEW d, Begins(d)',
         NEW asked, CallsOpen(d, asked), CallsCurrent(d, asked)
  PROVE  Walked(d)'
<1> PICK c : c = asked[Len(stack)]
  OBVIOUS
<1> PICK p : p = Outcome(Return(step.value), pos, format)
  OBVIOUS
<1>1. /\ step.op = "Deliver" /\ stack # << >> /\ Top.name = "array" /\ step'.op = "Advance"
      /\ UNCHANGED <<input, pos, depth, format, recovering>>
  BY DEF DeliverElement, InFrame, Advance
<1>2. /\ Asks(d, c) /\ Fits(d, Top, c) /\ c.level = depth
      /\ ~ Failed(p) /\ p.out.value = step.value /\ p.read = pos /\ p.dialect = format
      /\ Resumes(d, c, p) => Leads(d, Entered(recovering, asked, Len(stack)), RestCall(d, c, p))
  BY <1>1, Delivering
<1>3. c.kind = "elements" /\ c.items = Top.collected
  BY <1>1, <1>2 DEF Fits
<1>4. Resumes(d, c, p)
  BY <1>2, <1>3 DEF Resumes
<1>5. PICK kept : kept = IF step.value = String(<< >>) THEN Top.collected
                         ELSE Append(Top.collected, step.value)
  OBVIOUS
<1>6. RestCall(d, c, p) = ElementsCall(pos', depth', format', kept)
  BY <1>1, <1>2, <1>3, <1>5 DEF RestCall
<1>7. PICK f : /\ stack' = Replaced(stack, f) \/ (stack' = stack /\ f = Top)
               /\ f.name = "array" /\ f.collected = kept
  <2>1. CASE step.value = String(<< >>)
    <3>1. stack' = stack
      BY <2>1 DEF DeliverElement
    <3>2. Top.name = "array" /\ Top.collected = kept
      BY <1>1, <1>5, <2>1
    <3> QED BY <3>1, <3>2
  <2>2. CASE step.value # String(<< >>)
    <3>1. PICK f : f = [Top EXCEPT !.collected = Append(@, step.value)]
      OBVIOUS
    <3>2. stack' = Replaced(stack, f)
      BY <2>2, <3>1 DEF DeliverElement, WithTop, Replaced
    <3>3. IsFrame(Top)
      BY <1>1, StackFacts
    <3>4. f.name = "array" /\ f.collected = Append(Top.collected, step.value)
      BY <1>1, <3>1, <3>3 DEF IsFrame
    <3> QED BY <1>5, <2>2, <3>2, <3>4
  <2> QED BY <2>1, <2>2
<1>8. RestCall(d, c, p) = RestOf(f, depth', pos', format')
  BY <1>6, <1>7 DEF RestOf
<1>9. Leads(d, Entered(recovering, asked, Len(stack)), RestOf(f, depth', pos', format'))
  BY <1>2, <1>4, <1>8
<1> QED BY <1>1, <1>7, <1>9, InsideGoesOn

-----------------------------------------------------------------------------
(***************************************************************************)
(* The end of parse_document.                                              *)
(***************************************************************************)
LEMMA DeliverOutRecursion ==
  ASSUME IInv, DeliverOut, NEW d, Begins(d)',
         NEW asked, CallsOpen(d, asked), CallsCurrent(d, asked)
  PROVE  Walked(d)'
<1> PICK v : v = step.value
  OBVIOUS
<1> PICK p : p = Outcome(Return(v), pos, format)
  OBVIOUS
<1>1. /\ step.op = "Deliver" /\ stack = << >> /\ Len(stack) = 0
      /\ step' = IF recovering THEN Return(v) ELSE Finish(v)
      /\ UNCHANGED <<input, pos, stack, depth, format, recovering>>
  BY StackFacts DEF DeliverOut
<1>2. Returns(d, IF recovering THEN DocumentCall ELSE RootCall, p)
  BY <1>1 DEF CallsCurrent, Entered
<1>3. CASE recovering
  <2>1. step' = Return(v) /\ step'.op = "Ok"
    BY <1>1, <1>3 DEF Return
  <2>2. Returns(d, DocumentCall, Outcome(step', pos', format'))
    BY <1>1, <1>2, <1>3, <2>1
  <2> QED BY <2>1, <2>2 DEF Walked, Returned
<1>4. CASE ~ recovering
  <2>1. step'.op = "Finish" /\ step'.value = v
    BY <1>1, <1>4 DEF Finish
  <2>2. Returns(d, RootCall, Outcome(Return(step'.value), pos', format'))
    BY <1>1, <1>2, <1>4, <2>1
  <2>3. CallsCurrent(d, asked)'
    BY <2>1, <2>2 DEF CallsCurrent
  <2>4. CallsOpen(d, asked)'
    <3>1. Len(stack') = 0
      BY <1>1
    <3> QED BY <3>1 DEF CallsOpen
  <2> QED BY <2>1, <2>3, <2>4, Unreturned
<1> QED BY <1>3, <1>4

LEMMA Finishing ==
  ASSUME IInv, step.op = "Finish", NEW d, NEW asked, CallsCurrent(d, asked),
         NEW p, p = Outcome(Return(step.value), pos, format)
  PROVE  /\ ~ Failed(p) /\ p.out = Return(step.value) /\ p.out.value = step.value
         /\ p.read = pos /\ p.dialect = format
         /\ ~ Resumes(d, DocumentCall, p) => Returns(d, DocumentCall, Settled(d, DocumentCall, p))
         /\ Resumes(d, DocumentCall, p) => Leads(d, DocumentCall, RestCall(d, DocumentCall, p))
<1>1. Return(step.value).op = "Ok" /\ Return(step.value).value = step.value
  BY DEF Return
<1>2. /\ ~ Failed(p) /\ p.out = Return(step.value) /\ p.out.value = step.value
      /\ p.read = pos /\ p.dialect = format
  BY <1>1, OutcomeFields
<1>3. Returns(d, RootCall, p)
  BY DEF CallsCurrent
<1> QED BY <1>2, <1>3, DocumentAnswered

LEMMA AcceptRecursion ==
  ASSUME IInv, NEW t, Ahead(t), Accept(t), NEW d, Begins(d)',
         NEW asked, CallsOpen(d, asked), CallsCurrent(d, asked)
  PROVE  Walked(d)'
<1> PICK p : p = Outcome(Return(step.value), pos, format)
  OBVIOUS
<1> PICK c : c = DocumentCall
  OBVIOUS
<1>1. /\ step.op = "Finish" /\ t = Eof /\ Peek(t) /\ step' = Return(step.value)
      /\ UNCHANGED <<pos, format>>
  BY DEF Accept
<1>2. /\ ~ Failed(p) /\ p.read = pos
      /\ ~ Resumes(d, c, p) => Returns(d, c, Settled(d, c, p))
  <2>1. step.op = "Finish"
    BY <1>1
  <2> QED BY <2>1, Finishing
<1>3. At(d, pos) = t
  BY <1>1, Looked
<1>4. c.kind = "document"
  BY CallFields
<1>5. ~ Resumes(d, c, p) /\ Settled(d, c, p) = p
  BY <1>1, <1>2, <1>3, <1>4 DEF Resumes, Settled
<1>6. Returns(d, DocumentCall, Outcome(step', pos', format'))
  BY <1>1, <1>2, <1>5
<1>7. step'.op = "Ok"
  BY <1>1 DEF Return
<1> QED BY <1>6, <1>7 DEF Walked, Returned

LEMMA DocumentFailsRecursion ==
  ASSUME IInv, NEW t, Ahead(t), DocumentFails(t), NEW d, Begins(d)',
         NEW asked, CallsOpen(d, asked), CallsCurrent(d, asked)
  PROVE  Walked(d)'
<1> PICK p : p = Outcome(Return(step.value), pos, format)
  OBVIOUS
<1> PICK c : c = DocumentCall
  OBVIOUS
<1>1. /\ step.op = "Finish" /\ (t = Unclosed \/ (t # Eof /\ step.value.type # "string"))
      /\ Peek(t) /\ step' = Error("Parse") /\ UNCHANGED <<pos, format>>
  BY DEF DocumentFails
<1>2. /\ ~ Failed(p) /\ p.out.value = step.value /\ p.read = pos /\ p.dialect = format
      /\ ~ Resumes(d, c, p) => Returns(d, c, Settled(d, c, p))
  <2>1. step.op = "Finish"
    BY <1>1
  <2> QED BY <2>1, Finishing
<1>3. At(d, pos) = t
  BY <1>1, Looked
<1>4. c.kind = "document"
  BY CallFields
<1>5. t # Eof
  <2>1. Eof.kind = "Eof" /\ Unclosed.kind = "Unclosed"
    BY DEF Eof, Unclosed
  <2> QED BY <1>1, <2>1
<1>6. ~ Resumes(d, c, p)
  BY <1>1, <1>2, <1>3, <1>4 DEF Resumes
<1>7. Settled(d, c, p) = Outcome(Error("Parse"), pos, format)
  BY <1>2, <1>3, <1>4, <1>5 DEF Settled
<1>8. Returns(d, DocumentCall, Outcome(step', pos', format'))
  BY <1>1, <1>2, <1>6, <1>7
<1>9. step'.op = "Err"
  BY <1>1 DEF Error
<1> QED BY <1>8, <1>9 DEF Walked, Returned

LEMMA RecoverRecursion ==
  ASSUME IInv, NEW t, Ahead(t), Recover(t), NEW d, Begins(d)',
         NEW asked, CallsOpen(d, asked), CallsCurrent(d, asked)
  PROVE  Walked(d)'
<1> PICK p : p = Outcome(Return(step.value), pos, format)
  OBVIOUS
<1> PICK c : c = DocumentCall
  OBVIOUS
<1> PICK yes : yes = TRUE
  OBVIOUS
<1> PICK f : f = Frame("dictionary", yes)
  OBVIOUS
<1>1. /\ step.op = "Finish" /\ t \notin {Eof, Unclosed} /\ step.value.type = "string"
      /\ Peek(t) /\ pos' = 0 /\ stack' = <<f>> /\ step'.op = "Advance"
      /\ UNCHANGED <<depth, format>>
  BY DEF Recover, Advance
<1>2. recovering'
  BY DEF Recover
<1>3. /\ ~ Failed(p) /\ p.out.value = step.value /\ p.read = pos /\ p.dialect = format
      /\ Resumes(d, c, p) => Leads(d, c, RestCall(d, c, p))
  <2>1. step.op = "Finish"
    BY <1>1
  <2> QED BY <2>1, Finishing
<1>4. At(d, pos) = t
  BY <1>1, Looked
<1>5. c.kind = "document"
  BY CallFields
<1>6. Resumes(d, c, p)
  BY <1>1, <1>3, <1>4, <1>5 DEF Resumes
<1>7. depth' = 0
  <2>1. stack = << >>
    BY <1>1 DEF IInv, StepOK
  <2>2. Len(stack) = 0 /\ depth = Levels
    BY <1>1, <2>1, Going
  <2> QED BY <1>1, <2>1, <2>2 DEF Levels
<1>8. f.name = "dictionary" /\ f.collected = << >> /\ f.implicit = yes
  BY DEF Frame
<1>9. RestCall(d, c, p) = RestOf(f, depth', pos', format')
  <2>1. RestCall(d, c, p) = EntriesCall(0, 0, p.dialect, yes, << >>)
    BY <1>5 DEF RestCall
  <2> QED BY <1>1, <1>3, <1>7, <1>8, <2>1 DEF RestOf
<1>10. Len(stack') = 1 /\ stack'[1] = f
  BY <1>1
<1>11. CallsOpen(d, asked)'
  <2> SUFFICES ASSUME NEW k \in 1 .. Len(stack') PROVE ~ Waiting(k)'
    BY DEF CallsOpen
  <2>1. ~ (k < Len(stack'))
    BY <1>10
  <2> QED BY <1>1, <2>1 DEF Waiting
<1>12. Entered(recovering', asked, Len(stack')) = c
  BY <1>2, <1>10 DEF Entered
<1>13. Top' = f
  BY <1>10 DEF Top
<1>14. Leads(d, Entered(recovering', asked, Len(stack')), RestOf(Top', depth', pos', format'))
  BY <1>3, <1>6, <1>9, <1>12, <1>13
<1>15. CallsCurrent(d, asked)'
  BY <1>1, <1>14 DEF CallsCurrent
<1> QED BY <1>1, <1>11, <1>15, Unreturned

LEMMA RecursionStutter ==
  ASSUME RecursionInv, UNCHANGED vars
  PROVE  RecursionInv'
<1>1. UNCHANGED <<input, pos, stack, step, depth, format, recovering>>
  BY DEF vars
<1> SUFFICES ASSUME NEW d, Begins(d)' PROVE Walked(d)'
  BY DEF RecursionInv
<1>2. Begins(d)
  BY <1>1 DEF Begins
<1>3. Walked(d)
  BY <1>2 DEF RecursionInv
<1>4. Top' = Top /\ Returned' = Returned
  BY <1>1 DEF Top, Returned
<1>5. ASSUME NEW asked, CallsOpen(d, asked), CallsCurrent(d, asked)
      PROVE  CallsOpen(d, asked)' /\ CallsCurrent(d, asked)'
  <2>1. CallsOpen(d, asked)'
    BY <1>1, <1>5 DEF CallsOpen, Waiting
  <2>2. CallsCurrent(d, asked)'
    BY <1>1, <1>4, <1>5 DEF CallsCurrent
  <2> QED BY <2>1, <2>2
<1>6. ASSUME ~ Returned' PROVE \E asked : CallsOpen(d, asked)' /\ CallsCurrent(d, asked)'
  <2>1. ~ Returned
    BY <1>4, <1>6
  <2>2. PICK asked : CallsOpen(d, asked) /\ CallsCurrent(d, asked)
    BY <1>3, <2>1 DEF Walked
  <2>3. CallsOpen(d, asked)' /\ CallsCurrent(d, asked)'
    BY <1>5, <2>2
  <2> QED BY <2>3
<1>7. ASSUME Returned' PROVE Returns(d, DocumentCall, Outcome(step', pos', format'))
  <2>1. Returned
    BY <1>4, <1>7
  <2>2. Returns(d, DocumentCall, Outcome(step, pos, format))
    BY <1>3, <2>1 DEF Walked
  <2> QED BY <1>1, <2>2
<1> QED BY <1>6, <1>7 DEF Walked

(* Whatever lexemes come next, a step is one of the recursive parse of     *)
(* every document that begins with what has been looked at by then.        *)
LEMMA NextOnRecursion ==
  ASSUME IInv, RecursionInv, NEW lexemes, \A t \in lexemes : LexemeOK(t), NextOn(lexemes)
  PROVE  RecursionInv'
<1>1. CASE Stop
  BY <1>1, RecursionStutter DEF Stop
<1>2. CASE ~ Stop
  <2> SUFFICES ASSUME NEW d, Begins(d)' PROVE Walked(d)'
    BY DEF RecursionInv
  <2>1. ASSUME NEW t, Ahead(t), Read(t) PROVE Walked(d)'
    <3>1. Peek(t) /\ ~ Returned
      <4>1. step.op \in {"Open", "Advance", "AfterKey", "Deliver", "Finish"}
        BY <2>1 DEF Read, OpenScalar, OpenContainer, OpenFails, CloseDictionary, ReadKey,
             DictionaryFails, ReadShorthand, ReadEquals, KeyFails, CloseArray, SkipComma, ReadElement,
             ArrayFails, DeliverEntry, EntryFails, Accept, Recover, DocumentFails, InDictionary,
             InArray, InFrame
      <4>2. Peek(t)
        BY <2>1 DEF Read, OpenScalar, OpenContainer, OpenFails, CloseDictionary, ReadKey,
             DictionaryFails, ReadShorthand, ReadEquals, KeyFails, CloseArray, SkipComma, ReadElement,
             ArrayFails, DeliverEntry, EntryFails, Accept, Recover, DocumentFails, Reject, Take
      <4> QED BY <4>1, <4>2 DEF Returned
    <3>2. Begins(d)
      BY <2>1, <3>1, Looked
    <3>3. PICK asked : CallsOpen(d, asked) /\ CallsCurrent(d, asked)
      BY <3>1, <3>2 DEF RecursionInv, Walked
    <3>4. CASE OpenScalar(t) \/ OpenContainer(t) \/ OpenFails(t)
      BY <2>1, <3>3, <3>4, OpenScalarRecursion, OpenContainerRecursion, OpenFailsRecursion
    <3>5. CASE CloseDictionary(t) \/ ReadKey(t) \/ DictionaryFails(t)
      BY <2>1, <3>3, <3>5, CloseDictionaryRecursion, ReadKeyRecursion, DictionaryFailsRecursion
    <3>6. CASE ReadShorthand(t) \/ ReadEquals(t) \/ KeyFails(t)
      BY <2>1, <3>3, <3>6, ReadShorthandRecursion, ReadEqualsRecursion, KeyFailsRecursion
    <3>7. CASE CloseArray(t) \/ SkipComma(t) \/ ReadElement(t) \/ ArrayFails(t)
      BY <2>1, <3>3, <3>7, CloseArrayRecursion, SkipCommaRecursion, ReadElementRecursion,
         ArrayFailsRecursion
    <3>8. CASE DeliverEntry(t) \/ EntryFails(t)
      BY <2>1, <3>3, <3>8, DeliverEntryRecursion, EntryFailsRecursion
    <3>9. CASE Accept(t) \/ Recover(t) \/ DocumentFails(t)
      BY <2>1, <3>3, <3>9, AcceptRecursion, RecoverRecursion, DocumentFailsRecursion
    <3> QED BY <2>1, <3>4, <3>5, <3>6, <3>7, <3>8, <3>9 DEF Read
  <2>2. ASSUME NEW t \in IF pos < Len(input) THEN {input[pos + 1]} ELSE lexemes PROVE Ahead(t)
    <3>1. CASE pos < Len(input)
      <4>1. pos + 1 \in 1 .. Len(input) /\ t = input[pos + 1]
        BY <3>1, SequenceFacts DEF IInv, Shape
      <4> QED BY <4>1 DEF Ahead, IInv, Shape
    <3>2. CASE ~ (pos < Len(input))
      BY <3>2 DEF Ahead
    <3> QED BY <3>1, <3>2
  <2>3. CASE OpenTooDeep \/ DeliverElement \/ DeliverOut
    <3>1. input' = input /\ ~ Returned
      <4>1. step.op \in {"Open", "Deliver"}
        BY <2>3 DEF OpenTooDeep, DeliverElement, DeliverOut, InFrame
      <4> QED BY <2>3, <4>1 DEF OpenTooDeep, DeliverElement, DeliverOut, Returned
    <3>2. Begins(d)
      BY <3>1 DEF Begins
    <3>3. PICK asked : CallsOpen(d, asked) /\ CallsCurrent(d, asked)
      BY <3>1, <3>2 DEF RecursionInv, Walked
    <3> QED BY <2>3, <3>3, OpenTooDeepRecursion, DeliverElementRecursion, DeliverOutRecursion
  <2> QED BY <1>2, <2>1, <2>2, <2>3 DEF NextOn
<1> QED BY <1>1, <1>2

(* What the walker returns is what the recursive parse returns (text/      *)
(* parser.rs:290-294), with the same number of lexemes read and in the     *)
(* same dialect: of the document it has looked at, and of every one that   *)
(* begins so, as nothing it has not looked at matters.                     *)
WalkerMatches ==
  Returned => \A d : Begins(d) => Returns(d, DocumentCall, Outcome(step, pos, format))

THEOREM WalkerIsRecursion == Spec => []WalkerMatches
<1>1. Init => IInv /\ RecursionInv
  BY InitIInv, RecursionInit
<1>2. ASSUME IInv, RecursionInv, [Next]_vars PROVE RecursionInv'
  <2>1. ASSUME NEW t \in IF Len(input) < MaxLexemes THEN Lexemes \cup {Eof} ELSE {Eof}
        PROVE  LexemeOK(t)
    <3>1. LexemeOK(Eof)
      BY DEF LexemeOK, Eof
    <3> QED BY <3>1, LexemesAssumption
  <2>2. CASE Next
    BY <1>2, <2>1, <2>2, NextOnRecursion DEF Next
  <2> QED BY <1>2, <2>2, RecursionStutter
<1>3. IInv /\ RecursionInv /\ [Next]_vars => RecursionInv'
  BY <1>2
<1>4. RecursionInv => WalkerMatches
  BY DEF RecursionInv, Walked, WalkerMatches
<1> QED BY <1>1, <1>3, <1>4, Invariance, PTL DEF Spec

(* So the outcome of the walker is the only one the recursive parse has,   *)
(* and what follows what was looked at does not change it.                 *)
WalkerAlone ==
  Returned => \A d, o : Begins(d) /\ Returns(d, DocumentCall, o) => o = Outcome(step, pos, format)

THEOREM OnlyOutcome == Spec => []WalkerAlone
<1>1. WalkerMatches => WalkerAlone
  <2> SUFFICES ASSUME WalkerMatches, Returned, NEW d, NEW o, Begins(d), Returns(d, DocumentCall, o)
               PROVE  o = Outcome(step, pos, format)
    BY DEF WalkerAlone
  <2>1. Returns(d, DocumentCall, Outcome(step, pos, format))
    BY DEF WalkerMatches
  <2>2. IsSequence(d)
    BY DEF Begins
  <2> QED BY <2>1, <2>2, OneParse
<1> QED BY <1>1, WalkerIsRecursion, PTL

=============================================================================
