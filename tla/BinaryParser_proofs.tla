------------------------ MODULE BinaryParser_proofs ------------------------
(***************************************************************************)
(* Proofs about the binary parser's object resolver, for every document    *)
(* and every depth cap.                                                    *)
(***************************************************************************)
EXTENDS BinaryParser

-----------------------------------------------------------------------------
(***************************************************************************)
(* The inductive invariant.  MemoFaithful alone is not inductive: that a   *)
(* container closes with the right children is known from CollectedFaithful*)
(* and FramesLinked, and that closing it overwrites nothing from           *)
(* NeverReentered.                                                         *)
(***************************************************************************)
IInv ==
  /\ TypeOK
  /\ NeverReentered
  /\ FramesLinked
  /\ CollectedFaithful
  /\ MemoFaithful
  /\ DeliveredFaithful

LEMMA InitIInv == Init => IInv
<1> SUFFICES ASSUME Init PROVE IInv
  OBVIOUS
<1>1. IsDocument(doc) /\ doc.top \in Nat
  BY DocumentsAssumption DEF Init, IsDocument, Indices
<1>2. IsSequence(stack) /\ Len(stack) = 0
  <2>1. << >> \in Seq({}) /\ Len(<< >>) = 0
    BY EmptySeq
  <2> QED BY <2>1, SequenceOfElements DEF Init
<1>3. TypeOK
  BY <1>1, <1>2, MaxParseDepthAssumption DEF Init, TypeOK, StepOK, Resolve, Advance
<1>4. NeverReentered /\ CollectedFaithful /\ MemoFaithful
  BY <1>2 DEF Init, NeverReentered, CollectedFaithful, MemoFaithful, FaithfulMemo
<1>5. FramesLinked /\ DeliveredFaithful
  BY <1>2 DEF Init, FramesLinked, DeliveredFaithful, Resolve, Asked
<1> QED BY <1>3, <1>4, <1>5 DEF IInv

(* A step that only decides what comes next keeps what is said of the      *)
(* frames and of the memo.                                                 *)
LEMMA StepOnly ==
  ASSUME IInv, UNCHANGED <<doc, objects, stack>>
  PROVE  /\ NeverReentered' /\ CollectedFaithful' /\ MemoFaithful'
         /\ (StepOK' /\ (step' = Advance => stack # << >>)) => TypeOK'
<1>1. NeverReentered' /\ CollectedFaithful'
  BY DEF IInv, NeverReentered, CollectedFaithful, Refs
<1>2. MemoFaithful'
  BY DEF IInv, MemoFaithful
<1>3. \A d \in 1 .. Len(stack) : FrameOK(stack[d])'
  BY DEF IInv, TypeOK, FrameOK, Refs
<1>4. IsDocument(doc)' /\ DOMAIN objects' \subseteq Indices(doc)' /\ IsSequence(stack)'
      /\ (Len(stack) <= MaxParseDepth)'
  BY DEF IInv, TypeOK
<1> QED BY <1>1, <1>2, <1>3, <1>4 DEF TypeOK

(* A frame that is well formed stays so where it is found in the next state. *)
LEMMA FrameKept ==
  ASSUME NEW f, FrameOK(f), doc' = doc, NEW d, stack'[d] = f
  PROVE  FrameOK(stack[d])'
BY DEF FrameOK, Refs

LEMMA FailIInv ==
  ASSUME IInv, NEW kind, Fail(kind)
  PROVE  IInv'
<1>1. UNCHANGED <<doc, objects, stack>> /\ step' = Error(kind)
  BY DEF Fail
<1>2. StepOK' /\ step' # Advance
  BY <1>1 DEF StepOK, Error, Advance
<1>3. FramesLinked' /\ DeliveredFaithful'
  BY <1>1 DEF FramesLinked, DeliveredFaithful, Error
<1> QED BY <1>1, <1>2, <1>3, StepOnly DEF IInv

LEMMA ResolveMemoizedIInv ==
  ASSUME IInv, ResolveMemoized
  PROVE  IInv'
<1>1. UNCHANGED <<doc, objects, stack>> /\ step' = Deliver(objects[step.index])
  BY DEF ResolveMemoized
<1>2. StepOK' /\ step' # Advance
  BY <1>1 DEF StepOK, Deliver, Advance
<1>3. FramesLinked'
  BY <1>1 DEF IInv, FramesLinked, Deliver, Awaiting, Refs, ResolveMemoized
<1>4. DeliveredFaithful'
  <2>1. step.index = Asked /\ step.index \in DOMAIN objects
    BY DEF IInv, FramesLinked, ResolveMemoized
  <2>2. Asked' = Asked
    BY <1>1 DEF Asked, Top, Refs
  <2>3. step'.op = "Deliver" /\ step'.value = objects[step.index]
    BY <1>1 DEF Deliver
  <2> QED BY <1>1, <2>1, <2>2, <2>3 DEF DeliveredFaithful
<1> QED BY <1>1, <1>2, <1>3, <1>4, StepOnly DEF IInv

LEMMA DeliverOutIInv ==
  ASSUME IInv, DeliverOut
  PROVE  IInv'
<1>1. UNCHANGED <<doc, objects, stack>> /\ step' = Return(step.value) /\ stack = << >>
  BY DEF DeliverOut
<1>2. StepOK' /\ step' # Advance
  BY <1>1 DEF StepOK, Return, Advance
<1>3. Len(stack) = 0
  BY <1>1, SequenceFacts DEF IInv, TypeOK
<1>4. FramesLinked'
  BY <1>1, <1>3 DEF FramesLinked, Return
<1>5. DeliveredFaithful'
  BY <1>1 DEF IInv, DeliveredFaithful, Return, DeliverOut, Asked
<1> QED BY <1>1, <1>2, <1>4, <1>5, StepOnly DEF IInv

(* Adding the value an object has to a faithful memo keeps it faithful.    *)
LEMMA FaithfulWith ==
  ASSUME NEW d, NEW memo, FaithfulMemo(d, memo),
         NEW i, i \notin DOMAIN memo, Solvable(d, i, memo)
  PROVE  FaithfulMemo(d, With(memo, i, ValueOf(d, i, memo)))
<1> DEFINE v == ValueOf(d, i, memo)
           new == With(memo, i, v)
<1>1. /\ DOMAIN new = DOMAIN memo \cup {i}
      /\ new[i] = v
      /\ \A j \in DOMAIN memo : new[j] = memo[j]
  BY DEF With
<1> HIDE DEF new
<1>2. ASSUME NEW j, Solvable(d, j, memo)
      PROVE  Solvable(d, j, new) /\ ValueOf(d, j, new) = ValueOf(d, j, memo)
  <2> DEFINE m == Marker(d, j)
  <2>1. CASE IsContainer(m)
    <3> HIDE DEF m
    <3>1. AllIn(m.refs, DOMAIN memo) /\ AllIn(m.refs, DOMAIN new)
      BY <1>1, <1>2, <2>1 DEF Solvable, AllIn, m
    <3>2. Children(m, new) = Children(m, memo)
      BY <1>1, <3>1 DEF Children, AllIn
    <3> QED BY <1>2, <2>1, <3>1, <3>2 DEF Solvable, ValueOf, m
  <2>2. CASE ~ IsContainer(m)
    BY <1>2, <2>2 DEF Solvable, ValueOf
  <2> QED BY <2>1, <2>2
<1> HIDE DEF v
<1>3. ASSUME NEW j \in DOMAIN new
      PROVE  Solvable(d, j, new) /\ new[j] = ValueOf(d, j, new)
  <2>1. CASE j = i
    BY <1>1, <1>2, <2>1 DEF v
  <2>2. CASE j # i
    BY <1>1, <1>2, <1>3, <2>2 DEF FaithfulMemo
  <2> QED BY <2>1, <2>2
<1>4. FaithfulMemo(d, new)
  BY <1>3 DEF FaithfulMemo
<1> QED BY <1>4 DEF new, v

-----------------------------------------------------------------------------
(* The steps that change the memo or the stack.                            *)

LEMMA ResolveScalarIInv ==
  ASSUME IInv, ResolveScalar
  PROVE  IInv'
<1> DEFINE i == step.index
           v == Marker(doc, i).value
<1>1. i \in Indices(doc) /\ i \notin DOMAIN objects /\ HasMarker(doc, i)
      /\ ~ IsContainer(Marker(doc, i))
  BY DEF ResolveScalar, Unread
<1>2. CASE ~ Marker(doc, i).sound
  BY <1>2, FailIInv DEF ResolveScalar
<1>3. CASE Marker(doc, i).sound
  <2>1. objects' = With(objects, i, v) /\ step' = Deliver(v) /\ UNCHANGED <<doc, stack>>
    BY <1>3 DEF ResolveScalar, memoize
  <2>2. /\ DOMAIN objects' = DOMAIN objects \cup {i}
        /\ objects'[i] = v
        /\ \A j \in DOMAIN objects : objects'[j] = objects[j]
    BY <1>1, <2>1 DEF With
  <2>3. step'.op = "Deliver" /\ step'.value = v /\ StepOK' /\ step' # Advance
    BY <2>1 DEF Deliver, StepOK, Advance
  <2>4. step.op = "Resolve" /\ i = Asked
    BY DEF IInv, FramesLinked, ResolveScalar, Unread
  <2> HIDE DEF i, v
  <2>5. TypeOK'
    <3>1. \A d \in 1 .. Len(stack) : FrameOK(stack[d])'
      BY <2>1 DEF IInv, TypeOK, FrameOK, Refs
    <3> QED BY <1>1, <2>1, <2>2, <2>3, <3>1 DEF IInv, TypeOK
  <2>6. NeverReentered'
    <3>1. ASSUME NEW d \in 1 .. Len(stack) PROVE stack[d].index # i
      <4>1. IsContainer(Marker(doc, stack[d].index))
        BY DEF IInv, TypeOK, FrameOK, Marker
      <4> QED BY <1>1, <4>1 DEF i
    <3> QED BY <2>1, <2>2, <3>1 DEF IInv, NeverReentered
  <2>7. FramesLinked'
    BY <2>1, <2>3, <2>4 DEF IInv, FramesLinked, Awaiting, Refs
  <2>8. CollectedFaithful'
    BY <2>1, <2>2 DEF IInv, CollectedFaithful, Refs
  <2>9. MemoFaithful'
    <3>1. Solvable(doc, i, objects) /\ v = ValueOf(doc, i, objects)
      BY <1>1, <1>3 DEF Solvable, ValueOf, i, v
    <3>2. FaithfulMemo(doc, With(objects, i, v))
      BY <1>1, <3>1, FaithfulWith DEF IInv, MemoFaithful
    <3> QED BY <2>1, <3>2 DEF MemoFaithful
  <2>10. DeliveredFaithful'
    <3>1. Asked' = Asked
      BY <2>1 DEF Asked, Top, Refs
    <3> QED BY <2>2, <2>3, <2>4, <3>1 DEF DeliveredFaithful
  <2> QED BY <2>5, <2>6, <2>7, <2>8, <2>9, <2>10 DEF IInv
<1> QED BY <1>2, <1>3

LEMMA OpenContainerIInv ==
  ASSUME IInv, OpenContainer
  PROVE  IInv'
<1> PICK n \in Nat : n = Len(stack)
  BY SequenceFacts DEF IInv, TypeOK
<1> PICK i : i = step.index
  OBVIOUS
<1> PICK off : off = doc.offset[i]
  OBVIOUS
<1> PICK f : f = Frame(off, i)
  OBVIOUS
<1>1. /\ step.op = "Resolve" /\ i = Asked
      /\ i \in Indices(doc) /\ i \notin DOMAIN objects /\ HasMarker(doc, i)
      /\ IsContainer(doc.region[off]) /\ doc.region[off].sound
      /\ ~ IsOpen(off)
      /\ n < MaxParseDepth
  BY MaxParseDepthAssumption
     DEF IInv, TypeOK, FramesLinked, OpenContainer, AtContainer, Unread, AtCap, Marker
<1>2. step' = Advance /\ doc' = doc /\ objects' = objects
  BY DEF OpenContainer
<1>3. f.off = off /\ f.index = i /\ f.refsRead = 0 /\ f.collected = << >>
  BY DEF Frame
<1>4. /\ IsSequence(stack') /\ stack' # << >>
      /\ Len(stack') = n + 1
      /\ \A d \in 1 .. n : stack'[d] = stack[d]
      /\ stack'[n + 1] = f
  <2>1. IsSequence(stack)
    BY DEF IInv, TypeOK
  <2>2. stack' = Extended(stack, f)
    BY DEF OpenContainer, Extended
  <2> QED BY <2>1, <2>2, AppendSequence
<1>5. step'.op = "Advance" /\ StepOK'
  BY <1>2 DEF Advance, StepOK
<1>6. IsSequence(<< >>) /\ Len(<< >>) = 0
  <2>1. << >> \in Seq({})
    BY EmptySeq
  <2> QED BY <2>1, SequenceOfElements, EmptySeq
<1>7. doc.region[off].refs \in Seq(Nat)
  BY <1>1 DEF IInv, TypeOK, IsDocument, HasMarker
<1>8. Len(doc.region[off].refs) \in Nat
  BY <1>7, LenProperties
<1>9. f = [off |-> f.off, index |-> f.index, refsRead |-> f.refsRead, collected |-> f.collected]
  BY DEF Frame
<1>10. TypeOK'
  <2>1. ASSUME NEW d \in 1 .. n + 1 PROVE FrameOK(stack[d])'
    <3>1. CASE d \in 1 .. n
      <4>1. FrameOK(stack[d])
        BY <3>1 DEF IInv, TypeOK
      <4> QED BY <1>2, <1>4, <3>1, <4>1, FrameKept
    <3>2. CASE d = n + 1
      <4>1. FrameOK(f)
        BY <1>1, <1>3, <1>6, <1>8, <1>9 DEF FrameOK, Refs
      <4> QED BY <1>2, <1>4, <3>2, <4>1, FrameKept
    <3> QED BY <3>1, <3>2
  <2>2. IsDocument(doc)' /\ (DOMAIN objects \subseteq Indices(doc))'
    BY <1>2 DEF IInv, TypeOK
  <2>3. (Len(stack) <= MaxParseDepth)'
    BY <1>1, <1>4, MaxParseDepthAssumption
  <2> QED BY <1>4, <1>5, <2>1, <2>2, <2>3 DEF TypeOK
<1>11. NeverReentered'
  <2>1. ASSUME NEW d \in 1 .. n PROVE stack[d].off # off
    BY <1>1 DEF IsOpen
  <2> QED BY <1>1, <1>2, <1>3, <1>4, <2>1 DEF IInv, NeverReentered
<1>12. CollectedFaithful'
  <2>1. ASSUME NEW d \in 1 .. n + 1, NEW k \in 1 .. Len(stack'[d].collected)
        PROVE  LET ref == Refs(stack[d])'[k] IN
                 ref \in DOMAIN objects /\ stack'[d].collected[k] = objects[ref]
    <3>1. CASE d \in 1 .. n
      <4>1. stack'[d] = stack[d] /\ Refs(stack[d])' = Refs(stack[d])
        BY <1>2, <1>4, <3>1 DEF Refs
      <4> QED BY <2>1, <3>1, <4>1 DEF IInv, CollectedFaithful
    <3>2. CASE d = n + 1
      BY <1>3, <1>4, <1>6, <2>1, <3>2
    <3> QED BY <3>1, <3>2
  <2> QED BY <1>2, <1>4, <2>1 DEF CollectedFaithful
<1>13. FramesLinked'
  <2>1. ASSUME NEW d \in 1 .. n
        PROVE  /\ stack'[d].refsRead = Len(stack'[d].collected) + 1
               /\ (stack[d].refsRead <= Len(Refs(stack[d])))'
               /\ Awaiting(d)'
    <3>1. Awaiting(d) /\ Awaiting(d)'
      BY <1>1, <1>4 DEF Awaiting
    <3> QED BY <1>1, <1>2, <1>4, <3>1 DEF IInv, FramesLinked, Refs
  <2>2. ASSUME NEW d, d = n + 1
        PROVE  /\ stack'[d].refsRead = Len(stack'[d].collected)
               /\ (stack[d].refsRead <= Len(Refs(stack[d])))'
               /\ ~ Awaiting(d)'
    BY <1>2, <1>3, <1>4, <1>5, <1>6, <1>8, <2>2 DEF Awaiting, Refs
  <2>3. ASSUME NEW d \in 1 .. n
        PROVE  (stack[d + 1].index = Refs(stack[d])[stack[d].refsRead])'
    <3>1. CASE d < n
      <4>1. stack[d + 1].index = Refs(stack[d])[stack[d].refsRead]
        BY <1>1, <3>1 DEF IInv, FramesLinked
      <4>2. stack'[d] = stack[d] /\ stack'[d + 1] = stack[d + 1]
        BY <1>4, <3>1
      <4>3. Refs(stack[d])' = Refs(stack[d])
        BY <1>2, <4>2 DEF Refs
      <4> QED BY <4>1, <4>2, <4>3
    <3>2. CASE d = n
      <4>1. stack # << >>
        BY <3>2, SequenceFacts DEF IInv, TypeOK
      <4>2. i = Refs(stack[n])[stack[n].refsRead]
        BY <1>1, <4>1 DEF Asked, Top
      <4> QED BY <1>2, <1>3, <1>4, <3>2, <4>2 DEF Refs
    <3> QED BY <3>1, <3>2
  <2>4. stack'[1].index = doc.top
    <3>1. CASE n = 0
      <4>1. stack = << >>
        BY <3>1, SequenceFacts DEF IInv, TypeOK
      <4> QED BY <1>1, <1>3, <1>4, <3>1, <4>1 DEF Asked
    <3>2. CASE n # 0
      <4>1. stack # << >>
        BY <3>2, SequenceFacts DEF IInv, TypeOK
      <4> QED BY <1>1, <1>4, <3>2, <4>1 DEF IInv, FramesLinked
    <3> QED BY <3>1, <3>2
  <2>5. ASSUME NEW d \in 1 .. n + 1
        PROVE  /\ Awaiting(d)' => stack'[d].refsRead = Len(stack'[d].collected) + 1
               /\ ~ Awaiting(d)' => stack'[d].refsRead = Len(stack'[d].collected)
               /\ (stack[d].refsRead <= Len(Refs(stack[d])))'
    <3>1. CASE d \in 1 .. n
      BY <2>1, <3>1
    <3>2. CASE d = n + 1
      BY <2>2, <3>2
    <3> QED BY <3>1, <3>2
  <2>6. \A d \in 1 .. Len(stack') - 1 : (stack[d + 1].index = Refs(stack[d])[stack[d].refsRead])'
    BY <1>4, <2>3
  <2>7. \A d \in 1 .. Len(stack') :
          /\ Awaiting(d)' => stack'[d].refsRead = Len(stack'[d].collected) + 1
          /\ ~ Awaiting(d)' => stack'[d].refsRead = Len(stack'[d].collected)
          /\ (stack[d].refsRead <= Len(Refs(stack[d])))'
    BY <1>4, <2>5
  <2>8. stack'[1].index = doc'.top
    BY <1>2, <2>4
  <2> QED BY <1>5, <2>6, <2>7, <2>8 DEF FramesLinked
<1>14. MemoFaithful' /\ DeliveredFaithful'
  BY <1>2, <1>5 DEF IInv, MemoFaithful, DeliveredFaithful
<1> QED BY <1>10, <1>11, <1>12, <1>13, <1>14 DEF IInv

(* Replacing the top frame by one that differs only in the references it   *)
(* has read and the children it has collected.                             *)
LEMMA WithTopFacts ==
  ASSUME IInv, stack # << >>, NEW n \in Nat, n = Len(stack), NEW f,
         f.off = Top.off, f.index = Top.index,
         stack' = WithTop(f), UNCHANGED <<doc, objects>>
  PROVE  /\ n >= 1
         /\ IsSequence(stack') /\ Len(stack') = n /\ stack' # << >>
         /\ \A d \in 1 .. n : d # n => stack'[d] = stack[d]
         /\ stack'[n] = f
         /\ NeverReentered'
         /\ \A d \in 1 .. n : Refs(stack[d])' = Refs(stack[d])
         /\ \A d \in 1 .. n : d # n => FrameOK(stack[d])'
<1>1. IsSequence(stack) /\ \A d \in 1 .. n : FrameOK(stack[d])
  BY DEF IInv, TypeOK
<1>2. /\ n >= 1
      /\ IsSequence(stack') /\ Len(stack') = n /\ stack' # << >>
      /\ \A d \in 1 .. n : d # n => stack'[d] = stack[d]
      /\ stack'[n] = f
  <2>1. stack' = Replaced(stack, f)
    BY DEF WithTop, Replaced
  <2>2. /\ IsSequence(stack') /\ Len(stack') = Len(stack) /\ stack' # << >>
        /\ Len(stack) \in Nat \ {0}
        /\ stack'[Len(stack)] = f
        /\ \A d \in 1 .. Len(stack) : d # Len(stack) => stack'[d] = stack[d]
    BY <1>1, <2>1, ReplaceLast
  <2> QED BY <2>2
<1>3. \A d \in 1 .. n : stack'[d].off = stack[d].off /\ stack'[d].index = stack[d].index
  BY <1>2 DEF Top
<1>4. NeverReentered'
  BY <1>2, <1>3 DEF IInv, NeverReentered
<1>5. \A d \in 1 .. n : Refs(stack[d])' = Refs(stack[d])
  BY <1>3 DEF Refs
<1>6. \A d \in 1 .. n : d # n => FrameOK(stack[d])'
  BY <1>1, <1>2 DEF FrameOK, Refs
<1> QED BY <1>2, <1>4, <1>5, <1>6

LEMMA ReadReferenceIInv ==
  ASSUME IInv, ReadReference
  PROVE  IInv'
<1>1. CASE ~ doc.refSizeLegal
  BY <1>1, FailIInv DEF ReadReference
<1>2. CASE doc.refSizeLegal
  <2> PICK n \in Nat : n = Len(stack)
    BY SequenceFacts DEF IInv, TypeOK
  <2> PICK f : f = [Top EXCEPT !.refsRead = @ + 1]
    OBVIOUS
  <2> PICK i : i = Refs(Top)[Top.refsRead + 1]
    OBVIOUS
  <2>1. /\ step.op = "Advance" /\ stack # << >> /\ ~ Complete(Top)
        /\ stack' = WithTop(f) /\ step' = Resolve(i) /\ UNCHANGED <<doc, objects>>
    BY <1>2 DEF IInv, TypeOK, StepOK, ReadReference, Resolve, Deliver, Return, Error
  <2>2. n >= 1 /\ FrameOK(Top) /\ FrameOK(stack[n]) /\ Top = stack[n]
    BY <2>1, SequenceFacts DEF IInv, TypeOK, Top
  <2>3. /\ f.off = Top.off /\ f.index = Top.index /\ f.collected = Top.collected
        /\ f.refsRead = Top.refsRead + 1
        /\ f = [off |-> f.off, index |-> f.index, refsRead |-> f.refsRead, collected |-> f.collected]
    BY <2>2 DEF FrameOK
  <2>4. /\ IsSequence(stack') /\ Len(stack') = n /\ stack' # << >>
        /\ \A d \in 1 .. n : d # n => stack'[d] = stack[d]
        /\ stack'[n] = f
        /\ NeverReentered'
        /\ \A d \in 1 .. n : Refs(stack[d])' = Refs(stack[d])
        /\ \A d \in 1 .. n : d # n => FrameOK(stack[d])'
    BY <2>1, <2>3, WithTopFacts
  <2>5. Refs(Top) \in Seq(Nat)
    BY <2>2 DEF IInv, TypeOK, FrameOK, Refs, IsDocument, HasMarker
  <2>6. /\ Top.refsRead = Len(Top.collected)
        /\ Len(Top.collected) < Len(Refs(Top))
        /\ Top.refsRead \in Nat /\ Len(Refs(Top)) \in Nat
    <3>1. ~ Awaiting(n)
      BY <2>1 DEF Awaiting
    <3>2. Top.refsRead = Len(Top.collected)
      BY <2>1, <2>2, <3>1 DEF IInv, FramesLinked
    <3>3. Len(Top.collected) \in Nat /\ Len(Refs(Top)) \in Nat
      BY <2>2, <2>5, SequenceFacts, LenProperties DEF FrameOK
    <3> QED BY <2>1, <3>2, <3>3 DEF Complete
  <2>7. i \in Nat
    BY <2>5, <2>6, ElementOfSeq
  <2>8. step'.op = "Resolve" /\ step'.index = i /\ StepOK' /\ step' # Advance
    BY <2>1, <2>7 DEF Resolve, StepOK, Advance
  <2>9. TypeOK'
    <3>1. FrameOK(f)
      <4>1. f.refsRead \in Nat /\ Refs(f) = Refs(Top)
        BY <2>3, <2>6 DEF Refs
      <4> QED BY <2>2, <2>3, <4>1 DEF FrameOK
    <3>2. \A d \in 1 .. n : FrameOK(stack[d])'
      <4>1. ASSUME NEW d, d = n PROVE FrameOK(stack[d])'
        BY <2>1, <2>4, <3>1, <4>1 DEF FrameOK, Refs
      <4> QED BY <2>4, <4>1
    <3> QED BY <2>1, <2>4, <2>8, <3>2 DEF IInv, TypeOK
  <2>10. FramesLinked'
    <3>1. ASSUME NEW d \in 1 .. n
          PROVE  /\ stack'[d].refsRead = Len(stack'[d].collected) + 1
                 /\ (stack[d].refsRead <= Len(Refs(stack[d])))'
      <4>1. CASE d = n
        <5>1. stack'[d] = f /\ Refs(stack[d])' = Refs(Top)
          BY <2>2, <2>4, <4>1
        <5>2. f.refsRead = Len(f.collected) + 1 /\ f.refsRead <= Len(Refs(Top))
          BY <2>3, <2>6
        <5> QED BY <5>1, <5>2
      <4>2. CASE d # n
        <5>1. Awaiting(d)
          BY <4>2 DEF Awaiting
        <5>2. /\ stack[d].refsRead = Len(stack[d].collected) + 1
              /\ stack[d].refsRead <= Len(Refs(stack[d]))
          BY <2>1, <5>1 DEF IInv, FramesLinked
        <5> QED BY <2>4, <4>2, <5>2
      <4> QED BY <4>1, <4>2
    <3>2. ASSUME NEW d \in 1 .. n - 1
          PROVE  (stack[d + 1].index = Refs(stack[d])[stack[d].refsRead])'
      <4>1. stack[d + 1].index = Refs(stack[d])[stack[d].refsRead]
        BY <2>1 DEF IInv, FramesLinked
      <4>2. stack'[d + 1].index = stack[d + 1].index
        BY <2>2, <2>3, <2>4
      <4> QED BY <2>4, <4>1, <4>2
    <3>3. stack'[1].index = doc'.top
      BY <2>1, <2>2, <2>3, <2>4 DEF IInv, FramesLinked
    <3>4. Asked' = i
      <4>1. Top' = f
        BY <2>4 DEF Top
      <4>2. Refs(Top)' = Refs(Top)
        BY <2>1, <2>3, <4>1 DEF Refs
      <4> QED BY <2>3, <2>4, <4>1, <4>2 DEF Asked
    <3>5. ASSUME NEW d PROVE Awaiting(d)'
      BY <2>8 DEF Awaiting
    <3> QED BY <2>4, <2>8, <3>1, <3>2, <3>3, <3>4, <3>5 DEF FramesLinked
  <2>11. CollectedFaithful'
    <3>1. \A d \in 1 .. n : stack'[d].collected = stack[d].collected
      BY <2>2, <2>3, <2>4
    <3> QED BY <2>1, <2>4, <3>1 DEF IInv, CollectedFaithful
  <2>12. MemoFaithful' /\ DeliveredFaithful'
    BY <2>1, <2>8 DEF IInv, MemoFaithful, DeliveredFaithful
  <2> QED BY <2>4, <2>9, <2>10, <2>11, <2>12 DEF IInv
<1> QED BY <1>1, <1>2

LEMMA DeliverToFrameIInv ==
  ASSUME IInv, DeliverToFrame
  PROVE  IInv'
<1> PICK n \in Nat : n = Len(stack)
  BY SequenceFacts DEF IInv, TypeOK
<1> PICK v : v = step.value
  OBVIOUS
<1> PICK f : f = [Top EXCEPT !.collected = Append(@, v)]
  OBVIOUS
<1>1. /\ step.op = "Deliver" /\ stack # << >>
      /\ stack' = WithTop(f) /\ step' = Advance /\ UNCHANGED <<doc, objects>>
  BY DEF DeliverToFrame
<1>2. n >= 1 /\ FrameOK(Top) /\ FrameOK(stack[n]) /\ Top = stack[n]
  BY <1>1, SequenceFacts DEF IInv, TypeOK, Top
<1>3. PICK c : c = Top.collected
  OBVIOUS
<1> PICK t : t = Extended(c, v)
  OBVIOUS
<1>4. /\ f.off = Top.off /\ f.index = Top.index /\ f.refsRead = Top.refsRead
      /\ f.collected = t
      /\ f = [off |-> f.off, index |-> f.index, refsRead |-> f.refsRead, collected |-> f.collected]
  BY <1>2, <1>3 DEF FrameOK, Extended
<1>5. /\ IsSequence(c) /\ Len(c) \in Nat
      /\ IsSequence(f.collected) /\ Len(f.collected) = Len(c) + 1
      /\ \A k \in 1 .. Len(c) : f.collected[k] = c[k]
      /\ f.collected[Len(c) + 1] = v
  <2>1. IsSequence(c)
    BY <1>2, <1>3 DEF FrameOK
  <2>2. /\ IsSequence(Extended(c, v)) /\ Len(c) \in Nat
        /\ Len(Extended(c, v)) = Len(c) + 1
        /\ \A k \in 1 .. Len(c) : Extended(c, v)[k] = c[k]
        /\ Extended(c, v)[Len(c) + 1] = v
    BY <2>1, AppendSequence
  <2> QED BY <1>4, <2>1, <2>2
<1>6. /\ IsSequence(stack') /\ Len(stack') = n /\ stack' # << >>
      /\ \A d \in 1 .. n : d # n => stack'[d] = stack[d]
      /\ stack'[n] = f
      /\ NeverReentered'
      /\ \A d \in 1 .. n : Refs(stack[d])' = Refs(stack[d])
      /\ \A d \in 1 .. n : d # n => FrameOK(stack[d])'
  <2>1. f.off = Top.off /\ f.index = Top.index
    BY <1>4
  <2> QED BY <1>1, <2>1, WithTopFacts
<1>7. Top.refsRead = Len(c) + 1 /\ Top.refsRead <= Len(Refs(Top))
  <2>1. Awaiting(n)
    BY <1>1 DEF Awaiting
  <2> QED BY <1>1, <1>2, <1>3, <2>1 DEF IInv, FramesLinked
<1>8. step'.op = "Advance" /\ StepOK'
  BY <1>1 DEF Advance, StepOK
<1>9. TypeOK'
  <2>1. FrameOK(f)
    <3>1. f.refsRead \in Nat
      BY <1>2, <1>4 DEF FrameOK
    <3>2. Len(f.collected) <= Len(Refs(f)) /\ Refs(f) = Refs(Top)
      BY <1>4, <1>5, <1>7 DEF Refs
    <3> QED BY <1>2, <1>4, <1>5, <3>1, <3>2 DEF FrameOK
  <2>2. \A d \in 1 .. n : FrameOK(stack[d])'
    <3>1. ASSUME NEW d, d = n PROVE FrameOK(stack[d])'
      BY <1>1, <1>6, <2>1, <3>1 DEF FrameOK, Refs
    <3> QED BY <1>6, <3>1
  <2> QED BY <1>1, <1>6, <1>8, <2>2 DEF IInv, TypeOK
<1>10. FramesLinked'
  <2>1. ASSUME NEW d \in 1 .. n
        PROVE  /\ Awaiting(d)' => stack'[d].refsRead = Len(stack'[d].collected) + 1
               /\ ~ Awaiting(d)' => stack'[d].refsRead = Len(stack'[d].collected)
               /\ (stack[d].refsRead <= Len(Refs(stack[d])))'
    <3>1. CASE d = n
      <4>1. ~ Awaiting(d)'
        BY <1>6, <1>8, <3>1 DEF Awaiting
      <4> QED BY <1>2, <1>4, <1>5, <1>6, <1>7, <3>1, <4>1
    <3>2. CASE d # n
      <4>1. Awaiting(d) /\ Awaiting(d)'
        BY <1>6, <3>2 DEF Awaiting
      <4> QED BY <1>1, <1>6, <3>2, <4>1 DEF IInv, FramesLinked
    <3> QED BY <3>1, <3>2
  <2>2. ASSUME NEW d \in 1 .. n - 1
        PROVE  (stack[d + 1].index = Refs(stack[d])[stack[d].refsRead])'
    <3>1. stack[d + 1].index = Refs(stack[d])[stack[d].refsRead]
      BY <1>1 DEF IInv, FramesLinked
    <3>2. stack'[d + 1].index = stack[d + 1].index
      BY <1>2, <1>4, <1>6
    <3> QED BY <1>6, <3>1, <3>2
  <2>3. stack'[1].index = doc'.top
    <3>1. stack[1].index = doc.top
      BY <1>1 DEF IInv, FramesLinked
    <3>2. stack'[1].index = stack[1].index
      BY <1>2, <1>4, <1>6
    <3> QED BY <1>1, <3>1, <3>2
  <2> QED BY <1>6, <1>8, <2>1, <2>2, <2>3 DEF FramesLinked
<1>11. CollectedFaithful'
  <2>1. Refs(Top)[Len(c) + 1] \in DOMAIN objects /\ v = objects[Refs(Top)[Len(c) + 1]]
    BY <1>1, <1>7 DEF IInv, DeliveredFaithful, Asked
  <2>2. ASSUME NEW d \in 1 .. n, NEW k \in 1 .. Len(stack'[d].collected)
        PROVE  /\ Refs(stack[d])[k] \in DOMAIN objects
               /\ stack'[d].collected[k] = objects[Refs(stack[d])[k]]
    <3>1. CASE d # n
      BY <1>6, <2>2, <3>1 DEF IInv, CollectedFaithful
    <3>2. CASE d = n /\ k # Len(c) + 1
      <4>1. stack'[d].collected = t
        BY <1>4, <1>6, <3>2
      <4>2. k \in 1 .. Len(c)
        BY <1>4, <1>5, <2>2, <3>2, <4>1
      <4>3. t[k] = stack[n].collected[k] /\ k \in 1 .. Len(stack[n].collected)
        BY <1>2, <1>3, <1>4, <1>5, <4>2
      <4>4. n \in 1 .. Len(stack)
        BY <1>2
      <4>5. LET ref == Refs(stack[n])[k] IN
              ref \in DOMAIN objects /\ stack[n].collected[k] = objects[ref]
        BY <4>3, <4>4 DEF IInv, CollectedFaithful
      <4> QED BY <3>2, <4>1, <4>3, <4>5
    <3>3. CASE d = n /\ k = Len(c) + 1
      BY <1>2, <1>5, <1>6, <2>1, <3>3
    <3> QED BY <3>1, <3>2, <3>3
  <2>3. ASSUME NEW d \in 1 .. n, NEW k \in 1 .. Len(stack'[d].collected)
        PROVE  LET ref == Refs(stack[d])'[k] IN
                 ref \in DOMAIN objects' /\ stack'[d].collected[k] = objects'[ref]
    <3>1. Refs(stack[d])' = Refs(stack[d]) /\ objects' = objects
      BY <1>1, <1>6
    <3>2. /\ Refs(stack[d])[k] \in DOMAIN objects
          /\ stack'[d].collected[k] = objects[Refs(stack[d])[k]]
      BY <2>2, <2>3
    <3> QED BY <3>1, <3>2
  <2> QED BY <1>6, <2>3 DEF CollectedFaithful
<1>12. MemoFaithful' /\ DeliveredFaithful'
  BY <1>1, <1>8 DEF IInv, MemoFaithful, DeliveredFaithful
<1> QED BY <1>6, <1>9, <1>10, <1>11, <1>12 DEF IInv

(* The top container closes: its children are the finished objects its     *)
(* references name, all of them, so its value is faithful.                 *)
LEMMA ClosingFacts ==
  ASSUME IInv, CloseContainer, NEW n \in Nat, n = Len(stack)
  PROVE  /\ n >= 1 /\ Top = stack[n] /\ stack # << >>
         /\ Top.index \in Indices(doc) /\ Top.index \notin DOMAIN objects
         /\ HasMarker(doc, Top.index)
         /\ Marker(doc, Top.index) = doc.region[Top.off]
         /\ IsContainer(doc.region[Top.off]) /\ doc.region[Top.off].sound
         /\ AllIn(Refs(Top), DOMAIN objects)
         /\ Top.collected = Children(doc.region[Top.off], objects)
<1>1. step.op = "Advance" /\ Complete(Top)
  BY DEF CloseContainer
<1>2. stack # << >>
  BY <1>1 DEF IInv, TypeOK, StepOK, Resolve, Deliver, Return, Error
<1>3. n >= 1 /\ FrameOK(Top) /\ Top = stack[n]
  BY <1>2, SequenceFacts DEF IInv, TypeOK, Top
<1>4. /\ Top.index \in Indices(doc) /\ HasMarker(doc, Top.index)
      /\ Marker(doc, Top.index) = doc.region[Top.off]
      /\ IsContainer(doc.region[Top.off]) /\ doc.region[Top.off].sound
      /\ IsSequence(Top.collected) /\ Len(Top.collected) <= Len(Refs(Top))
  BY <1>3 DEF FrameOK, Marker
<1>5. Top.index \notin DOMAIN objects
  BY <1>3 DEF IInv, NeverReentered
<1>6. Refs(Top) \in Seq(Nat)
  BY <1>4 DEF IInv, TypeOK, Refs, IsDocument, HasMarker, Marker
<1>7. Len(Top.collected) = Len(Refs(Top)) /\ Len(Refs(Top)) \in Nat
  <2>1. Len(Top.collected) \in Nat /\ Len(Refs(Top)) \in Nat
    BY <1>4, <1>6, SequenceFacts, LenProperties
  <2> QED BY <1>1, <1>4, <2>1 DEF Complete
<1>8. ASSUME NEW k \in 1 .. Len(Refs(Top))
      PROVE  Refs(Top)[k] \in DOMAIN objects /\ Top.collected[k] = objects[Refs(Top)[k]]
  <2>1. n \in 1 .. Len(stack) /\ k \in 1 .. Len(stack[n].collected)
    BY <1>3, <1>7
  <2> QED BY <1>3, <2>1 DEF IInv, CollectedFaithful
<1>9. AllIn(Refs(Top), DOMAIN objects)
  BY <1>8 DEF AllIn
<1>10. Top.collected = Children(doc.region[Top.off], objects)
  <2>1. Top.collected = [k \in 1 .. Len(Refs(Top)) |-> Top.collected[k]]
    <3>1. PICK S : Top.collected \in Seq(S)
      BY <1>4 DEF IsSequence
    <3>2. DOMAIN Top.collected = 1 .. Len(Refs(Top))
      BY <1>7, <3>1, LenProperties
    <3>3. PICK c : c = Top.collected
      OBVIOUS
    <3>4. c \in Seq(S) /\ DOMAIN c = 1 .. Len(Refs(Top))
      BY <3>1, <3>2, <3>3
    <3>5. c = [k \in DOMAIN c |-> c[k]]
      <4>1. c \in [1 .. Len(c) -> S]
        BY <3>4, LenProperties
      <4> QED BY <4>1
    <3> QED BY <3>3, <3>4, <3>5
  <2>2. [k \in 1 .. Len(Refs(Top)) |-> Top.collected[k]]
        = [k \in 1 .. Len(Refs(Top)) |-> objects[Refs(Top)[k]]]
    BY <1>8
  <2> QED BY <2>1, <2>2 DEF Children, Refs
<1> QED BY <1>2, <1>3, <1>4, <1>5, <1>9, <1>10

LEMMA CloseContainerIInv ==
  ASSUME IInv, CloseContainer
  PROVE  IInv'
<1> PICK n \in Nat : n = Len(stack)
  BY SequenceFacts DEF IInv, TypeOK
<1> PICK f : f = Top
  OBVIOUS
<1> PICK marker : marker = doc.region[f.off]
  OBVIOUS
<1> PICK v : v = Build(marker, f.collected)
  OBVIOUS
<1>1. /\ n >= 1 /\ f = stack[n] /\ stack # << >>
      /\ f.index \in Indices(doc) /\ f.index \notin DOMAIN objects
      /\ HasMarker(doc, f.index) /\ Marker(doc, f.index) = marker
      /\ IsContainer(marker) /\ marker.sound
      /\ AllIn(marker.refs, DOMAIN objects)
      /\ f.collected = Children(marker, objects)
  BY ClosingFacts DEF Refs
<1>2. step.op = "Advance" /\ doc' = doc
  BY DEF CloseContainer
<1>3. \/ /\ Buildable(marker, f.collected)
         /\ objects' = With(objects, f.index, v) /\ step' = Deliver(v)
      \/ /\ step' = Error("NonStringKey") /\ objects' = objects
  BY DEF CloseContainer, memoize
<1>4. /\ IsSequence(stack') /\ Len(stack') = n - 1
      /\ \A d \in 1 .. n - 1 : stack'[d] = stack[d]
  <2>1. IsSequence(stack) /\ stack' = Popped(stack)
    BY DEF IInv, TypeOK, CloseContainer, Pop, Popped
  <2>2. Len(Popped(stack)) = n - 1
    BY <1>1, <2>1, PopSequence
  <2>3. \A d \in 1 .. n - 1 : Popped(stack)[d] = stack[d]
    BY <1>1, <2>1, <2>2, PopSequence
  <2> QED BY <1>1, <2>1, <2>2, <2>3, PopSequence
<1>5. /\ DOMAIN objects' \subseteq Indices(doc)
      /\ \A j \in DOMAIN objects : j \in DOMAIN objects' /\ objects'[j] = objects[j]
      /\ \A j \in DOMAIN objects' : j # f.index => j \in DOMAIN objects
  <2>1. DOMAIN objects \subseteq Indices(doc)
    BY DEF IInv, TypeOK
  <2> QED BY <1>1, <1>3, <2>1 DEF With
<1>6. ASSUME NEW d \in 1 .. n - 1
      PROVE  /\ d \in 1 .. Len(stack) /\ d < Len(stack)
             /\ FrameOK(stack[d]) /\ FrameOK(stack[d])'
             /\ Refs(stack[d])' = Refs(stack[d])
             /\ stack[d].index # f.index
  <2>1. d \in 1 .. Len(stack) /\ d < Len(stack) /\ n \in 1 .. Len(stack) /\ d # n
    BY <1>1
  <2>2. FrameOK(stack[d]) /\ FrameOK(stack[n])
    BY <2>1 DEF IInv, TypeOK
  <2>3. stack'[d] = stack[d]
    BY <1>4
  <2>4. stack[d].index # f.index
    <3>1. stack[d].off # stack[n].off
      BY <2>1 DEF IInv, NeverReentered
    <3> QED BY <1>1, <2>2, <3>1 DEF FrameOK
  <2>5. FrameOK(stack[d])'
    BY <1>2, <2>2, <2>3, FrameKept
  <2>6. Refs(stack[d])' = Refs(stack[d])
    BY <1>2, <2>3 DEF Refs
  <2> QED BY <2>1, <2>2, <2>4, <2>5, <2>6
<1>7. StepOK' /\ step' # Advance /\ step'.op \in {"Deliver", "Err"}
  BY <1>3 DEF StepOK, Deliver, Error, Advance
<1>8. TypeOK'
  <2>1. \A d \in 1 .. Len(stack') : FrameOK(stack[d])'
    BY <1>4, <1>6
  <2>2. (Len(stack) <= MaxParseDepth)'
    BY <1>4, MaxParseDepthAssumption DEF IInv, TypeOK
  <2>3. IsDocument(doc)' /\ (DOMAIN objects \subseteq Indices(doc))'
    BY <1>2, <1>5 DEF IInv, TypeOK
  <2> QED BY <1>4, <1>7, <2>1, <2>2, <2>3 DEF TypeOK
<1>9. NeverReentered'
  <2>1. ASSUME NEW d \in 1 .. n - 1 PROVE stack'[d].index \notin DOMAIN objects'
    <3>1. stack[d].index \notin DOMAIN objects
      BY <1>6 DEF IInv, NeverReentered
    <3> QED BY <1>4, <1>5, <1>6, <3>1
  <2>2. ASSUME NEW d \in 1 .. n - 1, NEW e \in 1 .. n - 1, stack'[d].off = stack'[e].off
        PROVE  d = e
    <3>1. stack[d].off = stack[e].off /\ d \in 1 .. Len(stack) /\ e \in 1 .. Len(stack)
      BY <1>4, <1>6, <2>2
    <3> QED BY <3>1 DEF IInv, NeverReentered
  <2> QED BY <1>4, <2>1, <2>2 DEF NeverReentered
<1>10. CollectedFaithful'
  <2>1. ASSUME NEW d \in 1 .. n - 1, NEW k \in 1 .. Len(stack'[d].collected)
        PROVE  LET ref == Refs(stack[d])'[k] IN
                 ref \in DOMAIN objects' /\ stack'[d].collected[k] = objects'[ref]
    <3>1. stack'[d] = stack[d] /\ Refs(stack[d])' = Refs(stack[d])
      BY <1>4, <1>6
    <3>2. /\ Refs(stack[d])[k] \in DOMAIN objects
          /\ stack[d].collected[k] = objects[Refs(stack[d])[k]]
      BY <1>6, <2>1, <3>1 DEF IInv, CollectedFaithful
    <3> QED BY <1>5, <3>1, <3>2
  <2> QED BY <1>4, <2>1 DEF CollectedFaithful
<1>11. MemoFaithful'
  <2>1. CASE step'.op = "Err"
    BY <1>2, <1>3, <2>1 DEF IInv, MemoFaithful, Deliver
  <2>2. CASE step'.op # "Err"
    <3>1. Buildable(marker, f.collected) /\ objects' = With(objects, f.index, v)
      BY <1>3, <2>2 DEF Error
    <3>2. Solvable(doc, f.index, objects) /\ v = ValueOf(doc, f.index, objects)
      BY <1>1, <3>1 DEF Solvable, ValueOf
    <3>3. FaithfulMemo(doc, With(objects, f.index, v))
      BY <1>1, <3>2, FaithfulWith DEF IInv, MemoFaithful
    <3> QED BY <1>2, <3>1, <3>3 DEF MemoFaithful
  <2> QED BY <2>1, <2>2
<1>12. FramesLinked'
  <2>1. CASE step'.op = "Err"
    BY <2>1 DEF FramesLinked
  <2>2. CASE step'.op = "Deliver"
    <3>1. ASSUME NEW d \in 1 .. n - 1
          PROVE  /\ stack'[d].refsRead = Len(stack'[d].collected) + 1
                 /\ (stack[d].refsRead <= Len(Refs(stack[d])))'
      <4>1. Awaiting(d)
        BY <1>6 DEF Awaiting
      <4>2. /\ stack[d].refsRead = Len(stack[d].collected) + 1
            /\ stack[d].refsRead <= Len(Refs(stack[d]))
        BY <1>2, <1>6, <4>1 DEF IInv, FramesLinked
      <4>3. stack'[d] = stack[d] /\ Refs(stack[d])' = Refs(stack[d])
        BY <1>4, <1>6
      <4> QED BY <4>2, <4>3
    <3>2. ASSUME NEW d PROVE Awaiting(d)'
      BY <2>2 DEF Awaiting
    <3>3. ASSUME NEW d \in 1 .. n - 2
          PROVE  (stack[d + 1].index = Refs(stack[d])[stack[d].refsRead])'
      <4>1. stack[d + 1].index = Refs(stack[d])[stack[d].refsRead]
        BY <1>2 DEF IInv, FramesLinked
      <4>2. stack'[d] = stack[d] /\ stack'[d + 1] = stack[d + 1]
        BY <1>4
      <4>3. Refs(stack[d])' = Refs(stack[d])
        BY <1>6
      <4> QED BY <4>1, <4>2, <4>3
    <3>4. stack' # << >> => stack'[1].index = doc'.top
      <4>1. ASSUME stack' # << >> PROVE 1 \in 1 .. n - 1
        BY <1>4, <4>1, SequenceFacts
      <4>2. stack[1].index = doc.top
        BY <1>1, <1>2 DEF IInv, FramesLinked
      <4> QED BY <1>2, <1>4, <4>1, <4>2
    <3>5. \A d \in 1 .. Len(stack') :
            /\ Awaiting(d)' => stack'[d].refsRead = Len(stack'[d].collected) + 1
            /\ ~ Awaiting(d)' => stack'[d].refsRead = Len(stack'[d].collected)
            /\ (stack[d].refsRead <= Len(Refs(stack[d])))'
      BY <1>4, <3>1, <3>2
    <3>6. \A d \in 1 .. Len(stack') - 1 :
            (stack[d + 1].index = Refs(stack[d])[stack[d].refsRead])'
      <4>1. Len(stack') - 1 = n - 2
        BY <1>4
      <4> QED BY <3>3, <4>1
    <3> QED BY <2>2, <3>4, <3>5, <3>6 DEF FramesLinked
  <2> QED BY <1>7, <2>1, <2>2
<1>13. DeliveredFaithful'
  <2>1. CASE step'.op = "Err"
    BY <2>1 DEF DeliveredFaithful
  <2>2. CASE step'.op = "Deliver"
    <3>1. objects' = With(objects, f.index, v) /\ step'.value = v
      BY <1>3, <2>2 DEF Error, Deliver
    <3>2. f.index \in DOMAIN objects' /\ objects'[f.index] = v
      BY <3>1 DEF With
    <3>3. Asked' = f.index
      <4>1. CASE n = 1
        <5>1. stack' = << >>
          BY <1>4, <4>1, SequenceFacts
        <5>2. stack[1].index = doc.top
          BY <1>1, <1>2 DEF IInv, FramesLinked
        <5> QED BY <1>1, <1>2, <4>1, <5>1, <5>2 DEF Asked
      <4>2. CASE n # 1
        <5>1. n - 1 \in 1 .. n - 1 /\ n - 1 \in 1 .. Len(stack) - 1 /\ n - 1 + 1 = n
          BY <1>1, <4>2
        <5>2. stack[n - 1 + 1].index = Refs(stack[n - 1])[stack[n - 1].refsRead]
          BY <1>2, <5>1 DEF IInv, FramesLinked
        <5>3. f.index = Refs(stack[n - 1])[stack[n - 1].refsRead]
          BY <1>1, <5>1, <5>2
        <5>4. Top' = stack[n - 1] /\ stack' # << >>
          BY <1>4, <5>1, SequenceFacts DEF Top
        <5>5. Refs(Top)' = Refs(stack[n - 1])
          BY <1>2, <5>4 DEF Refs
        <5> QED BY <5>3, <5>4, <5>5 DEF Asked
      <4> QED BY <4>1, <4>2
    <3> QED BY <2>2, <3>1, <3>2, <3>3 DEF DeliveredFaithful
  <2> QED BY <1>7, <2>1, <2>2
<1> QED BY <1>8, <1>9, <1>10, <1>11, <1>12, <1>13 DEF IInv

-----------------------------------------------------------------------------
(* Every step preserves the inductive invariant.                           *)
LEMMA NextIInv ==
  ASSUME IInv, [Next]_vars
  PROVE  IInv'
<1>1. CASE \E kind : Fail(kind)
  BY <1>1, FailIInv
<1>2. CASE UNCHANGED vars
  <2>1. UNCHANGED <<doc, objects, stack>> /\ step' = step
    BY <1>2 DEF vars
  <2>2. StepOK' /\ (step' = Advance => stack # << >>)
    BY <2>1 DEF IInv, TypeOK, StepOK
  <2>3. FramesLinked'
    BY <2>1 DEF IInv, FramesLinked, Awaiting, Refs, Asked, Top
  <2>4. DeliveredFaithful'
    BY <2>1 DEF IInv, DeliveredFaithful, Asked, Top, Refs
  <2> QED BY <2>1, <2>2, <2>3, <2>4, StepOnly DEF IInv
<1>3. CASE ResolveInvalid \/ ResolveUnreadable \/ ResolveBeyondTable
  BY <1>1, <1>3 DEF ResolveInvalid, ResolveUnreadable, ResolveBeyondTable
<1>4. CASE OpenTooDeep \/ OpenSelfReferential \/ OpenOutOfBounds
  BY <1>1, <1>4 DEF OpenTooDeep, OpenSelfReferential, OpenOutOfBounds
<1>5. CASE ResolveMemoized
  BY <1>5, ResolveMemoizedIInv
<1>6. CASE ResolveScalar
  BY <1>6, ResolveScalarIInv
<1>7. CASE OpenContainer
  BY <1>7, OpenContainerIInv
<1>8. CASE CloseContainer
  BY <1>8, CloseContainerIInv
<1>9. CASE ReadReference
  BY <1>9, ReadReferenceIInv
<1>10. CASE DeliverToFrame
  BY <1>10, DeliverToFrameIInv
<1>11. CASE DeliverOut
  BY <1>11, DeliverOutIInv
<1>12. CASE Stop
  BY <1>2, <1>12 DEF Stop
<1> QED
  BY <1>2, <1>3, <1>4, <1>5, <1>6, <1>7, <1>8, <1>9, <1>10, <1>11, <1>12 DEF Next

(* The inductive invariant holds of every execution.                       *)
THEOREM Invariance == Spec => []IInv
<1>1. Init => IInv
  BY InitIInv
<1>2. IInv /\ [Next]_vars => IInv'
  BY NextIInv
<1> QED BY <1>1, <1>2, PTL DEF Spec

(* resolve_object: the open frames are well-formed containers of the       *)
(* document, and never more of them than the cap.                          *)
THEOREM TypeCorrect == Spec => []TypeOK
<1>1. IInv => TypeOK
  BY DEF IInv
<1> QED BY <1>1, Invariance, PTL

(* open_container: no container is entered again below itself.             *)
THEOREM NoReentry == Spec => []NeverReentered
<1>1. IInv => NeverReentered
  BY DEF IInv
<1> QED BY <1>1, Invariance, PTL

(* advance_step: the frames hang together, and their children are, one for *)
(* one and in order, the finished objects their references name.           *)
THEOREM FramesInOrder == Spec => []FramesFaithful
<1>1. IInv => FramesFaithful
  BY DEF IInv, FramesFaithful
<1> QED BY <1>1, Invariance, PTL

(* resolve_object: whatever it returns is the finished value of the top    *)
(* object, and every finished object is what the document says of it.      *)
THEOREM ResolverCorrect == Spec => [](MemoFaithful /\ DeliveredFaithful)
<1>1. IInv => MemoFaithful /\ DeliveredFaithful
  BY DEF IInv
<1> QED BY <1>1, Invariance, PTL

-----------------------------------------------------------------------------
(***************************************************************************)
(* Every step of the loop is a step of ObjectGraph or changes nothing that *)
(* ObjectGraph sees.                                                       *)
(***************************************************************************)

(* What the operation of a step says of the outcome. *)
LEMMA Outcomes ==
  /\ step.op \in {"Resolve", "Advance", "Deliver"} => outcome = "running"
  /\ step.op = "Ok" => outcome = "ok"
  /\ step.op = "Err" => outcome = "error"
BY DEF outcome

LEMMA FailRefines ==
  ASSUME NEW kind, Fail(kind), outcome = "running"
  PROVE  Graph!GiveUp
<1>1. step'.op = "Err" /\ doc' = doc /\ objects' = objects
  BY DEF Fail, Error
<1>2. outcome' = "error"
  BY <1>1 DEF outcome
<1> QED BY <1>1, <1>2 DEF Graph!GiveUp

LEMMA ResolveScalarRefines ==
  ASSUME ResolveScalar
  PROVE  Graph!GiveUp \/ Graph!Solve(step.index)
<1>1. outcome = "running"
  BY DEF ResolveScalar, Unread, outcome
<1>2. CASE ~ Marker(doc, step.index).sound
  BY <1>1, <1>2, FailRefines DEF ResolveScalar
<1>3. CASE Marker(doc, step.index).sound
  <2>1. step'.op = "Deliver" /\ doc' = doc
    BY <1>3 DEF ResolveScalar, Deliver
  <2>2. outcome' = "running"
    BY <2>1 DEF outcome
  <2>3. objects' = With(objects, step.index, Marker(doc, step.index).value)
    BY <1>3 DEF ResolveScalar, memoize
  <2>4. /\ HasMarker(doc, step.index) /\ step.index \notin DOMAIN objects
        /\ ~ IsContainer(Marker(doc, step.index))
    BY DEF ResolveScalar, Unread
  <2>5. /\ Solvable(doc, step.index, objects)
        /\ ValueOf(doc, step.index, objects) = Marker(doc, step.index).value
    BY <1>3, <2>4 DEF Solvable, ValueOf
  <2> QED BY <1>1, <2>1, <2>2, <2>3, <2>4, <2>5 DEF Graph!Solve, With
<1> QED BY <1>2, <1>3

LEMMA CloseContainerRefines ==
  ASSUME IInv, CloseContainer
  PROVE  Graph!GiveUp \/ \E i \in Indices(doc) : Graph!Solve(i)
<1> PICK n \in Nat : n = Len(stack)
  BY SequenceFacts DEF IInv, TypeOK
<1> PICK f : f = Top
  OBVIOUS
<1> PICK marker : marker = Marker(doc, f.index)
  OBVIOUS
<1>1. /\ f.index \in Indices(doc) /\ f.index \notin DOMAIN objects
      /\ HasMarker(doc, f.index) /\ marker = doc.region[f.off]
      /\ IsContainer(marker) /\ marker.sound
      /\ AllIn(marker.refs, DOMAIN objects)
      /\ f.collected = Children(marker, objects)
  BY ClosingFacts DEF Refs
<1>2. outcome = "running" /\ doc' = doc
  BY DEF CloseContainer, outcome
<1>3. CASE Buildable(marker, f.collected)
  <2>1. /\ objects' = With(objects, f.index, Build(marker, f.collected))
        /\ step'.op = "Deliver"
    BY <1>1, <1>3 DEF CloseContainer, memoize, Deliver
  <2>2. outcome' = "running"
    BY <2>1 DEF outcome
  <2>3. /\ Solvable(doc, f.index, objects)
        /\ ValueOf(doc, f.index, objects) = Build(marker, f.collected)
    BY <1>1, <1>3 DEF Solvable, ValueOf
  <2>4. Graph!Solve(f.index)
    BY <1>1, <1>2, <2>1, <2>2, <2>3 DEF Graph!Solve, With
  <2> QED BY <1>1, <2>4
<1>4. CASE ~ Buildable(marker, f.collected)
  <2>1. objects' = objects /\ step'.op = "Err"
    BY <1>1, <1>4 DEF CloseContainer, Error
  <2>2. outcome' = "error"
    BY <2>1 DEF outcome
  <2> QED BY <1>2, <2>1, <2>2 DEF Graph!GiveUp
<1> QED BY <1>3, <1>4

LEMMA DeliverOutRefines ==
  ASSUME IInv, DeliverOut
  PROVE  Graph!Succeed
<1>1. step.op = "Deliver" /\ stack = << >> /\ step'.op = "Ok" /\ doc' = doc /\ objects' = objects
  BY DEF DeliverOut, Return
<1>2. outcome = "running" /\ outcome' = "ok"
  BY <1>1 DEF outcome
<1>3. doc.top \in DOMAIN objects
  BY <1>1 DEF IInv, DeliveredFaithful, Asked
<1> QED BY <1>1, <1>2, <1>3 DEF Graph!Succeed

(* The steps that leave what ObjectGraph sees as it is. *)
LEMMA StepStutters ==
  ASSUME ResolveMemoized \/ OpenContainer \/ DeliverToFrame
         \/ (ReadReference /\ doc.refSizeLegal) \/ UNCHANGED vars
  PROVE  UNCHANGED Graph!vars
<1>1. CASE UNCHANGED vars
  BY <1>1 DEF vars, outcome, Graph!vars
<1>2. CASE ~ UNCHANGED vars
  <2>1. /\ step.op \in {"Resolve", "Advance", "Deliver"}
        /\ step'.op \in {"Resolve", "Advance", "Deliver"}
        /\ doc' = doc /\ objects' = objects
    BY <1>2 DEF ResolveMemoized, OpenContainer, AtContainer, Unread, DeliverToFrame,
                ReadReference, Resolve, Advance, Deliver
  <2>2. outcome = "running" /\ outcome' = "running"
    BY <2>1 DEF outcome
  <2> QED BY <2>1, <2>2 DEF Graph!vars
<1> QED BY <1>1, <1>2

LEMMA NextRefines ==
  ASSUME IInv, [Next]_vars
  PROVE  [Graph!Next]_(Graph!vars)
<1>1. CASE ResolveMemoized \/ OpenContainer \/ DeliverToFrame \/ Stop \/ UNCHANGED vars
  BY <1>1, StepStutters DEF Stop
<1>2. CASE ReadReference
  <2>1. CASE doc.refSizeLegal
    BY <1>2, <2>1, StepStutters
  <2>2. CASE ~ doc.refSizeLegal
    BY <1>2, <2>2, FailRefines DEF ReadReference, outcome, Graph!Next
  <2> QED BY <2>1, <2>2
<1>3. CASE ResolveInvalid \/ ResolveUnreadable \/ ResolveBeyondTable
           \/ OpenTooDeep \/ OpenSelfReferential \/ OpenOutOfBounds
  <2>1. outcome = "running" /\ \E kind : Fail(kind)
    BY <1>3 DEF ResolveInvalid, ResolveUnreadable, ResolveBeyondTable, OpenTooDeep,
                OpenSelfReferential, OpenOutOfBounds, AtContainer, Unread, outcome
  <2> QED BY <2>1, FailRefines DEF Graph!Next
<1>4. CASE ResolveScalar
  <2>1. step.index \in Indices(doc)
    BY <1>4 DEF ResolveScalar, Unread
  <2> QED BY <1>4, <2>1, ResolveScalarRefines DEF Graph!Next
<1>5. CASE CloseContainer
  BY <1>5, CloseContainerRefines DEF Graph!Next
<1>6. CASE DeliverOut
  BY <1>6, DeliverOutRefines DEF Graph!Next
<1> QED BY <1>1, <1>2, <1>3, <1>4, <1>5, <1>6 DEF Next

(* The parser implements the order-free account: whatever order, memo and  *)
(* stack it uses, each object gets the one value its marker and the        *)
(* objects it refers to give it, and the answer is the top object's.       *)
THEOREM Refinement == Spec => ImplementsObjectGraph
<1>1. Init => Graph!Init
  BY DEF Init, Graph!Init, outcome, Resolve
<1>2. IInv /\ [Next]_vars => [Graph!Next]_(Graph!vars)
  BY NextRefines
<1> QED BY <1>1, <1>2, Invariance, PTL DEF Spec, ImplementsObjectGraph, Graph!Spec

(* memoize: a finished object is never changed or forgotten. *)
THEOREM FinishedForGood == Spec => MemoStable
<1>1. IInv /\ [Next]_vars =>
        [\A i \in DOMAIN objects : i \in DOMAIN objects' /\ objects'[i] = objects[i]]_vars
  <2> SUFFICES ASSUME IInv, [Next]_vars
               PROVE  \A i \in DOMAIN objects : i \in DOMAIN objects' /\ objects'[i] = objects[i]
    OBVIOUS
  <2>1. [Graph!Next]_(Graph!vars)
    BY NextRefines
  <2> QED BY <2>1 DEF Graph!Next, Graph!vars, Graph!Solve, Graph!Succeed, Graph!GiveUp
<1> QED BY <1>1, Invariance, PTL DEF Spec, MemoStable

-----------------------------------------------------------------------------
(***************************************************************************)
(* The loop and the recursive traversal.  A judgment <<c, o>> says that    *)
(* call c returns o.  Follows is the rule of each call: the judgments in D *)
(* about the calls it makes are what c needs to return o.  A derivation is *)
(* a set of judgments each of which follows from others in the set.        *)
(***************************************************************************)
Follows(d, c, o, D) ==
  IF c.kind = "object"
  THEN IF Enters(d, c)
       THEN \E p : <<ContentsCall(d, c), p>> \in D /\ o = Closed(d, c, p)
       ELSE o = ObjectAnswer(d, c)
  ELSE IF Asks(d, c)
       THEN \E p : /\ <<ChildCall(c), p>> \in D
                   /\ IF Failed(p) THEN o = p ELSE <<RestCall(c, p), o>> \in D
       ELSE o = ListAnswer(c)

Derivation(d, D) == \A c, o : <<c, o>> \in D => Follows(d, c, o, D)

Returns(d, c, o) == \E D : Derivation(d, D) /\ <<c, o>> \in D

LEMMA FollowsMore ==
  ASSUME NEW d, NEW c, NEW o, NEW D, NEW E, D \subseteq E, Follows(d, c, o, D)
  PROVE  Follows(d, c, o, E)
BY DEF Follows

LEMMA UnionDerives ==
  ASSUME NEW d, NEW D, NEW E, Derivation(d, D), Derivation(d, E)
  PROVE  Derivation(d, D \cup E)
<1> SUFFICES ASSUME NEW c, NEW o, <<c, o>> \in D \cup E
             PROVE  Follows(d, c, o, D \cup E)
  BY DEF Derivation
<1>1. Follows(d, c, o, D) \/ Follows(d, c, o, E)
  BY DEF Derivation
<1>2. D \subseteq D \cup E /\ E \subseteq D \cup E
  OBVIOUS
<1> QED BY <1>1, <1>2, FollowsMore

(* A call returns what follows from judgments that are derived. *)
LEMMA Concluded ==
  ASSUME NEW d, NEW D, Derivation(d, D), NEW c, NEW o, Follows(d, c, o, D)
  PROVE  Returns(d, c, o)
<1> PICK E : E = D \cup {<<c, o>>}
  OBVIOUS
<1>1. D \subseteq E /\ <<c, o>> \in E
  OBVIOUS
<1>2. ASSUME NEW b, NEW p, <<b, p>> \in E PROVE Follows(d, b, p, E)
  <2>1. CASE <<b, p>> \in D
    <3>1. Follows(d, b, p, D)
      BY <2>1 DEF Derivation
    <3> QED BY <1>1, <3>1, FollowsMore
  <2>2. CASE <<b, p>> = <<c, o>>
    <3>1. b = c /\ p = o
      BY <2>2
    <3> QED BY <1>1, <3>1, FollowsMore
  <2> QED BY <1>2, <2>1, <2>2
<1>3. Derivation(d, E)
  BY <1>2 DEF Derivation
<1> QED BY <1>1, <1>3 DEF Returns

(* The rules, call by call. *)
LEMMA AnswerRule ==
  ASSUME NEW d, NEW c
  PROVE  /\ c.kind = "object" /\ ~ Enters(d, c) => Returns(d, c, ObjectAnswer(d, c))
         /\ c.kind # "object" /\ ~ Asks(d, c) => Returns(d, c, ListAnswer(c))
<1>1. Derivation(d, {})
  BY DEF Derivation
<1>2. c.kind = "object" /\ ~ Enters(d, c) => Follows(d, c, ObjectAnswer(d, c), {})
  BY DEF Follows
<1>3. c.kind # "object" /\ ~ Asks(d, c) => Follows(d, c, ListAnswer(c), {})
  BY DEF Follows
<1> QED BY <1>1, <1>2, <1>3, Concluded

LEMMA ContainerRule ==
  ASSUME NEW d, NEW c, c.kind = "object", Enters(d, c), NEW p, Returns(d, ContentsCall(d, c), p)
  PROVE  Returns(d, c, Closed(d, c, p))
<1>1. PICK D : Derivation(d, D) /\ <<ContentsCall(d, c), p>> \in D
  BY DEF Returns
<1>2. Follows(d, c, Closed(d, c, p), D)
  BY <1>1 DEF Follows
<1> QED BY <1>1, <1>2, Concluded

LEMMA ListRule ==
  ASSUME NEW d, NEW c, c.kind # "object", Asks(d, c), NEW p, Returns(d, ChildCall(c), p)
  PROVE  /\ Failed(p) => Returns(d, c, p)
         /\ ~ Failed(p) => \A o : Returns(d, RestCall(c, p), o) => Returns(d, c, o)
<1>1. PICK D : Derivation(d, D) /\ <<ChildCall(c), p>> \in D
  BY DEF Returns
<1>2. CASE Failed(p)
  <2>1. Follows(d, c, p, D)
    BY <1>1, <1>2 DEF Follows
  <2> QED BY <1>1, <1>2, <2>1, Concluded
<1>3. ASSUME ~ Failed(p), NEW o, Returns(d, RestCall(c, p), o) PROVE Returns(d, c, o)
  <2>1. PICK E : Derivation(d, E) /\ <<RestCall(c, p), o>> \in E
    BY <1>3 DEF Returns
  <2>2. Derivation(d, D \cup E)
    BY <1>1, <2>1, UnionDerives
  <2>3. <<ChildCall(c), p>> \in D \cup E /\ <<RestCall(c, p), o>> \in D \cup E
    BY <1>1, <2>1
  <2>4. Follows(d, c, o, D \cup E)
    BY <1>3, <2>3 DEF Follows
  <2> QED BY <2>2, <2>4, Concluded
<1> QED BY <1>2, <1>3

(* What a call returns came from the calls it made. *)
LEMMA RuleUsed ==
  ASSUME NEW d, NEW c, NEW o, Returns(d, c, o)
  PROVE  IF c.kind = "object"
         THEN IF Enters(d, c)
              THEN \E p : Returns(d, ContentsCall(d, c), p) /\ o = Closed(d, c, p)
              ELSE o = ObjectAnswer(d, c)
         ELSE IF Asks(d, c)
              THEN \E p : /\ Returns(d, ChildCall(c), p)
                          /\ IF Failed(p) THEN o = p ELSE Returns(d, RestCall(c, p), o)
              ELSE o = ListAnswer(c)
<1>1. PICK D : Derivation(d, D) /\ <<c, o>> \in D
  BY DEF Returns
<1>2. Follows(d, c, o, D)
  BY <1>1 DEF Derivation
<1>3. \A b, p : <<b, p>> \in D => Returns(d, b, p)
  BY <1>1 DEF Returns
<1> QED BY <1>2, <1>3 DEF Follows

(* The fields of the calls, with their constructors folded. *)
LEMMA CallFields ==
  ASSUME NEW i, NEW path, NEW memo, NEW mode, NEW refs, NEW collected
  PROVE  /\ ObjectCall(i, path, memo, mode).kind = "object"
         /\ ObjectCall(i, path, memo, mode).index = i
         /\ ObjectCall(i, path, memo, mode).path = path
         /\ ObjectCall(i, path, memo, mode).memo = memo
         /\ ObjectCall(i, path, memo, mode).mode = mode
         /\ ListCall(refs, path, memo, mode, collected).kind = "list"
         /\ ListCall(refs, path, memo, mode, collected).refs = refs
         /\ ListCall(refs, path, memo, mode, collected).path = path
         /\ ListCall(refs, path, memo, mode, collected).memo = memo
         /\ ListCall(refs, path, memo, mode, collected).mode = mode
         /\ ListCall(refs, path, memo, mode, collected).collected = collected
BY DEF ObjectCall, ListCall

-----------------------------------------------------------------------------
(* A call returns one outcome: every call that a call makes is deeper, up  *)
(* to the cap, or has fewer references left.                               *)
Single(d, c) == \A o, p : Returns(d, c, o) /\ Returns(d, c, p) => o = p

LEMMA ListSingle ==
  ASSUME NEW d, NEW path, NEW refs, Len(refs) \in Nat,
         \A i, memo, mode : Single(d, ObjectCall(i, path, memo, mode)),
         NEW m, NEW kept, NEW s, IsSequence(s), Len(s) <= Len(refs)
  PROVE  Single(d, ListCall(refs, path, m, kept, s))
<1> DEFINE Double(k) == \E memo, mode, collected :
             /\ IsSequence(collected) /\ Len(collected) <= Len(refs)
             /\ k = Len(refs) - Len(collected)
             /\ ~ Single(d, ListCall(refs, path, memo, mode, collected))
           T == {k \in Nat : Double(k)}
<1>1. SUFFICES ASSUME ~ Single(d, ListCall(refs, path, m, kept, s)) PROVE FALSE
  OBVIOUS
<1>2. T # {}
  <2>1. Len(s) \in Nat
    BY SequenceFacts
  <2>2. PICK k \in Nat : k = Len(refs) - Len(s)
    BY <2>1
  <2> QED BY <1>1, <2>2
<1>3. PICK k \in T : \A j \in T : k <= j
  <2> HIDE DEF Double
  <2>1. T \in SUBSET Nat
    OBVIOUS
  <2> HIDE DEF T
  <2> QED BY <1>2, <2>1, LeastNumber
<1>4. PICK memo, mode, collected :
        /\ IsSequence(collected) /\ Len(collected) <= Len(refs)
        /\ k = Len(refs) - Len(collected)
        /\ ~ Single(d, ListCall(refs, path, memo, mode, collected))
  BY <1>3
<1> PICK c : c = ListCall(refs, path, memo, mode, collected)
  OBVIOUS
<1>5. PICK o, p : Returns(d, c, o) /\ Returns(d, c, p) /\ o # p
  BY <1>4 DEF Single
<1>6. c.kind # "object" /\ c.refs = refs /\ c.path = path /\ c.memo = memo /\ c.mode = mode
      /\ c.collected = collected
  BY CallFields
<1>7. Asks(d, c)
  BY <1>5, <1>6, RuleUsed
<1>8. PICK a : /\ Returns(d, ChildCall(c), a)
               /\ IF Failed(a) THEN o = a ELSE Returns(d, RestCall(c, a), o)
  BY <1>5, <1>6, <1>7, RuleUsed
<1>9. PICK b : /\ Returns(d, ChildCall(c), b)
               /\ IF Failed(b) THEN p = b ELSE Returns(d, RestCall(c, b), p)
  BY <1>5, <1>6, <1>7, RuleUsed
<1>10. a = b
  <2>1. Single(d, ChildCall(c))
    BY <1>6 DEF ChildCall
  <2> QED BY <1>8, <1>9, <2>1 DEF Single
<1>11. ~ Failed(a) /\ Returns(d, RestCall(c, a), o) /\ Returns(d, RestCall(c, a), p)
  BY <1>5, <1>8, <1>9, <1>10
<1> PICK t : t = Extended(collected, a.out.value)
  OBVIOUS
<1>12. RestCall(c, a) = ListCall(refs, path, a.memo, mode, t)
  BY <1>6 DEF RestCall, Extended
<1>13. ~ Single(d, ListCall(refs, path, a.memo, mode, t))
  BY <1>5, <1>11, <1>12 DEF Single
<1>14. IsSequence(t) /\ Len(t) = Len(collected) + 1 /\ Len(collected) \in Nat
  BY <1>4, AppendSequence
<1>15. Len(collected) # Len(refs)
  BY <1>6, <1>7 DEF Asks
<1>16. PICK j \in Nat : j = Len(refs) - Len(t) /\ j < k /\ Len(t) <= Len(refs)
  <2>1. PICK n \in Nat : n = Len(collected)
    BY <1>14
  <2>2. PICK r \in Nat : r = Len(refs)
    OBVIOUS
  <2>3. k = r - n /\ n <= r /\ n # r /\ Len(t) = n + 1
    BY <1>4, <1>14, <1>15, <2>1, <2>2
  <2>4. r - (n + 1) \in Nat /\ r - (n + 1) < k /\ n + 1 <= r
    BY <2>3
  <2> QED BY <2>2, <2>3, <2>4
<1>17. j \in T
  BY <1>13, <1>14, <1>16
<1>18. k <= j /\ k \in Nat
  BY <1>3, <1>17
<1> QED BY <1>16, <1>18

LEMMA ObjectSingle ==
  ASSUME NEW d, IsDocument(d), NEW b, b.kind = "object", IsSequence(b.path),
         Len(b.path) <= MaxParseDepth
  PROVE  Single(d, b)
<1> DEFINE Double(k) == \E c :
             /\ c.kind = "object" /\ IsSequence(c.path) /\ Len(c.path) <= MaxParseDepth
             /\ k = MaxParseDepth - Len(c.path)
             /\ ~ Single(d, c)
           T == {k \in Nat : Double(k)}
<1>1. SUFFICES ASSUME ~ Single(d, b) PROVE FALSE
  OBVIOUS
<1>2. T # {}
  <2>1. Len(b.path) \in Nat
    BY SequenceFacts
  <2>2. PICK k \in Nat : k = MaxParseDepth - Len(b.path)
    BY <2>1, MaxParseDepthAssumption
  <2> QED BY <1>1, <2>2
<1>3. PICK k \in T : \A j \in T : k <= j
  <2> HIDE DEF Double
  <2>1. T \in SUBSET Nat
    OBVIOUS
  <2> HIDE DEF T
  <2> QED BY <1>2, <2>1, LeastNumber
<1>4. PICK c : /\ c.kind = "object" /\ IsSequence(c.path) /\ Len(c.path) <= MaxParseDepth
               /\ k = MaxParseDepth - Len(c.path)
               /\ ~ Single(d, c)
  BY <1>3
<1>5. PICK o, p : Returns(d, c, o) /\ Returns(d, c, p) /\ o # p
  BY <1>4 DEF Single
<1>6. Enters(d, c)
  BY <1>4, <1>5, RuleUsed
<1>7. PICK q, r : /\ Returns(d, ContentsCall(d, c), q) /\ o = Closed(d, c, q)
                  /\ Returns(d, ContentsCall(d, c), r) /\ p = Closed(d, c, r)
  <2>1. PICK q : Returns(d, ContentsCall(d, c), q) /\ o = Closed(d, c, q)
    BY <1>4, <1>5, <1>6, RuleUsed
  <2>2. PICK r : Returns(d, ContentsCall(d, c), r) /\ p = Closed(d, c, r)
    BY <1>4, <1>5, <1>6, RuleUsed
  <2> QED BY <2>1, <2>2
<1> PICK path : path = Extended(c.path, d.offset[c.index])
  OBVIOUS
<1> PICK refs : refs = Marker(d, c.index).refs
  OBVIOUS
<1>8. IsSequence(path) /\ Len(path) = Len(c.path) + 1 /\ Len(c.path) \in Nat
  BY <1>4, AppendSequence
<1>9. PICK j \in Nat : j = MaxParseDepth - Len(path) /\ j < k /\ Len(path) <= MaxParseDepth
  <2>1. PICK n \in Nat : n = Len(c.path)
    BY <1>8
  <2>2. k = MaxParseDepth - n /\ n < MaxParseDepth /\ Len(path) = n + 1
    BY <1>4, <1>6, <1>8, <2>1 DEF Enters
  <2>3. /\ MaxParseDepth - (n + 1) \in Nat /\ MaxParseDepth - (n + 1) < k
        /\ n + 1 <= MaxParseDepth
    BY <2>2, MaxParseDepthAssumption
  <2> QED BY <2>2, <2>3
<1>10. \A i, memo, mode : Single(d, ObjectCall(i, path, memo, mode))
  <2> SUFFICES ASSUME NEW i, NEW memo, NEW mode, ~ Single(d, ObjectCall(i, path, memo, mode))
               PROVE  FALSE
    OBVIOUS
  <2>1. PICK a : a = ObjectCall(i, path, memo, mode)
    OBVIOUS
  <2>2. a.kind = "object" /\ a.path = path
    BY <2>1, CallFields
  <2>3. j \in T
    BY <1>8, <1>9, <2>1, <2>2
  <2>4. k <= j /\ k \in Nat
    BY <1>3, <2>3
  <2> QED BY <1>9, <2>4
<1>11. Len(refs) \in Nat
  <2>1. refs \in Seq(Nat)
    BY <1>6 DEF Enters, HasMarker, IsDocument, Marker
  <2> QED BY <2>1, LenProperties
<1>12. ContentsCall(d, c) = ListCall(refs, path, c.memo, c.mode, << >>)
  BY DEF ContentsCall, Extended
<1>13. IsSequence(<< >>) /\ Len(<< >>) <= Len(refs)
  BY <1>11, EmptySequence
<1>14. Single(d, ListCall(refs, path, c.memo, c.mode, << >>))
  BY <1>10, <1>11, <1>13, ListSingle
<1> QED BY <1>5, <1>7, <1>12, <1>14 DEF Single

(* And it returns: every call has an outcome, for the same reason. *)
Answers(d, c) == \E o : Returns(d, c, o)

LEMMA ListAnswers ==
  ASSUME NEW d, NEW path, NEW refs, Len(refs) \in Nat,
         \A i, memo, mode : Answers(d, ObjectCall(i, path, memo, mode)),
         NEW m, NEW kept, NEW s, IsSequence(s), Len(s) <= Len(refs)
  PROVE  Answers(d, ListCall(refs, path, m, kept, s))
<1> DEFINE Stuck(k) == \E memo, mode, collected :
             /\ IsSequence(collected) /\ Len(collected) <= Len(refs)
             /\ k = Len(refs) - Len(collected)
             /\ ~ Answers(d, ListCall(refs, path, memo, mode, collected))
           T == {k \in Nat : Stuck(k)}
<1>1. SUFFICES ASSUME ~ Answers(d, ListCall(refs, path, m, kept, s)) PROVE FALSE
  OBVIOUS
<1>2. T # {}
  <2>1. Len(s) \in Nat
    BY SequenceFacts
  <2>2. PICK k \in Nat : k = Len(refs) - Len(s)
    BY <2>1
  <2> QED BY <1>1, <2>2
<1>3. PICK k \in T : \A j \in T : k <= j
  <2> HIDE DEF Stuck
  <2>1. T \in SUBSET Nat
    OBVIOUS
  <2> HIDE DEF T
  <2> QED BY <1>2, <2>1, LeastNumber
<1>4. PICK memo, mode, collected :
        /\ IsSequence(collected) /\ Len(collected) <= Len(refs)
        /\ k = Len(refs) - Len(collected)
        /\ ~ Answers(d, ListCall(refs, path, memo, mode, collected))
  BY <1>3
<1> PICK c : c = ListCall(refs, path, memo, mode, collected)
  OBVIOUS
<1>5. c.kind # "object" /\ c.refs = refs /\ c.path = path /\ c.memo = memo /\ c.mode = mode
      /\ c.collected = collected
  BY CallFields
<1>6. Asks(d, c)
  BY <1>4, <1>5, AnswerRule DEF Answers
<1>7. PICK a : Returns(d, ChildCall(c), a)
  BY <1>5 DEF ChildCall, Answers
<1>8. ~ Failed(a)
  BY <1>4, <1>5, <1>6, <1>7, ListRule DEF Answers
<1> PICK t : t = Extended(collected, a.out.value)
  OBVIOUS
<1>9. RestCall(c, a) = ListCall(refs, path, a.memo, mode, t)
  BY <1>5 DEF RestCall, Extended
<1>10. ~ Answers(d, ListCall(refs, path, a.memo, mode, t))
  <2>1. \A o : Returns(d, RestCall(c, a), o) => Returns(d, c, o)
    BY <1>5, <1>6, <1>7, <1>8, ListRule
  <2> QED BY <1>4, <1>9, <2>1 DEF Answers
<1>11. IsSequence(t) /\ Len(t) = Len(collected) + 1 /\ Len(collected) \in Nat
  BY <1>4, AppendSequence
<1>12. Len(collected) # Len(refs)
  BY <1>5, <1>6 DEF Asks
<1>13. PICK j \in Nat : j = Len(refs) - Len(t) /\ j < k /\ Len(t) <= Len(refs)
  <2>1. PICK n \in Nat : n = Len(collected)
    BY <1>11
  <2>2. PICK r \in Nat : r = Len(refs)
    OBVIOUS
  <2>3. k = r - n /\ n <= r /\ n # r /\ Len(t) = n + 1
    BY <1>4, <1>11, <1>12, <2>1, <2>2
  <2>4. r - (n + 1) \in Nat /\ r - (n + 1) < k /\ n + 1 <= r
    BY <2>3
  <2> QED BY <2>2, <2>3, <2>4
<1>14. j \in T
  BY <1>10, <1>11, <1>13
<1>15. k <= j /\ k \in Nat
  BY <1>3, <1>14
<1> QED BY <1>13, <1>15

LEMMA ObjectAnswers ==
  ASSUME NEW d, IsDocument(d), NEW b, b.kind = "object", IsSequence(b.path),
         Len(b.path) <= MaxParseDepth
  PROVE  Answers(d, b)
<1> DEFINE Stuck(k) == \E c :
             /\ c.kind = "object" /\ IsSequence(c.path) /\ Len(c.path) <= MaxParseDepth
             /\ k = MaxParseDepth - Len(c.path)
             /\ ~ Answers(d, c)
           T == {k \in Nat : Stuck(k)}
<1>1. SUFFICES ASSUME ~ Answers(d, b) PROVE FALSE
  OBVIOUS
<1>2. T # {}
  <2>1. Len(b.path) \in Nat
    BY SequenceFacts
  <2>2. PICK k \in Nat : k = MaxParseDepth - Len(b.path)
    BY <2>1, MaxParseDepthAssumption
  <2> QED BY <1>1, <2>2
<1>3. PICK k \in T : \A j \in T : k <= j
  <2> HIDE DEF Stuck
  <2>1. T \in SUBSET Nat
    OBVIOUS
  <2> HIDE DEF T
  <2> QED BY <1>2, <2>1, LeastNumber
<1>4. PICK c : /\ c.kind = "object" /\ IsSequence(c.path) /\ Len(c.path) <= MaxParseDepth
               /\ k = MaxParseDepth - Len(c.path)
               /\ ~ Answers(d, c)
  BY <1>3
<1>5. Enters(d, c)
  BY <1>4, AnswerRule DEF Answers
<1> PICK path : path = Extended(c.path, d.offset[c.index])
  OBVIOUS
<1> PICK refs : refs = Marker(d, c.index).refs
  OBVIOUS
<1>6. IsSequence(path) /\ Len(path) = Len(c.path) + 1 /\ Len(c.path) \in Nat
  BY <1>4, AppendSequence
<1>7. PICK j \in Nat : j = MaxParseDepth - Len(path) /\ j < k /\ Len(path) <= MaxParseDepth
  <2>1. PICK n \in Nat : n = Len(c.path)
    BY <1>6
  <2>2. k = MaxParseDepth - n /\ n < MaxParseDepth /\ Len(path) = n + 1
    BY <1>4, <1>5, <1>6, <2>1 DEF Enters
  <2>3. /\ MaxParseDepth - (n + 1) \in Nat /\ MaxParseDepth - (n + 1) < k
        /\ n + 1 <= MaxParseDepth
    BY <2>2, MaxParseDepthAssumption
  <2> QED BY <2>2, <2>3
<1>8. \A i, memo, mode : Answers(d, ObjectCall(i, path, memo, mode))
  <2> SUFFICES ASSUME NEW i, NEW memo, NEW mode, ~ Answers(d, ObjectCall(i, path, memo, mode))
               PROVE  FALSE
    OBVIOUS
  <2>1. PICK a : a = ObjectCall(i, path, memo, mode)
    OBVIOUS
  <2>2. a.kind = "object" /\ a.path = path
    BY <2>1, CallFields
  <2>3. j \in T
    BY <1>6, <1>7, <2>1, <2>2
  <2>4. k <= j /\ k \in Nat
    BY <1>3, <2>3
  <2> QED BY <1>7, <2>4
<1>9. Len(refs) \in Nat
  <2>1. refs \in Seq(Nat)
    BY <1>5 DEF Enters, HasMarker, IsDocument, Marker
  <2> QED BY <2>1, LenProperties
<1>10. ContentsCall(d, c) = ListCall(refs, path, c.memo, c.mode, << >>)
  BY DEF ContentsCall, Extended
<1>11. IsSequence(<< >>) /\ Len(<< >>) <= Len(refs)
  BY <1>9, EmptySequence
<1>12. Answers(d, ListCall(refs, path, c.memo, c.mode, << >>))
  BY <1>8, <1>9, <1>11, ListAnswers
<1> QED BY <1>4, <1>5, <1>10, <1>12, ContainerRule DEF Answers

(* The recursive traversal has exactly one answer on every document,       *)
(* cyclic, shared or broken: the cap bounds how deep it goes, and its      *)
(* rules are a function of the document.                                   *)
THEOREM OneTraversal ==
  ASSUME NEW d, IsDocument(d), NEW mode
  PROVE  \E o : \A p : Returns(d, WholeCall(d, mode), p) <=> p = o
<1>1. WholeCall(d, mode).kind = "object" /\ WholeCall(d, mode).path = << >>
  BY CallFields DEF WholeCall
<1>2. IsSequence(<< >>) /\ Len(<< >>) <= MaxParseDepth
  BY EmptySequence, MaxParseDepthAssumption
<1>3. Single(d, WholeCall(d, mode)) /\ Answers(d, WholeCall(d, mode))
  BY <1>1, <1>2, ObjectSingle, ObjectAnswers
<1> QED BY <1>3 DEF Single, Answers

-----------------------------------------------------------------------------
(***************************************************************************)
(* The calls the loop has open.  began gives each of them its memo: frame  *)
(* d is the call to the object of its index, with the memo began[d], that  *)
(* has got as far as the call for the rest of its list, with the memo      *)
(* began[d + 1].  What that call returns decides what the frame's returns, *)
(* so the answer of the innermost call decides the answer of all.          *)
(***************************************************************************)
PathIn(s, d) == [k \in 1 .. d - 1 |-> s[k].off]
Path(d)      == PathIn(stack, d)

EnteredCall(d, began, mode) == ObjectCall(stack[d].index, Path(d), began[d], mode)
ListingCall(d, began, mode) ==
  ListCall(Refs(stack[d]), Path(d + 1), began[d + 1], mode, stack[d].collected)
AskedCall(began, mode) ==
  ObjectCall(Asked, Path(Len(stack) + 1), began[Len(stack) + 1], mode)

Leads(c, b) == \A o : Returns(doc, b, o) => Returns(doc, c, Closed(doc, c, o))

CallsOpen(began) ==
  /\ began[1] = << >>
  /\ \A d \in 1 .. Len(stack) :
       Leads(EnteredCall(d, began, "memoized"), ListingCall(d, began, "memoized"))
  /\ \A d \in 1 .. Len(stack) : Awaiting(d) => doc.refSizeLegal

CallsCurrent(began) ==
  /\ step.op \in {"Resolve", "Advance"} => began[Len(stack) + 1] = objects
  /\ step.op = "Deliver" =>
       Returns(doc, AskedCall(began, "memoized"), Outcome(objects, Return(step.value)))

RecursionInv ==
  /\ ~ Returned => \E began : CallsOpen(began) /\ CallsCurrent(began)
  /\ Returned => Returns(doc, WholeCall(doc, "memoized"), Outcome(objects, step))

LEMMA RecursionInit == Init => RecursionInv
<1> SUFFICES ASSUME Init PROVE RecursionInv
  OBVIOUS
<1>1. Len(stack) = 0 /\ objects = << >> /\ step.op = "Resolve"
  BY EmptySequence DEF Init, Resolve
<1> PICK began : began = [k \in {1} |-> << >>]
  OBVIOUS
<1>2. began[1] = << >> /\ began[Len(stack) + 1] = objects
  BY <1>1
<1>3. CallsOpen(began) /\ CallsCurrent(began)
  BY <1>1, <1>2 DEF CallsOpen, CallsCurrent
<1> QED BY <1>1, <1>3 DEF RecursionInv, Returned

(* The path of a frame's list is that of the frame, and the frame itself. *)
LEMMA PathExtended ==
  ASSUME NEW s, NEW n \in Nat \ {0}
  PROVE  /\ Append(PathIn(s, n), s[n].off) = PathIn(s, n + 1)
         /\ IsSequence(PathIn(s, n)) /\ Len(PathIn(s, n)) = n - 1
<1> PICK p : p = PathIn(s, n)
  OBVIOUS
<1> PICK off : off = s[n].off
  OBVIOUS
<1>1. p \in [1 .. n - 1 -> {p[k] : k \in 1 .. n - 1}] /\ DOMAIN p = 1 .. n - 1
  BY DEF PathIn
<1>2. p \in Seq({p[k] : k \in 1 .. n - 1})
  BY <1>1
<1>3. IsSequence(p)
  BY <1>2, SequenceOfElements
<1>4. Len(p) = n - 1
  BY <1>1, <1>2, LenProperties
<1> PICK q : q = Extended(p, off)
  OBVIOUS
<1>5. /\ IsSequence(q) /\ Len(q) = n
      /\ \A k \in 1 .. n - 1 : q[k] = p[k]
      /\ q[n] = off
  BY <1>3, <1>4, AppendSequence
<1>6. DOMAIN q = 1 .. n
  BY <1>5, SequenceFacts
<1>7. q = PathIn(s, n + 1)
  <2>1. q = [k \in 1 .. n |-> q[k]]
    <3>1. PICK S : q \in Seq(S)
      BY <1>5 DEF IsSequence
    <3>2. q \in [1 .. Len(q) -> S]
      BY <3>1, LenProperties
    <3> QED BY <1>5, <3>2
  <2>2. \A k \in 1 .. n : q[k] = s[k].off
    BY <1>5 DEF PathIn
  <2>3. n + 1 - 1 = n
    OBVIOUS
  <2>4. PathIn(s, n + 1) = [k \in 1 .. n |-> s[k].off]
    BY <2>3 DEF PathIn
  <2> QED BY <2>1, <2>2, <2>4
<1> QED BY <1>3, <1>4, <1>7 DEF Extended

(* A frame that awaits a child has called it: its list asks for the object *)
(* of the reference it read last.                                          *)
LEMMA ParentAsks ==
  ASSUME IInv, step.op # "Err", NEW began, NEW mode,
         NEW d \in 1 .. Len(stack), Awaiting(d)
  PROVE  /\ doc.refSizeLegal => Asks(doc, ListingCall(d, began, mode))
         /\ ChildCall(ListingCall(d, began, mode))
              = ObjectCall(Refs(stack[d])[stack[d].refsRead], Path(d + 1), began[d + 1], mode)
<1> PICK c : c = ListingCall(d, began, mode)
  OBVIOUS
<1>1. /\ c.refs = Refs(stack[d]) /\ c.path = Path(d + 1) /\ c.memo = began[d + 1]
      /\ c.mode = mode /\ c.collected = stack[d].collected
  BY DEF ListingCall, ListCall
<1>2. /\ stack[d].refsRead = Len(stack[d].collected) + 1
      /\ stack[d].refsRead <= Len(Refs(stack[d]))
  BY DEF IInv, FramesLinked
<1>3. Len(stack[d].collected) \in Nat /\ Len(Refs(stack[d])) \in Nat
  <2>1. FrameOK(stack[d])
    BY DEF IInv, TypeOK
  <2>2. Refs(stack[d]) \in Seq(Nat)
    BY <2>1 DEF IInv, TypeOK, FrameOK, Refs, IsDocument, HasMarker
  <2> QED BY <2>1, <2>2, SequenceFacts, LenProperties DEF FrameOK
<1>4. Len(stack[d].collected) # Len(Refs(stack[d]))
  BY <1>2, <1>3
<1> QED BY <1>1, <1>2, <1>4 DEF Asks, ChildCall

(* The call of a frame above another is the one its parent has made, and   *)
(* the outermost call is the one resolve_object starts from.               *)
LEMMA FrameCalls ==
  ASSUME IInv, step.op # "Err", NEW began, began[1] = << >>, NEW mode, NEW n \in Nat, n = Len(stack)
  PROVE  /\ \A d \in 1 .. n - 1 :
              EnteredCall(d + 1, began, mode) = ChildCall(ListingCall(d, began, mode))
         /\ n >= 1 => EnteredCall(1, began, mode) = WholeCall(doc, mode)
         /\ n = 0 => AskedCall(began, mode) = WholeCall(doc, mode)
         /\ n >= 1 /\ step.op \in {"Resolve", "Deliver"} =>
              AskedCall(began, mode) = ChildCall(ListingCall(n, began, mode))
<1>1. Path(1) = << >>
  <2>1. 1 .. 1 - 1 = {}
    OBVIOUS
  <2>2. PICK p : p = Path(1)
    OBVIOUS
  <2>3. IsSequence(p) /\ Len(p) = 0
    BY <2>2, PathExtended DEF Path
  <2> QED BY <2>2, <2>3, SequenceFacts
<1>2. ASSUME NEW d \in 1 .. n - 1
      PROVE  EnteredCall(d + 1, began, mode) = ChildCall(ListingCall(d, began, mode))
  <2>1. Awaiting(d) /\ d \in 1 .. Len(stack)
    BY DEF Awaiting
  <2>2. stack[d + 1].index = Refs(stack[d])[stack[d].refsRead]
    BY DEF IInv, FramesLinked
  <2> QED BY <2>1, <2>2, ParentAsks DEF EnteredCall
<1>3. n >= 1 => stack # << >>
  BY EmptySequence
<1>4. n >= 1 => EnteredCall(1, began, mode) = WholeCall(doc, mode)
  BY <1>1, <1>3 DEF IInv, FramesLinked, EnteredCall, WholeCall
<1>5. n = 0 => AskedCall(began, mode) = WholeCall(doc, mode)
  <2> SUFFICES ASSUME n = 0 PROVE AskedCall(began, mode) = WholeCall(doc, mode)
    OBVIOUS
  <2>1. stack = << >>
    BY SequenceFacts DEF IInv, TypeOK
  <2>2. Asked = doc.top
    BY <2>1 DEF Asked
  <2>3. Path(Len(stack) + 1) = << >> /\ began[Len(stack) + 1] = << >>
    BY <1>1
  <2> QED BY <2>2, <2>3 DEF AskedCall, WholeCall
<1>6. ASSUME n >= 1, step.op \in {"Resolve", "Deliver"}
      PROVE  AskedCall(began, mode) = ChildCall(ListingCall(n, began, mode))
  <2>1. Awaiting(n) /\ n \in 1 .. Len(stack)
    BY <1>6 DEF Awaiting
  <2>2. Asked = Refs(stack[n])[stack[n].refsRead]
    BY <1>3, <1>6 DEF Asked, Top
  <2> QED BY <2>1, <2>2, ParentAsks DEF AskedCall
<1> QED BY <1>2, <1>4, <1>5, <1>6

(* What fails in a frame fails the whole call: each list passes the error  *)
(* of its child on, and each container that of its list.                   *)
LEMMA ErrorPassed ==
  ASSUME IInv, step.op # "Err", NEW began, CallsOpen(began),
         NEW e, Failed(e), NEW m \in 1 .. Len(stack),
         Returns(doc, EnteredCall(m, began, "memoized"), e)
  PROVE  Returns(doc, WholeCall(doc, "memoized"), e)
<1> DEFINE T == {d \in Nat : /\ d \in 1 .. Len(stack)
                              /\ Returns(doc, EnteredCall(d, began, "memoized"), e)}
<1> PICK n \in Nat : n = Len(stack)
  BY SequenceFacts DEF IInv, TypeOK
<1>1. T \in SUBSET Nat /\ T # {}
  OBVIOUS
<1>2. PICK d \in T : \A j \in T : d <= j
  <2> HIDE DEF T
  <2> QED BY <1>1, LeastNumber
<1>3. d \in 1 .. n /\ Returns(doc, EnteredCall(d, began, "memoized"), e)
  BY <1>2
<1>4. CASE d = 1
  <2> HIDE DEF T
  <2>1. n >= 1
    BY <1>3
  <2>2. EnteredCall(1, began, "memoized") = WholeCall(doc, "memoized")
    BY <2>1, FrameCalls DEF CallsOpen
  <2> QED BY <1>3, <1>4, <2>2
<1>5. CASE d # 1
  <2> PICK k \in 1 .. n - 1 : d = k + 1
    <3>1. d - 1 \in 1 .. n - 1 /\ d = (d - 1) + 1
      BY <1>3, <1>5
    <3> QED BY <3>1
  <2> PICK c : c = ListingCall(k, began, "memoized")
    OBVIOUS
  <2>1. k \in 1 .. Len(stack) /\ Awaiting(k)
    BY DEF Awaiting
  <2>2. Asks(doc, c) /\ Returns(doc, ChildCall(c), e)
    <3>1. doc.refSizeLegal /\ began[1] = << >>
      BY <2>1 DEF CallsOpen
    <3>2. Asks(doc, c)
      BY <2>1, <3>1, ParentAsks
    <3>3. EnteredCall(k + 1, began, "memoized") = ChildCall(c)
      BY <3>1, FrameCalls
    <3> QED BY <1>3, <3>2, <3>3
  <2>3. c.kind # "object"
    BY DEF ListingCall, ListCall
  <2>4. Returns(doc, c, e)
    BY <2>2, <2>3, ListRule
  <2>5. Returns(doc, EnteredCall(k, began, "memoized"),
                Closed(doc, EnteredCall(k, began, "memoized"), e))
    BY <2>1, <2>4 DEF CallsOpen, Leads
  <2>6. Closed(doc, EnteredCall(k, began, "memoized"), e) = e
    BY DEF Closed
  <2>7. k \in T
    BY <2>1, <2>5, <2>6
  <2> QED BY <1>2, <2>7
<1> QED BY <1>4, <1>5

(* So does what fails in the object being resolved, or in the list of the  *)
(* top frame.                                                              *)
LEMMA ListErrorPassed ==
  ASSUME IInv, step.op # "Err", NEW began, CallsOpen(began),
         NEW e, Failed(e), NEW n \in 1 .. Len(stack),
         Returns(doc, ListingCall(n, began, "memoized"), e)
  PROVE  Returns(doc, WholeCall(doc, "memoized"), e)
<1>1. Returns(doc, EnteredCall(n, began, "memoized"),
              Closed(doc, EnteredCall(n, began, "memoized"), e))
  BY DEF CallsOpen, Leads
<1>2. Closed(doc, EnteredCall(n, began, "memoized"), e) = e
  BY DEF Closed
<1> QED BY <1>1, <1>2, ErrorPassed

LEMMA AskedErrorPassed ==
  ASSUME IInv, step.op \in {"Resolve", "Deliver"}, NEW began, CallsOpen(began),
         NEW e, Failed(e), Returns(doc, AskedCall(began, "memoized"), e)
  PROVE  Returns(doc, WholeCall(doc, "memoized"), e)
<1> PICK n \in Nat : n = Len(stack)
  BY SequenceFacts DEF IInv, TypeOK
<1>1. step.op # "Err"
  OBVIOUS
<1>2. CASE n = 0
  BY <1>1, <1>2, FrameCalls DEF CallsOpen
<1>3. CASE n # 0
  <2> PICK c : c = ListingCall(n, began, "memoized")
    OBVIOUS
  <2>1. n \in 1 .. Len(stack) /\ Awaiting(n) /\ n >= 1
    BY <1>3 DEF Awaiting
  <2>2. Asks(doc, c) /\ Returns(doc, ChildCall(c), e)
    <3>1. doc.refSizeLegal /\ began[1] = << >>
      BY <2>1 DEF CallsOpen
    <3> QED BY <1>1, <2>1, <3>1, ParentAsks, FrameCalls
  <2>3. c.kind # "object"
    BY DEF ListingCall, ListCall
  <2>4. Returns(doc, c, e)
    BY <2>2, <2>3, ListRule
  <2> QED BY <1>1, <2>1, <2>4, ListErrorPassed
<1> QED BY <1>2, <1>3

(* Frames whose offset, object and children stay what they are make the    *)
(* same calls.                                                             *)
LEMMA CallsKept ==
  ASSUME NEW n \in Nat, doc' = doc, NEW began, NEW later,
         \A k \in 1 .. n : stack'[k].off = stack[k].off /\ stack'[k].index = stack[k].index,
         \A k \in 1 .. n : later[k] = began[k]
  PROVE  /\ \A d \in 1 .. n + 1 : Path(d)' = Path(d)
         /\ \A d \in 1 .. n : EnteredCall(d, later, "memoized")' = EnteredCall(d, began, "memoized")
         /\ \A d \in 1 .. n :
              stack'[d].collected = stack[d].collected /\ later[d + 1] = began[d + 1] =>
                ListingCall(d, later, "memoized")' = ListingCall(d, began, "memoized")
<1>1. ASSUME NEW d \in 1 .. n + 1 PROVE Path(d)' = Path(d)
  BY DEF Path, PathIn
<1>2. ASSUME NEW d \in 1 .. n
      PROVE  EnteredCall(d, later, "memoized")' = EnteredCall(d, began, "memoized")
  <2>1. Path(d)' = Path(d) /\ stack'[d].index = stack[d].index /\ later[d] = began[d]
    BY <1>1
  <2> QED BY <2>1 DEF EnteredCall
<1>3. ASSUME NEW d \in 1 .. n, stack'[d].collected = stack[d].collected, later[d + 1] = began[d + 1]
      PROVE  ListingCall(d, later, "memoized")' = ListingCall(d, began, "memoized")
  <2>1. Path(d + 1)' = Path(d + 1)
    BY <1>1
  <2>2. Refs(stack[d])' = Refs(stack[d])
    BY DEF Refs
  <2> QED BY <1>3, <2>1, <2>2 DEF ListingCall
<1> QED BY <1>1, <1>2, <1>3

(* A step after which nothing below the frames has changed. *)
LEMMA LeadsKept ==
  ASSUME doc' = doc, NEW c, NEW b, NEW e, NEW f, Leads(c, b), e = c, f = b
  PROVE  Leads(e, f)'
BY DEF Leads

LEMMA CallsOpenKept ==
  ASSUME NEW n \in Nat, Len(stack) = n, UNCHANGED <<doc, stack>>, NEW began, CallsOpen(began),
         step.op \in {"Resolve", "Deliver"}
  PROVE  CallsOpen(began)' /\ AskedCall(began, "memoized")' = AskedCall(began, "memoized")
<1>1. /\ \A d \in 1 .. n : EnteredCall(d, began, "memoized")' = EnteredCall(d, began, "memoized")
      /\ \A d \in 1 .. n : ListingCall(d, began, "memoized")' = ListingCall(d, began, "memoized")
      /\ Path(n + 1)' = Path(n + 1)
  <2>1. /\ doc' = doc
        /\ \A k \in 1 .. n : stack'[k].off = stack[k].off /\ stack'[k].index = stack[k].index
        /\ \A k \in 1 .. n : began[k] = began[k]
        /\ \A k \in 1 .. n : stack'[k].collected = stack[k].collected /\ began[k + 1] = began[k + 1]
    OBVIOUS
  <2>2. n + 1 \in 1 .. n + 1
    OBVIOUS
  <2> QED BY <2>1, <2>2, CallsKept
<1>2. \A d \in 1 .. n : Leads(EnteredCall(d, began, "memoized"), ListingCall(d, began, "memoized"))'
  BY <1>1, LeadsKept DEF CallsOpen
<1>3. \A d \in 1 .. n : doc'.refSizeLegal
  BY DEF CallsOpen, Awaiting
<1>4. Asked' = Asked
  BY DEF Asked, Top, Refs
<1> QED BY <1>1, <1>2, <1>3, <1>4 DEF CallsOpen, AskedCall

(* The call for the object being resolved. *)
LEMMA AskedCallFacts ==
  ASSUME IInv, step.op = "Resolve", NEW began, CallsOpen(began), CallsCurrent(began),
         NEW n \in Nat, n = Len(stack), NEW c, c = AskedCall(began, "memoized")
  PROVE  /\ c.kind = "object" /\ c.index = step.index /\ c.memo = objects /\ c.mode = "memoized"
         /\ c.path = Path(n + 1) /\ Len(c.path) = n
         /\ \A off : IsBelow(c, off) <=> IsOpen(off)
<1>1. Asked = step.index /\ began[n + 1] = objects
  BY DEF IInv, FramesLinked, CallsCurrent
<1>2. /\ c.kind = "object" /\ c.index = step.index /\ c.memo = objects /\ c.mode = "memoized"
      /\ c.path = Path(n + 1)
  BY <1>1 DEF AskedCall, ObjectCall
<1>3. Len(c.path) = n /\ \A k \in 1 .. n : c.path[k] = stack[k].off
  <2>1. n + 1 \in Nat \ {0}
    OBVIOUS
  <2>2. Len(PathIn(stack, n + 1)) = n + 1 - 1
    BY <2>1, PathExtended
  <2>3. \A k \in 1 .. n : PathIn(stack, n + 1)[k] = stack[k].off
    BY DEF PathIn
  <2> QED BY <1>2, <2>2, <2>3 DEF Path
<1>4. ASSUME NEW off PROVE IsBelow(c, off) <=> IsOpen(off)
  BY <1>3 DEF IsBelow, IsOpen
<1> QED BY <1>2, <1>3, <1>4

(* The step that ends in an error. *)
LEMMA FailureAnswered ==
  ASSUME doc' = doc, NEW kind, step' = Error(kind),
         Returns(doc, WholeCall(doc, "memoized"), Outcome(objects', step'))
  PROVE  RecursionInv'
<1>1. Returned'
  BY DEF Returned, Error
<1> QED BY <1>1 DEF RecursionInv

LEMMA ResolveFails ==
  ASSUME IInv, step.op = "Resolve", NEW kind, Fail(kind), NEW began, CallsOpen(began),
         NEW c, c = AskedCall(began, "memoized"), c.kind = "object", ~ Enters(doc, c),
         ObjectAnswer(doc, c) = Outcome(objects, Error(kind))
  PROVE  RecursionInv'
<1> PICK e : e = Outcome(objects, Error(kind))
  OBVIOUS
<1>1. Failed(e)
  BY DEF Failed, Outcome, Error
<1>2. Returns(doc, c, e)
  BY AnswerRule
<1>3. Returns(doc, WholeCall(doc, "memoized"), e)
  BY <1>1, <1>2, AskedErrorPassed
<1>4. doc' = doc /\ step' = Error(kind) /\ objects' = objects
  BY DEF Fail
<1> QED BY <1>3, <1>4, FailureAnswered

(* The step that has a value of the object being resolved. *)
LEMMA ResolveAnswers ==
  ASSUME IInv, step.op = "Resolve", NEW began, CallsOpen(began),
         NEW c, c = AskedCall(began, "memoized"), c.kind = "object", ~ Enters(doc, c),
         NEW v, UNCHANGED <<doc, stack>>, step' = Deliver(v),
         ObjectAnswer(doc, c) = Outcome(objects', Return(v))
  PROVE  RecursionInv'
<1> PICK n \in Nat : n = Len(stack)
  BY SequenceFacts DEF IInv, TypeOK
<1>1. Returns(doc, c, Outcome(objects', Return(v)))
  BY AnswerRule
<1>2. CallsOpen(began)' /\ AskedCall(began, "memoized")' = c
  BY CallsOpenKept
<1>3. step'.op = "Deliver" /\ step'.value = v
  BY DEF Deliver
<1>4. CallsCurrent(began)'
  BY <1>1, <1>2, <1>3 DEF CallsCurrent
<1>5. ~ Returned'
  BY <1>3 DEF Returned
<1> QED BY <1>2, <1>4, <1>5 DEF RecursionInv

(* The early returns of resolve_step and open_container. *)
LEMMA ResolveRecursion ==
  ASSUME IInv, RecursionInv,
         \/ ResolveInvalid \/ ResolveMemoized \/ ResolveUnreadable \/ ResolveBeyondTable
         \/ ResolveScalar \/ OpenTooDeep \/ OpenSelfReferential \/ OpenOutOfBounds
  PROVE  RecursionInv'
<1>1. step.op = "Resolve"
  BY DEF ResolveInvalid, ResolveMemoized, ResolveUnreadable, ResolveBeyondTable, ResolveScalar,
         OpenTooDeep, OpenSelfReferential, OpenOutOfBounds, AtContainer, Unread
<1>2. PICK began : CallsOpen(began) /\ CallsCurrent(began)
  BY <1>1 DEF RecursionInv, Returned
<1> PICK n \in Nat : n = Len(stack)
  BY SequenceFacts DEF IInv, TypeOK
<1> PICK c : c = AskedCall(began, "memoized")
  OBVIOUS
<1> PICK i : i = step.index
  OBVIOUS
<1>3. /\ c.kind = "object" /\ c.index = i /\ c.memo = objects /\ c.mode = "memoized"
      /\ Len(c.path) = n
      /\ \A off : IsBelow(c, off) <=> IsOpen(off)
  BY <1>1, <1>2, AskedCallFacts
<1>4. AtCap <=> ~ (Len(c.path) < MaxParseDepth)
  BY <1>3, MaxParseDepthAssumption DEF AtCap
<1>5. CASE ResolveInvalid
  <2>1. ~ Enters(doc, c) /\ ObjectAnswer(doc, c) = Outcome(objects, Error("InvalidObject"))
    BY <1>3, <1>5 DEF ResolveInvalid, Enters, HasMarker, ObjectAnswer
  <2> QED BY <1>1, <1>2, <1>3, <1>5, <2>1, ResolveFails DEF ResolveInvalid
<1>6. CASE ResolveMemoized
  <2>1. i \in DOMAIN objects /\ i \in Indices(doc)
    BY <1>6 DEF ResolveMemoized, IInv, TypeOK
  <2>2. ~ Enters(doc, c) /\ ObjectAnswer(doc, c) = Outcome(objects, Return(objects[i]))
    BY <1>3, <2>1 DEF Enters, ObjectAnswer
  <2>3. UNCHANGED <<doc, stack>> /\ step' = Deliver(objects[i]) /\ objects' = objects
    BY <1>6 DEF ResolveMemoized
  <2> QED BY <1>1, <1>2, <1>3, <2>2, <2>3, ResolveAnswers
<1>7. CASE ResolveUnreadable
  <2>1. ~ doc.entrySizeLegal /\ i \in Indices(doc) /\ i \notin DOMAIN objects
    BY <1>7 DEF ResolveUnreadable, Unread
  <2>2. ~ Enters(doc, c) /\ ObjectAnswer(doc, c) = Outcome(objects, Error("IllegalIntegerSize"))
    BY <1>3, <2>1 DEF Enters, HasMarker, ObjectAnswer
  <2> QED BY <1>1, <1>2, <1>3, <1>7, <2>2, ResolveFails DEF ResolveUnreadable
<1>8. CASE ResolveBeyondTable
  <2>1. /\ doc.entrySizeLegal /\ i \in Indices(doc) /\ i \notin DOMAIN objects
        /\ doc.offset[i] \notin Offsets(doc)
    BY <1>8 DEF ResolveBeyondTable, Unread
  <2>2. ~ Enters(doc, c) /\ ObjectAnswer(doc, c) = Outcome(objects, Error("BeyondTable"))
    BY <1>3, <2>1 DEF Enters, HasMarker, ObjectAnswer
  <2> QED BY <1>1, <1>2, <1>3, <1>8, <2>2, ResolveFails DEF ResolveBeyondTable
<1>9. CASE ResolveScalar
  <2>1. /\ i \in Indices(doc) /\ i \notin DOMAIN objects
        /\ doc.entrySizeLegal /\ doc.offset[i] \in Offsets(doc)
        /\ ~ IsContainer(Marker(doc, i))
    BY <1>9 DEF ResolveScalar, Unread, HasMarker
  <2>2. ~ Enters(doc, c)
    BY <1>3, <2>1 DEF Enters
  <2>3. CASE Marker(doc, i).sound
    <3> PICK v : v = Marker(doc, i).value
      OBVIOUS
    <3>1. UNCHANGED <<doc, stack>> /\ step' = Deliver(v) /\ objects' = With(objects, i, v)
      BY <1>9, <2>3 DEF ResolveScalar, memoize
    <3>2. ObjectAnswer(doc, c) = Outcome(objects', Return(v))
      BY <1>3, <2>1, <2>3, <3>1 DEF ObjectAnswer, Finish
    <3> QED BY <1>1, <1>2, <1>3, <2>2, <3>1, <3>2, ResolveAnswers
  <2>4. CASE ~ Marker(doc, i).sound
    <3>1. ObjectAnswer(doc, c) = Outcome(objects, Error("BadScalar"))
      BY <1>3, <2>1, <2>4 DEF ObjectAnswer
    <3>2. Fail("BadScalar")
      BY <1>9, <2>4 DEF ResolveScalar
    <3> QED BY <1>1, <1>2, <1>3, <2>2, <3>1, <3>2, ResolveFails
  <2> QED BY <2>3, <2>4
<1>10. ASSUME AtContainer
       PROVE  /\ i \in Indices(doc) /\ i \notin DOMAIN objects
              /\ doc.entrySizeLegal /\ doc.offset[i] \in Offsets(doc)
              /\ IsContainer(Marker(doc, i))
  BY <1>10 DEF AtContainer, Unread, HasMarker
<1>11. CASE OpenTooDeep
  <2>1. AtContainer /\ ~ (Len(c.path) < MaxParseDepth) /\ Len(c.path) >= MaxParseDepth
    BY <1>3, <1>4, <1>11, MaxParseDepthAssumption DEF OpenTooDeep
  <2>2. ~ Enters(doc, c) /\ ObjectAnswer(doc, c) = Outcome(objects, Error("MaxDepthExceeded"))
    BY <1>3, <1>10, <2>1 DEF Enters, ObjectAnswer
  <2> QED BY <1>1, <1>2, <1>3, <1>11, <2>2, ResolveFails DEF OpenTooDeep
<1>12. CASE OpenSelfReferential
  <2>1. AtContainer /\ ~ (Len(c.path) >= MaxParseDepth) /\ IsBelow(c, doc.offset[i])
    BY <1>3, <1>4, <1>12, MaxParseDepthAssumption DEF OpenSelfReferential
  <2>2. ~ Enters(doc, c) /\ ObjectAnswer(doc, c) = Outcome(objects, Error("SelfReferential"))
    BY <1>3, <1>10, <2>1 DEF Enters, ObjectAnswer
  <2> QED BY <1>1, <1>2, <1>3, <1>12, <2>2, ResolveFails DEF OpenSelfReferential
<1>13. CASE OpenOutOfBounds
  <2>1. /\ AtContainer /\ ~ (Len(c.path) >= MaxParseDepth) /\ ~ IsBelow(c, doc.offset[i])
        /\ ~ Marker(doc, i).sound
    BY <1>3, <1>4, <1>13, MaxParseDepthAssumption DEF OpenOutOfBounds
  <2>2. ~ Enters(doc, c) /\ ObjectAnswer(doc, c) = Outcome(objects, Error("BadContainer"))
    BY <1>3, <1>10, <2>1 DEF Enters, ObjectAnswer
  <2> QED BY <1>1, <1>2, <1>3, <1>13, <2>2, ResolveFails DEF OpenOutOfBounds
<1> QED BY <1>5, <1>6, <1>7, <1>8, <1>9, <1>11, <1>12, <1>13

LEMMA OpenRecursion ==
  ASSUME IInv, RecursionInv, OpenContainer
  PROVE  RecursionInv'
<1>1. step.op = "Resolve" /\ AtContainer
  BY DEF OpenContainer, AtContainer, Unread
<1>2. PICK began : CallsOpen(began) /\ CallsCurrent(began)
  BY <1>1 DEF RecursionInv, Returned
<1> PICK n \in Nat : n = Len(stack)
  BY SequenceFacts DEF IInv, TypeOK
<1> PICK i : i = step.index
  OBVIOUS
<1> PICK off : off = doc.offset[i]
  OBVIOUS
<1> PICK f : f = Frame(off, i)
  OBVIOUS
<1> PICK c : c = AskedCall(began, "memoized")
  OBVIOUS
<1> PICK later : later = [k \in 1 .. n + 2 |-> IF k <= n + 1 THEN began[k] ELSE objects]
  OBVIOUS
<1>3. (\A k \in 1 .. n + 1 : later[k] = began[k]) /\ later[n + 2] = objects /\ later[1] = << >>
  BY <1>2 DEF CallsOpen
<1>4. /\ IsSequence(stack') /\ Len(stack') = n + 1
      /\ \A d \in 1 .. n : stack'[d] = stack[d]
      /\ stack'[n + 1] = f
  <2>1. IsSequence(stack) /\ stack' = Extended(stack, f)
    BY DEF IInv, TypeOK, OpenContainer, Extended
  <2> QED BY <2>1, AppendSequence
<1>5. doc' = doc /\ objects' = objects /\ step' = Advance
  BY DEF OpenContainer
<1>6. /\ c.kind = "object" /\ c.index = i /\ c.memo = objects /\ c.mode = "memoized"
      /\ c.path = Path(n + 1) /\ Len(c.path) = n
      /\ \A o : IsBelow(c, o) <=> IsOpen(o)
  BY <1>1, <1>2, AskedCallFacts
<1>7. Enters(doc, c)
  <2>1. Len(c.path) < MaxParseDepth
    BY <1>6, MaxParseDepthAssumption DEF OpenContainer, AtCap
  <2> QED BY <1>6, <2>1 DEF OpenContainer, AtContainer, Unread, Enters
<1>8. f.off = off /\ f.index = i /\ f.collected = << >>
  BY DEF Frame
<1>9. /\ \A d \in 1 .. n + 1 : Path(d)' = Path(d)
      /\ \A d \in 1 .. n : EnteredCall(d, later, "memoized")' = EnteredCall(d, began, "memoized")
      /\ \A d \in 1 .. n : ListingCall(d, later, "memoized")' = ListingCall(d, began, "memoized")
  <2>1. /\ \A k \in 1 .. n : stack'[k].off = stack[k].off /\ stack'[k].index = stack[k].index
        /\ \A k \in 1 .. n : later[k] = began[k]
        /\ \A k \in 1 .. n : stack'[k].collected = stack[k].collected /\ later[k + 1] = began[k + 1]
    BY <1>3, <1>4
  <2> QED BY <1>5, <2>1, CallsKept
<1>10. EnteredCall(n + 1, later, "memoized")' = c
  <2>1. Asked = i
    BY <1>1 DEF IInv, FramesLinked
  <2>2. stack'[n + 1].index = i /\ Path(n + 1)' = Path(n + 1) /\ later[n + 1] = began[n + 1]
    BY <1>3, <1>4, <1>8, <1>9
  <2>3. c = ObjectCall(i, Path(n + 1), began[n + 1], "memoized")
    BY <2>1 DEF AskedCall
  <2> QED BY <2>2, <2>3 DEF EnteredCall
<1>11. ListingCall(n + 1, later, "memoized")' = ContentsCall(doc, c)
  <2>1. Refs(stack[n + 1])' = Marker(doc, i).refs
    BY <1>4, <1>5, <1>8 DEF Refs, Marker
  <2>2. PathIn(stack', n + 1 + 1) = Append(Path(n + 1), off)
    <3>1. n + 1 \in Nat \ {0}
      OBVIOUS
    <3>2. Append(PathIn(stack', n + 1), stack'[n + 1].off) = PathIn(stack', n + 1 + 1)
      BY <3>1, PathExtended
    <3>3. PathIn(stack', n + 1) = Path(n + 1)
      <4>1. n + 1 \in 1 .. n + 1
        OBVIOUS
      <4>2. Path(n + 1)' = Path(n + 1)
        BY <1>9, <4>1
      <4> QED BY <4>2 DEF Path
    <3> QED BY <1>4, <1>8, <3>2, <3>3
  <2>3. n + 1 + 1 = n + 2
    OBVIOUS
  <2>4. Path(n + 2)' = Append(Path(n + 1), off)
    BY <2>2, <2>3 DEF Path
  <2>5. /\ Path(n + 1 + 1)' = Append(Path(n + 1), off)
        /\ later[n + 1 + 1] = objects
        /\ stack'[n + 1].collected = << >>
    BY <1>3, <1>4, <1>8, <2>3, <2>4
  <2> QED BY <1>6, <2>1, <2>5 DEF ListingCall, ContentsCall
<1>12. ASSUME NEW d \in 1 .. n + 1
       PROVE  Leads(EnteredCall(d, later, "memoized"), ListingCall(d, later, "memoized"))'
  <2>1. CASE d \in 1 .. n
    <3>1. Leads(EnteredCall(d, began, "memoized"), ListingCall(d, began, "memoized"))
      BY <1>2, <2>1 DEF CallsOpen
    <3> QED BY <1>5, <1>9, <2>1, <3>1, LeadsKept
  <2>2. CASE d = n + 1
    <3>1. Leads(c, ContentsCall(doc, c))
      BY <1>6, <1>7, ContainerRule DEF Leads
    <3> QED BY <1>5, <1>10, <1>11, <2>2, <3>1, LeadsKept
  <2> QED BY <2>1, <2>2
<1>13. ASSUME NEW d \in 1 .. n + 1, Awaiting(d)' PROVE doc'.refSizeLegal
  <2>1. d < n + 1
    BY <1>4, <1>5, <1>13 DEF Awaiting, Advance
  <2>2. d \in 1 .. Len(stack) /\ Awaiting(d)
    BY <1>1, <2>1 DEF Awaiting
  <2> QED BY <1>2, <1>5, <2>2 DEF CallsOpen
<1>14. CallsOpen(later)'
  BY <1>3, <1>4, <1>12, <1>13 DEF CallsOpen
<1>15. CallsCurrent(later)'
  <2>1. step'.op = "Advance" /\ Len(stack') + 1 = n + 2
    BY <1>4, <1>5 DEF Advance
  <2> QED BY <1>3, <1>5, <2>1 DEF CallsCurrent
<1>16. ~ Returned'
  BY <1>5 DEF Returned, Advance
<1> QED BY <1>14, <1>15, <1>16 DEF RecursionInv

(* The top frame, and the call for the rest of its list. *)
LEMMA TopFrame ==
  ASSUME IInv, NEW n \in Nat, n = Len(stack), stack # << >>
  PROVE  /\ n \in 1 .. Len(stack) /\ n >= 1 /\ Top = stack[n] /\ FrameOK(stack[n])
         /\ Marker(doc, Top.index) = doc.region[Top.off]
         /\ Len(Top.collected) \in Nat /\ Len(Refs(Top)) \in Nat
         /\ Len(Top.collected) <= Len(Refs(Top))
<1>1. n \in 1 .. Len(stack) /\ n >= 1 /\ Top = stack[n] /\ FrameOK(stack[n])
  BY SequenceFacts DEF IInv, TypeOK, Top
<1>2. Refs(Top) \in Seq(Nat) /\ Marker(doc, Top.index) = doc.region[Top.off]
  BY <1>1 DEF IInv, TypeOK, FrameOK, Refs, IsDocument, HasMarker, Marker
<1>3. /\ Len(Top.collected) \in Nat /\ Len(Refs(Top)) \in Nat
      /\ Len(Top.collected) <= Len(Refs(Top))
  BY <1>1, <1>2, SequenceFacts, LenProperties DEF FrameOK
<1> QED BY <1>1, <1>2, <1>3

LEMMA ListingFields ==
  ASSUME NEW n, NEW began, NEW mode, NEW b, b = ListingCall(n, began, mode)
  PROVE  /\ b.kind # "object" /\ b.refs = Refs(stack[n]) /\ b.path = Path(n + 1)
         /\ b.memo = began[n + 1] /\ b.mode = mode /\ b.collected = stack[n].collected
BY DEF ListingCall, ListCall

LEMMA CloseRecursion ==
  ASSUME IInv, RecursionInv, CloseContainer
  PROVE  RecursionInv'
<1> PICK n \in Nat : n = Len(stack)
  BY SequenceFacts DEF IInv, TypeOK
<1>1. step.op = "Advance" /\ Complete(Top) /\ doc' = doc
  BY DEF CloseContainer
<1>2. PICK began : CallsOpen(began) /\ CallsCurrent(began)
  BY <1>1 DEF RecursionInv, Returned
<1> PICK f : f = Top
  OBVIOUS
<1> PICK b : b = ListingCall(n, began, "memoized")
  OBVIOUS
<1> PICK c : c = EnteredCall(n, began, "memoized")
  OBVIOUS
<1> PICK marker : marker = doc.region[f.off]
  OBVIOUS
<1> PICK v : v = Build(marker, f.collected)
  OBVIOUS
<1>3. stack # << >>
  BY ClosingFacts
<1>4. /\ n \in 1 .. Len(stack) /\ f = stack[n] /\ Marker(doc, f.index) = marker
      /\ b.kind # "object" /\ b.refs = Refs(f) /\ b.memo = began[n + 1]
      /\ b.collected = f.collected /\ Len(f.collected) = Len(Refs(f))
  <2>1. n \in 1 .. Len(stack) /\ f = stack[n] /\ Marker(doc, f.index) = marker
    BY <1>3, TopFrame
  <2>2. Len(Top.collected) = Len(Refs(Top))
    <3>1. /\ Len(Top.collected) \in Nat /\ Len(Refs(Top)) \in Nat
          /\ Len(Top.collected) <= Len(Refs(Top)) /\ Len(Top.collected) >= Len(Refs(Top))
      BY <1>1, <1>3, TopFrame DEF Complete
    <3> QED BY <3>1
  <2>3. /\ b.kind # "object" /\ b.refs = Refs(stack[n]) /\ b.memo = began[n + 1]
        /\ b.collected = stack[n].collected
    BY ListingFields
  <2> QED BY <2>1, <2>2, <2>3
<1>5. began[n + 1] = objects
  BY <1>1, <1>2 DEF CallsCurrent
<1> PICK o : o = Outcome(objects, Return(f.collected))
  OBVIOUS
<1>6. Returns(doc, b, o)
  <2>1. ~ Asks(doc, b) /\ ListAnswer(b) = o
    BY <1>4, <1>5 DEF Asks, ListAnswer
  <2> QED BY <1>4, <2>1, AnswerRule
<1>7. Returns(doc, c, Closed(doc, c, o))
  BY <1>2, <1>4, <1>6 DEF CallsOpen, Leads
<1>8. /\ c.index = f.index /\ c.mode = "memoized"
      /\ ~ Failed(o) /\ o.memo = objects /\ o.out.value = f.collected
  BY <1>4 DEF EnteredCall, ObjectCall, Failed, Outcome, Return
<1>9. CASE ~ Buildable(marker, f.collected)
  <2>1. step' = Error("NonStringKey") /\ objects' = objects
    BY <1>9 DEF CloseContainer
  <2> PICK e : e = Outcome(objects, Error("NonStringKey"))
    OBVIOUS
  <2>2. Closed(doc, c, o) = e
    BY <1>4, <1>8, <1>9 DEF Closed
  <2>3. Failed(e)
    BY DEF Failed, Outcome, Error
  <2>4. Returns(doc, WholeCall(doc, "memoized"), e)
    BY <1>1, <1>2, <1>4, <1>7, <2>2, <2>3, ErrorPassed
  <2> QED BY <1>1, <2>1, <2>4, FailureAnswered
<1>10. CASE Buildable(marker, f.collected)
  <2>1. objects' = With(objects, f.index, v) /\ step' = Deliver(v)
    BY <1>10 DEF CloseContainer, memoize
  <2>2. Closed(doc, c, o) = Outcome(objects', Return(v))
    BY <1>4, <1>8, <1>10, <2>1 DEF Closed, Finish
  <2>3. /\ IsSequence(stack') /\ Len(stack') = n - 1
        /\ \A d \in 1 .. n - 1 : stack'[d] = stack[d]
    <3>1. IsSequence(stack) /\ stack' = Popped(stack)
      BY DEF IInv, TypeOK, CloseContainer, Pop, Popped
    <3>2. /\ IsSequence(Popped(stack)) /\ Len(Popped(stack)) = Len(stack) - 1
          /\ \A k \in 1 .. Len(Popped(stack)) : Popped(stack)[k] = stack[k]
      BY <1>3, <3>1, PopSequence
    <3> QED BY <3>1, <3>2
  <2> PICK m \in Nat : m = n - 1
    BY <1>4
  <2>4. /\ \A d \in 1 .. m + 1 : Path(d)' = Path(d)
        /\ \A d \in 1 .. m : EnteredCall(d, began, "memoized")' = EnteredCall(d, began, "memoized")
        /\ \A d \in 1 .. m : ListingCall(d, began, "memoized")' = ListingCall(d, began, "memoized")
    <3>1. /\ \A k \in 1 .. m : stack'[k].off = stack[k].off /\ stack'[k].index = stack[k].index
          /\ \A k \in 1 .. m : began[k] = began[k]
          /\ \A k \in 1 .. m : stack'[k].collected = stack[k].collected /\ began[k + 1] = began[k + 1]
      BY <2>3
    <3>2. m \in Nat /\ doc' = doc
      BY <1>1
    <3> QED BY ONLY <3>1, <3>2, CallsKept
  <2>5. ASSUME NEW d \in 1 .. m
        PROVE  Leads(EnteredCall(d, began, "memoized"), ListingCall(d, began, "memoized"))'
    <3>1. Leads(EnteredCall(d, began, "memoized"), ListingCall(d, began, "memoized"))
      BY <1>2 DEF CallsOpen
    <3> QED BY <1>1, <2>4, <3>1, LeadsKept
  <2>6. ASSUME NEW d \in 1 .. m PROVE doc'.refSizeLegal
    <3>1. d \in 1 .. Len(stack) /\ Awaiting(d)
      BY DEF Awaiting
    <3> QED BY <1>1, <1>2, <3>1 DEF CallsOpen
  <2>7. CallsOpen(began)'
    BY <1>2, <2>3, <2>5, <2>6 DEF CallsOpen
  <2>8. AskedCall(began, "memoized")' = c
    <3>1. Asked' = f.index
      <4>1. DeliveredFaithful' /\ FramesLinked /\ IInv'
        BY CloseContainerIInv DEF IInv
      <4>2. CASE n = 1
        <5>1. stack' = << >>
          BY <2>3, <4>2, SequenceFacts
        <5>2. stack[1].index = doc.top
          BY <1>1, <1>3 DEF IInv, FramesLinked
        <5> QED BY <1>1, <1>4, <4>2, <5>1, <5>2 DEF Asked
      <4>3. CASE n # 1
        <5>1. m \in 1 .. Len(stack) - 1 /\ m + 1 = n /\ m \in 1 .. n - 1
          BY <1>4, <4>3
        <5>2. stack[m + 1].index = Refs(stack[m])[stack[m].refsRead]
          BY <1>1, <5>1 DEF IInv, FramesLinked
        <5>3. Top' = stack[m] /\ stack' # << >>
          BY <2>3, <5>1, SequenceFacts DEF Top
        <5>4. Refs(Top)' = Refs(stack[m])
          BY <1>1, <5>3 DEF Refs
        <5> QED BY <1>4, <5>1, <5>2, <5>3, <5>4 DEF Asked
      <4> QED BY <4>2, <4>3
    <3>2. Len(stack') + 1 = n /\ n \in 1 .. m + 1
      BY <1>4, <2>3
    <3>3. Path(n)' = Path(n)
      BY <2>4, <3>2
    <3> QED BY <1>4, <3>1, <3>2, <3>3 DEF AskedCall, EnteredCall
  <2>9. step'.op = "Deliver" /\ step'.value = v
    BY <2>1 DEF Deliver
  <2>10. CallsCurrent(began)'
    BY <1>1, <1>7, <2>2, <2>8, <2>9 DEF CallsCurrent
  <2>11. ~ Returned'
    BY <2>9 DEF Returned
  <2> QED BY <2>7, <2>10, <2>11 DEF RecursionInv
<1> QED BY <1>9, <1>10

(* A step that replaces the top frame and changes at most its children and *)
(* the memo of its list.                                                   *)
LEMMA TopReplaced ==
  ASSUME IInv, stack # << >>, NEW n \in Nat, n = Len(stack), NEW f,
         f.off = Top.off, f.index = Top.index,
         stack' = WithTop(f), UNCHANGED <<doc, objects>>,
         NEW began, CallsOpen(began), NEW later, \A k \in 1 .. n : later[k] = began[k],
         Leads(EnteredCall(n, began, "memoized"),
               ListCall(Refs(Top), Path(n + 1), later[n + 1], "memoized", f.collected)),
         doc.refSizeLegal
  PROVE  CallsOpen(later)' /\ Path(n + 1)' = Path(n + 1) /\ Len(stack') = n /\ stack'[n] = f
         /\ stack' # << >>
<1>1. /\ n >= 1
      /\ IsSequence(stack') /\ Len(stack') = n /\ stack' # << >>
      /\ \A d \in 1 .. n : d # n => stack'[d] = stack[d]
      /\ stack'[n] = f
      /\ \A d \in 1 .. n : Refs(stack[d])' = Refs(stack[d])
  BY WithTopFacts
<1>2. Top = stack[n]
  BY DEF Top
<1>3. /\ Path(n + 1)' = Path(n + 1)
      /\ \A d \in 1 .. n : EnteredCall(d, later, "memoized")' = EnteredCall(d, began, "memoized")
      /\ \A d \in 1 .. n :
           stack'[d].collected = stack[d].collected /\ later[d + 1] = began[d + 1] =>
             ListingCall(d, later, "memoized")' = ListingCall(d, began, "memoized")
  <2>1. \A k \in 1 .. n : stack'[k].off = stack[k].off /\ stack'[k].index = stack[k].index
    BY <1>1, <1>2
  <2>2. n + 1 \in 1 .. n + 1
    OBVIOUS
  <2> QED BY <2>1, <2>2, CallsKept
<1>4. ASSUME NEW d \in 1 .. n
      PROVE  Leads(EnteredCall(d, later, "memoized"), ListingCall(d, later, "memoized"))'
  <2>1. CASE d = n
    <3>1. ListingCall(n, later, "memoized")'
            = ListCall(Refs(Top), Path(n + 1), later[n + 1], "memoized", f.collected)
      <4>1. /\ Refs(stack[n])' = Refs(Top) /\ Path(n + 1)' = Path(n + 1)
            /\ stack'[n].collected = f.collected
        BY <1>1, <1>2, <1>3
      <4> QED BY ONLY <4>1 DEF ListingCall
    <3> QED BY <1>1, <1>3, <2>1, <3>1, LeadsKept
  <2>2. CASE d # n
    <3>1. stack'[d].collected = stack[d].collected /\ d + 1 \in 1 .. n
      BY <1>1, <2>2
    <3>2. ListingCall(d, later, "memoized")' = ListingCall(d, began, "memoized")
      BY <1>3, <3>1
    <3>3. Leads(EnteredCall(d, began, "memoized"), ListingCall(d, began, "memoized"))
      BY DEF CallsOpen
    <3> QED BY <1>3, <3>2, <3>3, LeadsKept
  <2> QED BY <2>1, <2>2
<1>5. later[1] = << >>
  BY <1>1 DEF CallsOpen
<1> QED BY <1>1, <1>3, <1>4, <1>5 DEF CallsOpen

LEMMA ReadRecursion ==
  ASSUME IInv, RecursionInv, ReadReference
  PROVE  RecursionInv'
<1> PICK n \in Nat : n = Len(stack)
  BY SequenceFacts DEF IInv, TypeOK
<1>1. step.op = "Advance" /\ stack # << >> /\ ~ Complete(Top)
  BY DEF IInv, TypeOK, StepOK, ReadReference, Resolve, Deliver, Return, Error
<1>2. PICK began : CallsOpen(began) /\ CallsCurrent(began)
  BY <1>1 DEF RecursionInv, Returned
<1> PICK b : b = ListingCall(n, began, "memoized")
  OBVIOUS
<1>3. /\ n \in 1 .. Len(stack) /\ Top = stack[n]
      /\ b.kind # "object" /\ b.refs = Refs(Top) /\ b.path = Path(n + 1)
      /\ b.memo = objects /\ b.collected = Top.collected
      /\ Len(Top.collected) # Len(Refs(Top))
  <2>1. Len(Top.collected) # Len(Refs(Top))
    <3>1. Len(Refs(Top)) \in Nat /\ ~ (Len(Top.collected) >= Len(Refs(Top)))
      BY <1>1, TopFrame DEF Complete
    <3> QED BY <3>1
  <2>2. began[n + 1] = objects
    BY <1>1, <1>2 DEF CallsCurrent
  <2>3. n \in 1 .. Len(stack) /\ Top = stack[n]
    BY <1>1, TopFrame
  <2>4. /\ b.kind # "object" /\ b.refs = Refs(stack[n]) /\ b.path = Path(n + 1)
        /\ b.memo = began[n + 1] /\ b.collected = stack[n].collected
    BY ListingFields
  <2> QED BY <2>1, <2>2, <2>3, <2>4
<1>4. CASE ~ doc.refSizeLegal
  <2>1. Fail("IllegalIntegerSize")
    BY <1>4 DEF ReadReference
  <2> PICK e : e = Outcome(objects, Error("IllegalIntegerSize"))
    OBVIOUS
  <2>2. ~ Asks(doc, b) /\ ListAnswer(b) = e
    BY <1>3, <1>4 DEF Asks, ListAnswer
  <2>3. Returns(doc, b, e)
    BY <1>3, <2>2, AnswerRule
  <2>4. Failed(e)
    BY DEF Failed, Outcome, Error
  <2>5. Returns(doc, WholeCall(doc, "memoized"), e)
    BY <1>1, <1>2, <1>3, <2>3, <2>4, ListErrorPassed
  <2>6. doc' = doc /\ step' = Error("IllegalIntegerSize") /\ objects' = objects
    BY <2>1 DEF Fail
  <2> QED BY <2>5, <2>6, FailureAnswered
<1>5. CASE doc.refSizeLegal
  <2> PICK f : f = [Top EXCEPT !.refsRead = @ + 1]
    OBVIOUS
  <2>1. /\ stack' = WithTop(f) /\ UNCHANGED <<doc, objects>>
        /\ step' = Resolve(Refs(Top)[Top.refsRead + 1])
    BY <1>5 DEF ReadReference
  <2>2. f.off = Top.off /\ f.index = Top.index /\ f.collected = Top.collected
    BY <1>1, TopFrame DEF FrameOK
  <2>3. Leads(EnteredCall(n, began, "memoized"),
              ListCall(Refs(Top), Path(n + 1), began[n + 1], "memoized", f.collected))
    BY <1>2, <1>3, <2>2 DEF CallsOpen, ListingCall
  <2>4. CallsOpen(began)' /\ Len(stack') = n
    BY <1>1, <1>2, <1>5, <2>1, <2>2, <2>3, TopReplaced
  <2>5. step'.op = "Resolve" /\ CallsCurrent(began)'
    BY <1>1, <1>2, <2>1, <2>4 DEF CallsCurrent, Resolve
  <2>6. ~ Returned'
    BY <2>5 DEF Returned
  <2> QED BY <2>4, <2>5, <2>6 DEF RecursionInv
<1> QED BY <1>4, <1>5

LEMMA DeliverRecursion ==
  ASSUME IInv, RecursionInv, DeliverToFrame
  PROVE  RecursionInv'
<1> PICK n \in Nat : n = Len(stack)
  BY SequenceFacts DEF IInv, TypeOK
<1> PICK v : v = step.value
  OBVIOUS
<1> PICK f : f = [Top EXCEPT !.collected = Append(@, v)]
  OBVIOUS
<1>1. /\ step.op = "Deliver" /\ stack # << >>
      /\ stack' = WithTop(f) /\ step' = Advance /\ UNCHANGED <<doc, objects>>
  BY DEF DeliverToFrame
<1>2. PICK began : CallsOpen(began) /\ CallsCurrent(began)
  BY <1>1 DEF RecursionInv, Returned
<1> PICK b : b = ListingCall(n, began, "memoized")
  OBVIOUS
<1> PICK p : p = Outcome(objects, Return(v))
  OBVIOUS
<1> PICK later : later = [k \in 1 .. n + 1 |-> IF k <= n THEN began[k] ELSE objects]
  OBVIOUS
<1>3. (\A k \in 1 .. n : later[k] = began[k]) /\ later[n + 1] = objects
  OBVIOUS
<1>4. /\ n \in 1 .. Len(stack) /\ n >= 1 /\ Top = stack[n]
      /\ b.kind # "object" /\ b.refs = Refs(Top) /\ b.path = Path(n + 1)
      /\ b.mode = "memoized" /\ b.collected = Top.collected
  <2>1. n \in 1 .. Len(stack) /\ n >= 1 /\ Top = stack[n]
    BY <1>1, TopFrame
  <2>2. /\ b.kind # "object" /\ b.refs = Refs(stack[n]) /\ b.path = Path(n + 1)
        /\ b.mode = "memoized" /\ b.collected = stack[n].collected
    BY ListingFields
  <2> QED BY <2>1, <2>2
<1>5. f.off = Top.off /\ f.index = Top.index /\ f.collected = Append(Top.collected, v)
  BY <1>1, TopFrame DEF FrameOK
<1>6. Asks(doc, b) /\ Returns(doc, ChildCall(b), p) /\ doc.refSizeLegal
  <2>1. Awaiting(n) /\ step.op # "Err"
    BY <1>1 DEF Awaiting
  <2>2. Asks(doc, b)
    BY <1>2, <1>4, <2>1, ParentAsks DEF CallsOpen
  <2>3. AskedCall(began, "memoized") = ChildCall(b)
    BY <1>1, <1>2, <1>4, <2>1, FrameCalls DEF CallsOpen
  <2>4. Returns(doc, AskedCall(began, "memoized"), p)
    BY <1>1, <1>2 DEF CallsCurrent
  <2> QED BY <2>2, <2>3, <2>4 DEF Asks
<1>7. ~ Failed(p) /\ p.memo = objects /\ p.out.value = v
  BY DEF Failed, Outcome, Return
<1>8. RestCall(b, p) = ListCall(Refs(Top), Path(n + 1), later[n + 1], "memoized", f.collected)
  BY <1>3, <1>4, <1>5, <1>7 DEF RestCall
<1>9. Leads(EnteredCall(n, began, "memoized"), RestCall(b, p))
  <2>1. \A o : Returns(doc, RestCall(b, p), o) => Returns(doc, b, o)
    BY <1>4, <1>6, <1>7, ListRule
  <2>2. Leads(EnteredCall(n, began, "memoized"), b)
    BY <1>2, <1>4 DEF CallsOpen
  <2> QED BY <2>1, <2>2 DEF Leads
<1>10. CallsOpen(later)' /\ Len(stack') = n
  <2>1. /\ IInv /\ n \in Nat /\ n = Len(stack)
        /\ Leads(EnteredCall(n, began, "memoized"),
                 ListCall(Refs(Top), Path(n + 1), later[n + 1], "memoized", f.collected))
    BY <1>8, <1>9
  <2>2. UNCHANGED <<doc, objects>> /\ stack # << >> /\ stack' = WithTop(f)
    BY <1>1
  <2>3. f.off = Top.off /\ f.index = Top.index /\ doc.refSizeLegal
    BY <1>5, <1>6
  <2> QED BY ONLY <1>2, <1>3, <2>1, <2>2, <2>3, TopReplaced
<1>11. step'.op = "Advance" /\ CallsCurrent(later)'
  BY <1>1, <1>3, <1>10 DEF CallsCurrent, Advance
<1>12. ~ Returned'
  BY <1>11 DEF Returned
<1> QED BY <1>10, <1>11, <1>12 DEF RecursionInv

LEMMA DeliverOutRecursion ==
  ASSUME IInv, RecursionInv, DeliverOut
  PROVE  RecursionInv'
<1>1. /\ step.op = "Deliver" /\ stack = << >> /\ step' = Return(step.value)
      /\ UNCHANGED <<doc, objects>>
  BY DEF DeliverOut
<1>2. PICK began : CallsOpen(began) /\ CallsCurrent(began)
  BY <1>1 DEF RecursionInv, Returned
<1>3. Len(stack) = 0
  BY <1>1, EmptySequence
<1>4. AskedCall(began, "memoized") = WholeCall(doc, "memoized")
  <2>1. step.op # "Err" /\ 0 \in Nat
    BY <1>1
  <2> QED BY <1>2, <1>3, <2>1, FrameCalls DEF CallsOpen
<1>5. Returns(doc, WholeCall(doc, "memoized"), Outcome(objects', step'))
  BY <1>1, <1>2, <1>4 DEF CallsCurrent
<1>6. Returned'
  BY <1>1 DEF Returned, Return
<1> QED BY <1>1, <1>5, <1>6 DEF RecursionInv

LEMMA RecursionStutter ==
  ASSUME IInv, RecursionInv, UNCHANGED vars
  PROVE  RecursionInv'
<1>1. UNCHANGED <<doc, objects, stack, step>>
  BY DEF vars
<1>2. CASE Returned
  BY <1>1, <1>2 DEF RecursionInv, Returned
<1>3. CASE ~ Returned
  <2>1. PICK began : CallsOpen(began) /\ CallsCurrent(began)
    BY <1>3 DEF RecursionInv
  <2>2. CallsOpen(began)' /\ CallsCurrent(began)'
    BY <1>1, <2>1 DEF CallsOpen, CallsCurrent, Leads, EnteredCall, ListingCall, AskedCall,
                     Path, PathIn, Refs, Awaiting, Asked, Top
  <2>3. ~ Returned'
    BY <1>1, <1>3 DEF Returned
  <2> QED BY <2>2, <2>3 DEF RecursionInv
<1> QED BY <1>2, <1>3

LEMMA NextRecursion ==
  ASSUME IInv, RecursionInv, [Next]_vars
  PROVE  RecursionInv'
<1>1. CASE Stop \/ UNCHANGED vars
  BY <1>1, RecursionStutter DEF Stop
<1> QED BY <1>1, ResolveRecursion, OpenRecursion, CloseRecursion, ReadRecursion,
           DeliverRecursion, DeliverOutRecursion DEF Next

(* resolve_object: the loop returns what the recursive traversal returns,  *)
(* the same value or the same error, and leaves the same memo, for every   *)
(* document and every cap: the claim of its comment (parser.rs:159-163),   *)
(* which MatchesRecursion checks on small documents.                       *)
THEOREM LoopIsRecursion ==
  Spec => [](Returned => Returns(doc, WholeCall(doc, "memoized"), Outcome(objects, step)))
<1>1. Init => RecursionInv
  BY RecursionInit
<1>2. IInv /\ RecursionInv /\ [Next]_vars => RecursionInv'
  BY NextRecursion
<1>3. RecursionInv => (Returned => Returns(doc, WholeCall(doc, "memoized"), Outcome(objects, step)))
  BY DEF RecursionInv
<1> QED BY <1>1, <1>2, <1>3, Invariance, PTL DEF Spec

-----------------------------------------------------------------------------
(***************************************************************************)
(* What the memo saves.  In the plain mode a finished object is resolved   *)
(* again wherever it is referred to, with the open containers there.  That *)
(* is the same value unless the cap is met, because no open container is   *)
(* below a finished object that is asked for: rank orders the finished     *)
(* objects by their offsets, each container above its children.            *)
(***************************************************************************)
Cap == Error("MaxDepthExceeded")

(* A plain call returns out or meets the cap, and finishes nothing. *)
Settles(d, c, out) == \A p : Returns(d, c, p) => p.memo = << >> /\ p.out \in {out, Cap}

IsPlain(c) == c.mode = "plain" /\ c.memo = << >>

ClosedOut(d, c, out) == Closed(d, c, Outcome(<< >>, out)).out

LEMMA OutcomeFields ==
  ASSUME NEW memo, NEW out
  PROVE  Outcome(memo, out).memo = memo /\ Outcome(memo, out).out = out
BY DEF Outcome

LEMMA ObjectAnswerSettles ==
  ASSUME NEW d, NEW c, NEW out, c.kind = "object", ~ Enters(d, c),
         ObjectAnswer(d, c).out \in {out, Cap}, ObjectAnswer(d, c).memo = << >>
  PROVE  Settles(d, c, out)
<1>1. ASSUME NEW p, Returns(d, c, p) PROVE p = ObjectAnswer(d, c)
  BY <1>1, RuleUsed
<1> QED BY <1>1 DEF Settles

LEMMA ListAnswerSettles ==
  ASSUME NEW d, NEW c, NEW out, c.kind # "object", ~ Asks(d, c),
         ListAnswer(c).out = out, ListAnswer(c).memo = << >>
  PROVE  Settles(d, c, out)
<1>1. ASSUME NEW p, Returns(d, c, p) PROVE p = ListAnswer(c)
  BY <1>1, RuleUsed
<1> QED BY <1>1 DEF Settles

LEMMA ContainerSettles ==
  ASSUME NEW d, NEW c, c.kind = "object", IsPlain(c), Enters(d, c),
         NEW out, Settles(d, ContentsCall(d, c), out)
  PROVE  Settles(d, c, ClosedOut(d, c, out))
<1> SUFFICES ASSUME NEW p, Returns(d, c, p)
             PROVE  p.memo = << >> /\ p.out \in {ClosedOut(d, c, out), Cap}
  BY DEF Settles
<1>1. PICK q : Returns(d, ContentsCall(d, c), q) /\ p = Closed(d, c, q)
  BY RuleUsed
<1>2. q.memo = << >> /\ q.out \in {out, Cap}
  BY <1>1 DEF Settles
<1> PICK r : r = Outcome(<< >>, out)
  OBVIOUS
<1>3. r.memo = << >> /\ r.out = out
  BY OutcomeFields
<1>4. CASE Failed(q)
  <2>1. p = q
    BY <1>1, <1>4 DEF Closed
  <2>2. CASE q.out = Cap
    BY <1>2, <2>1, <2>2
  <2>3. CASE q.out = out
    <3>1. Failed(r)
      BY <1>3, <1>4, <2>3 DEF Failed
    <3>2. ClosedOut(d, c, out) = out
      BY <1>3, <3>1 DEF ClosedOut, Closed
    <3> QED BY <1>2, <2>1, <2>3, <3>2
  <2> QED BY <1>2, <2>2, <2>3
<1>5. CASE ~ Failed(q)
  <2>1. q.out = out
    BY <1>2, <1>5 DEF Failed, Cap, Error
  <2>2. ~ Failed(r)
    BY <1>3, <1>5, <2>1 DEF Failed
  <2> PICK v : v = Build(Marker(d, c.index), out.value)
    OBVIOUS
  <2>3. CASE Buildable(Marker(d, c.index), out.value)
    <3>1. p = Outcome(<< >>, Return(v))
      BY <1>1, <1>2, <1>5, <2>1, <2>3 DEF Closed, Finish, IsPlain
    <3>2. ClosedOut(d, c, out) = Return(v)
      BY <1>3, <2>2, <2>3, OutcomeFields DEF ClosedOut, Closed, Finish, IsPlain
    <3> QED BY <3>1, <3>2, OutcomeFields
  <2>4. CASE ~ Buildable(Marker(d, c.index), out.value)
    <3>1. p = Outcome(<< >>, Error("NonStringKey"))
      BY <1>1, <1>2, <1>5, <2>1, <2>4 DEF Closed
    <3>2. ClosedOut(d, c, out) = Error("NonStringKey")
      BY <1>3, <2>2, <2>4, OutcomeFields DEF ClosedOut, Closed
    <3> QED BY <3>1, <3>2, OutcomeFields
  <2> QED BY <2>3, <2>4
<1> QED BY <1>4, <1>5

LEMMA ListSettles ==
  ASSUME NEW d, NEW c, c.kind # "object", IsPlain(c), Asks(d, c),
         NEW out, Settles(d, ChildCall(c), out)
  PROVE  /\ out.op = "Err" => Settles(d, c, out)
         /\ \A fin : Settles(d, ListCall(c.refs, c.path, << >>, "plain",
                                         Append(c.collected, out.value)), fin)
              => out.op = "Err" \/ Settles(d, c, fin)
<1>1. ASSUME NEW p, Returns(d, c, p)
      PROVE  \E q : /\ q.memo = << >> /\ q.out \in {out, Cap}
                    /\ IF Failed(q) THEN p = q ELSE Returns(d, RestCall(c, q), p)
  <2>1. PICK q : /\ Returns(d, ChildCall(c), q)
                 /\ IF Failed(q) THEN p = q ELSE Returns(d, RestCall(c, q), p)
    BY <1>1, RuleUsed
  <2> QED BY <2>1 DEF Settles
<1>2. ASSUME out.op = "Err" PROVE Settles(d, c, out)
  <2> SUFFICES ASSUME NEW p, Returns(d, c, p) PROVE p.memo = << >> /\ p.out \in {out, Cap}
    BY DEF Settles
  <2>1. PICK q : /\ q.memo = << >> /\ q.out \in {out, Cap}
                 /\ IF Failed(q) THEN p = q ELSE Returns(d, RestCall(c, q), p)
    BY <1>1
  <2>2. Failed(q)
    BY <1>2, <2>1 DEF Failed, Cap, Error
  <2> QED BY <2>1, <2>2
<1>3. ASSUME NEW fin, out.op # "Err",
             Settles(d, ListCall(c.refs, c.path, << >>, "plain",
                                 Append(c.collected, out.value)), fin)
      PROVE  Settles(d, c, fin)
  <2> SUFFICES ASSUME NEW p, Returns(d, c, p) PROVE p.memo = << >> /\ p.out \in {fin, Cap}
    BY DEF Settles
  <2>1. PICK q : /\ q.memo = << >> /\ q.out \in {out, Cap}
                 /\ IF Failed(q) THEN p = q ELSE Returns(d, RestCall(c, q), p)
    BY <1>1
  <2>2. CASE Failed(q)
    BY <1>3, <2>1, <2>2 DEF Failed
  <2>3. CASE ~ Failed(q)
    <3>1. q.out = out
      BY <2>1, <2>3 DEF Failed, Cap, Error
    <3>2. RestCall(c, q) = ListCall(c.refs, c.path, << >>, "plain", Append(c.collected, out.value))
      BY <2>1, <3>1 DEF RestCall, IsPlain
    <3> QED BY <1>3, <2>1, <2>3, <3>2 DEF Settles
  <2> QED BY <2>2, <2>3
<1> QED BY <1>2, <1>3

(* The rank of a finished object is below bound and above those of its     *)
(* children, and its references, if it has any, could be read.             *)
RankOK(d, rank, bound, i) ==
  /\ rank[d.offset[i]] \in 0 .. bound - 1
  /\ IsContainer(Marker(d, i)) =>
       /\ \A k \in 1 .. Len(Marker(d, i).refs) :
            rank[d.offset[Marker(d, i).refs[k]]] < rank[d.offset[i]]
       /\ Len(Marker(d, i).refs) # 0 => d.refSizeLegal

RankedBy(d, memo, rank, bound) ==
  bound \in Nat /\ \A i \in DOMAIN memo : RankOK(d, rank, bound, i)

Ranked(d, memo) == \E rank, bound : RankedBy(d, memo, rank, bound)

(* An object whose children are finished can be finished above them: where *)
(* another object has the same marker it has its rank.                     *)
LEMMA RankedWith ==
  ASSUME NEW d, IsDocument(d), NEW memo, DOMAIN memo \subseteq Indices(d), Ranked(d, memo),
         FaithfulMemo(d, memo), NEW i \in Indices(d), HasMarker(d, i),
         IsContainer(Marker(d, i)) =>
           /\ AllIn(Marker(d, i).refs, DOMAIN memo)
           /\ Len(Marker(d, i).refs) # 0 => d.refSizeLegal,
         NEW v
  PROVE  Ranked(d, With(memo, i, v))
<1>1. PICK rank, bound : RankedBy(d, memo, rank, bound)
  BY DEF Ranked
<1>2. DOMAIN With(memo, i, v) = DOMAIN memo \cup {i}
  BY DEF With
<1>3. CASE \E j \in DOMAIN memo : d.offset[j] = d.offset[i]
  <2>1. PICK j \in DOMAIN memo : d.offset[j] = d.offset[i]
    BY <1>3
  <2>2. RankOK(d, rank, bound, j) /\ Marker(d, j) = Marker(d, i)
    BY <1>1, <2>1 DEF RankedBy, Marker
  <2>3. RankOK(d, rank, bound, i)
    BY <2>1, <2>2 DEF RankOK
  <2> QED BY <1>1, <1>2, <2>3 DEF RankedBy, Ranked
<1>4. CASE \A j \in DOMAIN memo : d.offset[j] # d.offset[i]
  <2> PICK q : q = d.offset[i]
    OBVIOUS
  <2> PICK higher : higher = [o \in DOMAIN rank \cup {q} \cup {d.offset[j] : j \in DOMAIN memo} |->
                                IF o = q THEN bound ELSE rank[o]]
    OBVIOUS
  <2>1. higher[q] = bound /\ \A j \in DOMAIN memo : higher[d.offset[j]] = rank[d.offset[j]]
    BY <1>4
  <2>2. bound \in Nat /\ \A j \in DOMAIN memo : RankOK(d, rank, bound, j)
    BY <1>1 DEF RankedBy
  <2>3. ASSUME NEW j \in DOMAIN memo PROVE RankOK(d, higher, bound + 1, j)
    <3>1. RankOK(d, rank, bound, j) /\ higher[d.offset[j]] = rank[d.offset[j]]
      BY <2>1, <2>2
    <3>2. IsContainer(Marker(d, j)) => AllIn(Marker(d, j).refs, DOMAIN memo)
      BY DEF FaithfulMemo, Solvable
    <3>3. rank[d.offset[j]] \in 0 .. (bound + 1) - 1
      BY <2>2, <3>1 DEF RankOK
    <3>4. ASSUME IsContainer(Marker(d, j)), NEW k \in 1 .. Len(Marker(d, j).refs)
          PROVE  higher[d.offset[Marker(d, j).refs[k]]] < higher[d.offset[j]]
      <4>1. Marker(d, j).refs[k] \in DOMAIN memo
        BY <3>2, <3>4 DEF AllIn
      <4>2. rank[d.offset[Marker(d, j).refs[k]]] < rank[d.offset[j]]
        BY <3>1, <3>4 DEF RankOK
      <4> QED BY <2>1, <3>1, <4>1, <4>2
    <3>5. IsContainer(Marker(d, j)) /\ Len(Marker(d, j).refs) # 0 => d.refSizeLegal
      BY <3>1 DEF RankOK
    <3>6. higher[d.offset[j]] \in 0 .. (bound + 1) - 1
      BY <3>1, <3>3
    <3>7. IsContainer(Marker(d, j)) =>
            /\ \A k \in 1 .. Len(Marker(d, j).refs) :
                 higher[d.offset[Marker(d, j).refs[k]]] < higher[d.offset[j]]
            /\ Len(Marker(d, j).refs) # 0 => d.refSizeLegal
      BY ONLY <3>4, <3>5
    <3> QED BY ONLY <3>6, <3>7, Zenon DEF RankOK
  <2>4. RankOK(d, higher, bound + 1, i)
    <3>1. bound \in 0 .. (bound + 1) - 1
      BY <2>2
    <3>2. ASSUME IsContainer(Marker(d, i)), NEW k \in 1 .. Len(Marker(d, i).refs)
          PROVE  higher[d.offset[Marker(d, i).refs[k]]] < bound
      <4>1. Marker(d, i).refs[k] \in DOMAIN memo
        BY <3>2 DEF AllIn
      <4>2. rank[d.offset[Marker(d, i).refs[k]]] \in 0 .. bound - 1
        BY <2>2, <4>1 DEF RankOK
      <4> QED BY <2>1, <2>2, <4>1, <4>2
    <3> QED BY <2>1, <3>1, <3>2 DEF RankOK
  <2>5. bound + 1 \in Nat
    BY <2>2
  <2> QED BY <1>2, <2>3, <2>4, <2>5 DEF RankedBy, Ranked
<1> QED BY <1>3, <1>4

(* A path on which no container is of the rank or below. *)
Above(d, memo, rank, path, i) ==
  \A k \in 1 .. Len(path) : \A j \in DOMAIN memo :
    d.offset[j] = path[k] => rank[d.offset[i]] < rank[path[k]]

(* If the objects of a list settle to their finished values, so does the   *)
(* list, whatever part of it has been collected.                           *)
LEMMA FinishedList ==
  ASSUME NEW d, NEW memo, NEW path, NEW refs, refs \in Seq(Nat), Len(refs) # 0 => d.refSizeLegal,
         \A k \in 1 .. Len(refs) :
           Settles(d, ObjectCall(refs[k], path, << >>, "plain"), Return(memo[refs[k]])),
         NEW total, total = [k \in 1 .. Len(refs) |-> memo[refs[k]]]
  PROVE  Settles(d, ListCall(refs, path, << >>, "plain", << >>), Return(total))
<1> PICK l \in Nat : l = Len(refs)
  BY LenProperties
<1> DEFINE Wrong(m) == \E s : /\ IsSequence(s) /\ Len(s) <= l /\ m = l - Len(s)
                              /\ \A k \in 1 .. Len(s) : s[k] = memo[refs[k]]
                              /\ ~ Settles(d, ListCall(refs, path, << >>, "plain", s), Return(total))
           T == {m \in Nat : Wrong(m)}
<1>1. SUFFICES ASSUME ~ Settles(d, ListCall(refs, path, << >>, "plain", << >>), Return(total))
               PROVE FALSE
  OBVIOUS
<1>2. l \in T
  <2>1. IsSequence(<< >>) /\ Len(<< >>) = 0
    BY EmptySequence
  <2>2. Wrong(l)
    <3>1. /\ l = l - Len(<< >>) /\ Len(<< >>) <= l
          /\ \A k \in 1 .. Len(<< >>) : << >>[k] = memo[refs[k]]
      BY <2>1
    <3> QED BY <1>1, <2>1, <3>1
  <2> QED BY <2>2
<1>3. PICK m \in T : \A j \in T : m <= j
  <2> HIDE DEF Wrong
  <2>1. T \in SUBSET Nat /\ T # {}
    BY <1>2
  <2> HIDE DEF T
  <2> QED BY <2>1, LeastNumber
<1>4. PICK s : /\ IsSequence(s) /\ Len(s) <= l /\ m = l - Len(s)
               /\ \A k \in 1 .. Len(s) : s[k] = memo[refs[k]]
               /\ ~ Settles(d, ListCall(refs, path, << >>, "plain", s), Return(total))
  BY <1>3
<1> PICK c : c = ListCall(refs, path, << >>, "plain", s)
  OBVIOUS
<1>5. c.kind # "object" /\ c.refs = refs /\ c.path = path /\ c.memo = << >> /\ c.mode = "plain"
      /\ c.collected = s
  BY DEF ListCall
<1> PICK n \in Nat : n = Len(s)
  BY <1>4, SequenceFacts
<1>6. CASE n = l
  <2>1. s = total
    <3>1. DOMAIN s = 1 .. l
      BY <1>4, <1>6, SequenceFacts
    <3>2. PICK S : s \in Seq(S)
      BY <1>4 DEF IsSequence
    <3>3. s \in [1 .. Len(s) -> S]
      BY <3>2, LenProperties
    <3>4. s = [k \in 1 .. l |-> s[k]]
      BY <1>6, <3>3
    <3> QED BY <1>4, <1>6, <3>4
  <2>2. ~ Asks(d, c) /\ ListAnswer(c).out = Return(total) /\ ListAnswer(c).memo = << >>
    BY <1>5, <1>6, <2>1, OutcomeFields DEF Asks, ListAnswer
  <2> QED BY <1>4, <1>5, <2>2, ListAnswerSettles
<1>7. CASE n # l
  <2>1. Asks(d, c)
    BY <1>4, <1>5, <1>7 DEF Asks
  <2>2. n + 1 \in 1 .. Len(refs)
    BY <1>4, <1>7
  <2> PICK v : v = memo[refs[n + 1]]
    OBVIOUS
  <2>3. Settles(d, ChildCall(c), Return(v))
    BY <1>5, <2>2 DEF ChildCall
  <2> PICK t : t = Extended(s, v)
    OBVIOUS
  <2>4. /\ IsSequence(t) /\ Len(t) = n + 1
        /\ \A k \in 1 .. n : t[k] = s[k]
        /\ t[n + 1] = v
    BY <1>4, AppendSequence
  <2>5. \A k \in 1 .. Len(t) : t[k] = memo[refs[k]]
    BY <1>4, <2>4
  <2>6. ~ Settles(d, ListCall(refs, path, << >>, "plain", t), Return(total))
    <3>1. Return(v).op # "Err" /\ Return(v).value = v
      BY DEF Return
    <3>2. IsPlain(c)
      BY <1>5 DEF IsPlain
    <3>3. Append(c.collected, Return(v).value) = t
      BY <1>5, <3>1 DEF Extended
    <3>4. \A fin : Settles(d, ListCall(refs, path, << >>, "plain", t), fin) => Settles(d, c, fin)
      <4>1. \A fin : Settles(d, ListCall(c.refs, c.path, << >>, "plain",
                                         Append(c.collected, Return(v).value)), fin)
                        => Return(v).op = "Err" \/ Settles(d, c, fin)
        BY <1>5, <2>1, <2>3, <3>2, ListSettles
      <4> QED BY <1>5, <3>1, <3>3, <4>1
    <3> QED BY <1>4, <3>4
  <2>7. l - (n + 1) \in Nat /\ l - (n + 1) < m /\ Len(t) <= l
    <3>1. n <= l /\ m = l - n
      BY <1>4
    <3> QED BY <1>7, <2>4, <3>1
  <2>8. l - (n + 1) \in T
    BY <2>4, <2>5, <2>6, <2>7
  <2>9. m <= l - (n + 1) /\ m \in Nat
    BY <1>3, <2>8
  <2> QED BY <2>7, <2>9
<1> QED BY <1>6, <1>7

(* Below containers of higher rank a finished object resolves to what it   *)
(* was finished with, or meets the cap.                                    *)
LEMMA FinishedSettles ==
  ASSUME NEW d, IsDocument(d), NEW memo, FaithfulMemo(d, memo), DOMAIN memo \subseteq Indices(d),
         NEW rank, NEW bound, RankedBy(d, memo, rank, bound),
         NEW i \in DOMAIN memo, NEW path, IsSequence(path), Above(d, memo, rank, path, i)
  PROVE  Settles(d, ObjectCall(i, path, << >>, "plain"), Return(memo[i]))
<1> DEFINE Wrong(m) == \E way : \E j \in DOMAIN memo :
             /\ IsSequence(way) /\ Above(d, memo, rank, way, j)
             /\ m = rank[d.offset[j]]
             /\ ~ Settles(d, ObjectCall(j, way, << >>, "plain"), Return(memo[j]))
           T == {m \in Nat : Wrong(m)}
<1>1. SUFFICES ASSUME ~ Settles(d, ObjectCall(i, path, << >>, "plain"), Return(memo[i]))
               PROVE FALSE
  OBVIOUS
<1>2. bound \in Nat /\ \A j \in DOMAIN memo : RankOK(d, rank, bound, j)
  BY DEF RankedBy
<1>3. \A j \in DOMAIN memo : rank[d.offset[j]] \in Nat
  BY <1>2 DEF RankOK
<1>4. PICK m \in T : \A o \in T : m <= o
  <2>1. Wrong(rank[d.offset[i]])
    BY <1>1
  <2> HIDE DEF Wrong
  <2>2. T \in SUBSET Nat /\ T # {}
    BY <1>3, <2>1
  <2> HIDE DEF T
  <2> QED BY <2>2, LeastNumber
<1>5. PICK way, j :
        /\ j \in DOMAIN memo /\ IsSequence(way) /\ Above(d, memo, rank, way, j)
        /\ m = rank[d.offset[j]]
        /\ ~ Settles(d, ObjectCall(j, way, << >>, "plain"), Return(memo[j]))
  BY <1>4
<1> PICK c : c = ObjectCall(j, way, << >>, "plain")
  OBVIOUS
<1> PICK marker : marker = Marker(d, j)
  OBVIOUS
<1>6. c.kind = "object" /\ c.index = j /\ c.path = way /\ c.memo = << >> /\ c.mode = "plain"
  BY DEF ObjectCall
<1>7. /\ j \in Indices(d) /\ HasMarker(d, j) /\ marker.sound
      /\ d.entrySizeLegal /\ d.offset[j] \in Offsets(d)
      /\ memo[j] = ValueOf(d, j, memo) /\ Solvable(d, j, memo)
      /\ RankOK(d, rank, bound, j)
  BY <1>2, <1>5 DEF FaithfulMemo, Solvable, HasMarker
<1>8. j \notin DOMAIN c.memo
  BY <1>6, EmptySequence
<1>9. CASE ~ IsContainer(marker)
  <2>1. ~ Enters(d, c)
    BY <1>6, <1>9 DEF Enters
  <2>2. ObjectAnswer(d, c) = Outcome(<< >>, Return(memo[j]))
    BY <1>6, <1>7, <1>8, <1>9 DEF ObjectAnswer, Finish, ValueOf
  <2>3. Settles(d, c, Return(memo[j]))
    BY <1>6, <2>1, <2>2, OutcomeFields, ObjectAnswerSettles
  <2> QED BY <1>5, <2>3
<1>10. CASE IsContainer(marker) /\ Len(way) >= MaxParseDepth
  <2>1. ~ Enters(d, c)
    <3>1. ~ (Len(way) < MaxParseDepth)
      BY <1>5, <1>10, SequenceFacts, MaxParseDepthAssumption
    <3> QED BY <1>6, <3>1 DEF Enters
  <2>2. ObjectAnswer(d, c) = Outcome(<< >>, Cap)
    BY <1>6, <1>7, <1>8, <1>10 DEF ObjectAnswer, Cap
  <2>3. Settles(d, c, Return(memo[j]))
    BY <1>6, <2>1, <2>2, OutcomeFields, ObjectAnswerSettles
  <2> QED BY <1>5, <2>3
<1>11. CASE IsContainer(marker) /\ ~ (Len(way) >= MaxParseDepth)
  <2>1. Len(way) \in Nat /\ Len(way) < MaxParseDepth
    BY <1>5, <1>11, SequenceFacts, MaxParseDepthAssumption
  <2>2. ~ IsBelow(c, d.offset[j])
    <3> SUFFICES ASSUME NEW k \in 1 .. Len(way), way[k] = d.offset[j] PROVE FALSE
      BY <1>6 DEF IsBelow
    <3>1. rank[d.offset[j]] < rank[way[k]]
      BY <1>5 DEF Above
    <3>2. rank[d.offset[j]] \in Nat
      BY <1>3, <1>5
    <3> QED BY <3>1, <3>2
  <2>3. Enters(d, c)
    BY <1>6, <1>7, <1>8, <1>11, <2>1, <2>2 DEF Enters
  <2> PICK below : below = Extended(way, d.offset[j])
    OBVIOUS
  <2> PICK refs : refs = marker.refs
    OBVIOUS
  <2>4. /\ IsSequence(below) /\ Len(below) = Len(way) + 1
        /\ \A k \in 1 .. Len(way) : below[k] = way[k]
        /\ below[Len(way) + 1] = d.offset[j]
    BY <1>5, AppendSequence
  <2>5. refs \in Seq(Nat) /\ AllIn(refs, DOMAIN memo) /\ (Len(refs) # 0 => d.refSizeLegal)
        /\ Buildable(marker, Children(marker, memo))
    BY <1>7, <1>11 DEF Solvable, RankOK, IsDocument, Marker
  <2>6. ASSUME NEW k \in 1 .. Len(refs)
        PROVE  Settles(d, ObjectCall(refs[k], below, << >>, "plain"), Return(memo[refs[k]]))
    <3> PICK r : r = refs[k]
      OBVIOUS
    <3>1. r \in DOMAIN memo /\ rank[d.offset[r]] < rank[d.offset[j]]
      BY <1>7, <1>11, <2>5 DEF AllIn, RankOK
    <3>2. rank[d.offset[r]] \in Nat /\ m \in Nat /\ rank[d.offset[r]] < m
      BY <1>3, <1>5, <3>1
    <3>3. Above(d, memo, rank, below, r)
      <4> SUFFICES ASSUME NEW h \in 1 .. Len(below), NEW x \in DOMAIN memo, d.offset[x] = below[h]
                   PROVE  rank[d.offset[r]] < rank[below[h]]
        BY DEF Above
      <4>1. CASE h = Len(way) + 1
        BY <2>4, <3>1, <4>1
      <4>2. CASE h # Len(way) + 1
        <5>1. h \in 1 .. Len(way) /\ below[h] = way[h]
          BY <2>1, <2>4, <4>2
        <5>2. rank[d.offset[j]] < rank[way[h]]
          BY <1>5, <5>1 DEF Above
        <5>3. rank[way[h]] \in Nat
          BY <1>3, <5>1
        <5>4. rank[d.offset[j]] \in Nat /\ rank[d.offset[r]] \in Nat
          BY <1>3, <1>5, <3>1
        <5> QED BY <3>1, <5>1, <5>2, <5>3, <5>4
      <4> QED BY <4>1, <4>2
    <3>4. ~ (rank[d.offset[r]] \in T)
      BY <1>4, <3>2
    <3> QED BY <2>4, <3>1, <3>2, <3>3, <3>4
  <2> PICK total : total = Children(marker, memo)
    OBVIOUS
  <2>7. total = [k \in 1 .. Len(refs) |-> memo[refs[k]]]
    BY DEF Children
  <2>8. ContentsCall(d, c) = ListCall(refs, below, << >>, "plain", << >>)
    BY <1>6 DEF ContentsCall, Extended
  <2> HIDE DEF T
  <2>9. Settles(d, ContentsCall(d, c), Return(total))
    <3>1. Settles(d, ListCall(refs, below, << >>, "plain", << >>), Return(total))
      BY ONLY <2>5, <2>6, <2>7, FinishedList
    <3> QED BY <2>8, <3>1
  <2>10. Settles(d, c, ClosedOut(d, c, Return(total)))
    BY <1>6, <2>3, <2>9, ContainerSettles DEF IsPlain
  <2>11. ClosedOut(d, c, Return(total)) = Return(memo[j])
    <3> PICK o : o = Outcome(<< >>, Return(total))
      OBVIOUS
    <3>1. ~ Failed(o) /\ o.out.value = total
      BY DEF Outcome, Return, Failed
    <3>2. memo[j] = Build(marker, total)
      BY <1>7, <1>11 DEF ValueOf
    <3> QED BY <1>6, <2>5, <3>1, <3>2, OutcomeFields DEF ClosedOut, Closed, Finish
  <2> QED BY <1>5, <2>10, <2>11
<1> QED BY <1>9, <1>10, <1>11

-----------------------------------------------------------------------------
(***************************************************************************)
(* The calls of the plain mode that the loop has open, one for each frame  *)
(* and one for the object it resolves, as in RecursionInv but without a    *)
(* memo: what the innermost settles to decides what all settle to.         *)
(***************************************************************************)
PlainEntered(d) == ObjectCall(stack[d].index, Path(d), << >>, "plain")
PlainListing(d) == ListCall(Refs(stack[d]), Path(d + 1), << >>, "plain", stack[d].collected)
PlainAsked      == ObjectCall(Asked, Path(Len(stack) + 1), << >>, "plain")

PlainLeads(c, b) ==
  \A out : Settles(doc, b, out) => Settles(doc, c, ClosedOut(doc, c, out))

PlainOpen ==
  \A d \in 1 .. Len(stack) :
    /\ PlainLeads(PlainEntered(d), PlainListing(d))
    /\ stack[d].refsRead # 0 => doc.refSizeLegal

PlainInv ==
  /\ Ranked(doc, objects)
  /\ ~ Returned => PlainOpen
  /\ step.op = "Deliver" => Settles(doc, PlainAsked, Return(step.value))
  /\ Returned => Settles(doc, WholeCall(doc, "plain"), step)

LEMMA PlainInit == Init => PlainInv
<1> SUFFICES ASSUME Init PROVE PlainInv
  OBVIOUS
<1>1. Len(stack) = 0 /\ objects = << >> /\ step.op = "Resolve"
  BY EmptySequence DEF Init, Resolve
<1>2. Ranked(doc, objects)
  <2> PICK rank : rank = << >>
    OBVIOUS
  <2>1. RankedBy(doc, objects, rank, 0)
    BY <1>1, EmptySequence DEF RankedBy
  <2> QED BY <2>1 DEF Ranked
<1> QED BY <1>1, <1>2 DEF PlainInv, PlainOpen, Returned

(* The plain calls are those of the chain with an empty memo everywhere.   *)
LEMMA PlainCalls ==
  ASSUME IInv, step.op # "Err", NEW n \in Nat, n = Len(stack)
  PROVE  /\ \A d \in 1 .. n - 1 : PlainEntered(d + 1) = ChildCall(PlainListing(d))
         /\ n >= 1 => PlainEntered(1) = WholeCall(doc, "plain")
         /\ n = 0 => PlainAsked = WholeCall(doc, "plain")
         /\ n >= 1 /\ step.op \in {"Resolve", "Deliver"} => PlainAsked = ChildCall(PlainListing(n))
<1> PICK nothing : nothing = [k \in Nat |-> << >>]
  OBVIOUS
<1> PICK plain : plain = "plain"
  OBVIOUS
<1>1. /\ \A d \in 1 .. n : /\ PlainEntered(d) = EnteredCall(d, nothing, plain)
                           /\ PlainListing(d) = ListingCall(d, nothing, plain)
      /\ PlainAsked = AskedCall(nothing, plain)
  <2>1. \A d \in 1 .. n : nothing[d] = << >> /\ nothing[d + 1] = << >>
    OBVIOUS
  <2>2. nothing[Len(stack) + 1] = << >>
    OBVIOUS
  <2> QED BY <2>1, <2>2 DEF PlainEntered, PlainListing, PlainAsked,
                             EnteredCall, ListingCall, AskedCall
<1>2. nothing[1] = << >>
  OBVIOUS
<1>3. /\ \A d \in 1 .. n - 1 :
           EnteredCall(d + 1, nothing, plain) = ChildCall(ListingCall(d, nothing, plain))
      /\ n >= 1 => EnteredCall(1, nothing, plain) = WholeCall(doc, plain)
      /\ n = 0 => AskedCall(nothing, plain) = WholeCall(doc, plain)
      /\ n >= 1 /\ step.op \in {"Resolve", "Deliver"} =>
           AskedCall(nothing, plain) = ChildCall(ListingCall(n, nothing, plain))
  BY ONLY IInv, step.op # "Err", n \in Nat, n = Len(stack), <1>2, FrameCalls
<1>4. \A d \in 1 .. n - 1 : d \in 1 .. n /\ d + 1 \in 1 .. n
  OBVIOUS
<1> QED BY <1>1, <1>3, <1>4

(* Frames whose offset, object and children stay make the same plain calls. *)
LEMMA PlainKept ==
  ASSUME NEW n \in Nat, doc' = doc,
         \A k \in 1 .. n : stack'[k].off = stack[k].off /\ stack'[k].index = stack[k].index
  PROVE  /\ \A d \in 1 .. n + 1 : Path(d)' = Path(d)
         /\ \A d \in 1 .. n : PlainEntered(d)' = PlainEntered(d)
         /\ \A d \in 1 .. n : stack'[d].collected = stack[d].collected =>
                                PlainListing(d)' = PlainListing(d)
<1>1. ASSUME NEW d \in 1 .. n + 1 PROVE Path(d)' = Path(d)
  BY DEF Path, PathIn
<1>2. ASSUME NEW d \in 1 .. n PROVE PlainEntered(d)' = PlainEntered(d)
  <2>1. Path(d)' = Path(d) /\ stack'[d].index = stack[d].index
    BY <1>1
  <2> QED BY <2>1 DEF PlainEntered
<1>3. ASSUME NEW d \in 1 .. n, stack'[d].collected = stack[d].collected
      PROVE  PlainListing(d)' = PlainListing(d)
  <2>1. Path(d + 1)' = Path(d + 1) /\ Refs(stack[d])' = Refs(stack[d])
    BY <1>1 DEF Refs
  <2> QED BY <1>3, <2>1 DEF PlainListing
<1> QED BY <1>1, <1>2, <1>3

LEMMA PlainLeadsKept ==
  ASSUME doc' = doc, NEW c, NEW b, NEW e, NEW f, PlainLeads(c, b), e = c, f = b
  PROVE  PlainLeads(e, f)'
BY DEF PlainLeads

(* A frame that awaits a child has a list that asks for it. *)
LEMMA PlainParent ==
  ASSUME IInv, step.op # "Err", PlainOpen, NEW d \in 1 .. Len(stack), Awaiting(d)
  PROVE  /\ PlainListing(d).kind # "object" /\ IsPlain(PlainListing(d))
         /\ Asks(doc, PlainListing(d))
         /\ PlainListing(d).refs = Refs(stack[d]) /\ PlainListing(d).path = Path(d + 1)
         /\ PlainListing(d).collected = stack[d].collected
<1> PICK n \in Nat : n = Len(stack)
  BY SequenceFacts DEF IInv, TypeOK
<1> PICK c : c = PlainListing(d)
  OBVIOUS
<1>1. /\ c.kind = "list" /\ c.mode = "plain" /\ c.memo = << >>
      /\ c.refs = Refs(stack[d]) /\ c.path = Path(d + 1) /\ c.collected = stack[d].collected
  BY DEF PlainListing, ListCall
<1>2. stack[d].refsRead = Len(stack[d].collected) + 1 /\ stack[d].refsRead <= Len(Refs(stack[d]))
  BY DEF IInv, FramesLinked
<1>3. FrameOK(stack[d])
  BY DEF IInv, TypeOK
<1>4. Len(stack[d].collected) \in Nat /\ Len(Refs(stack[d])) \in Nat
  <2>1. Refs(stack[d]) \in Seq(Nat)
    BY <1>3 DEF IInv, TypeOK, FrameOK, Refs, IsDocument, HasMarker
  <2> QED BY <1>3, <2>1, SequenceFacts, LenProperties DEF FrameOK
<1>5. stack[d].refsRead # 0 /\ Len(stack[d].collected) # Len(Refs(stack[d]))
  BY <1>2, <1>4
<1>6. doc.refSizeLegal
  BY <1>5 DEF PlainOpen
<1> QED BY <1>1, <1>5, <1>6 DEF Asks, IsPlain

(* What fails in a frame fails the whole plain call. *)
LEMMA PlainErrorPassed ==
  ASSUME IInv, step.op # "Err", PlainOpen, NEW e, e.op = "Err",
         NEW m \in 1 .. Len(stack), Settles(doc, PlainEntered(m), e)
  PROVE  Settles(doc, WholeCall(doc, "plain"), e)
<1> DEFINE T == {d \in Nat : d \in 1 .. Len(stack) /\ Settles(doc, PlainEntered(d), e)}
<1> PICK n \in Nat : n = Len(stack)
  BY SequenceFacts DEF IInv, TypeOK
<1>1. T \in SUBSET Nat /\ T # {}
  OBVIOUS
<1>2. PICK d \in T : \A j \in T : d <= j
  <2> HIDE DEF T
  <2> QED BY <1>1, LeastNumber
<1>3. d \in 1 .. n /\ Settles(doc, PlainEntered(d), e)
  BY <1>2
<1>4. CASE d = 1
  <2> HIDE DEF T
  <2>1. n >= 1
    BY <1>3
  <2>2. PlainEntered(1) = WholeCall(doc, "plain")
    BY <2>1, PlainCalls
  <2> QED BY <1>3, <1>4, <2>2
<1>5. CASE d # 1
  <2> PICK k \in 1 .. n - 1 : d = k + 1
    <3>1. d - 1 \in 1 .. n - 1 /\ d = (d - 1) + 1
      BY <1>3, <1>5
    <3> QED BY <3>1
  <2> PICK c : c = PlainListing(k)
    OBVIOUS
  <2>1. k \in 1 .. Len(stack) /\ Awaiting(k)
    BY DEF Awaiting
  <2>2. c.kind # "object" /\ IsPlain(c) /\ Asks(doc, c)
    BY <2>1, PlainParent
  <2>3. Settles(doc, ChildCall(c), e)
    <3>1. PlainEntered(k + 1) = ChildCall(c)
      BY PlainCalls
    <3> QED BY <1>3, <3>1
  <2>4. Settles(doc, c, e)
    BY <2>2, <2>3, ListSettles
  <2> PICK b : b = PlainEntered(k)
    OBVIOUS
  <2>5. Settles(doc, b, ClosedOut(doc, b, e))
    BY <2>1, <2>4 DEF PlainOpen, PlainLeads
  <2>6. ClosedOut(doc, b, e) = e
    BY OutcomeFields DEF ClosedOut, Closed, Failed
  <2>7. k \in T
    BY <2>1, <2>5, <2>6
  <2> QED BY <1>2, <2>7
<1> QED BY <1>4, <1>5

LEMMA PlainListErrorPassed ==
  ASSUME IInv, step.op # "Err", PlainOpen, NEW e, e.op = "Err",
         NEW n \in 1 .. Len(stack), Settles(doc, PlainListing(n), e)
  PROVE  Settles(doc, WholeCall(doc, "plain"), e)
<1> PICK b : b = PlainEntered(n)
  OBVIOUS
<1>1. Settles(doc, b, ClosedOut(doc, b, e))
  BY DEF PlainOpen, PlainLeads
<1>2. ClosedOut(doc, b, e) = e
  BY OutcomeFields DEF ClosedOut, Closed, Failed
<1> QED BY <1>1, <1>2, PlainErrorPassed

LEMMA PlainAskedErrorPassed ==
  ASSUME IInv, step.op \in {"Resolve", "Deliver"}, PlainOpen, NEW e, e.op = "Err",
         Settles(doc, PlainAsked, e)
  PROVE  Settles(doc, WholeCall(doc, "plain"), e)
<1> PICK n \in Nat : n = Len(stack)
  BY SequenceFacts DEF IInv, TypeOK
<1>1. step.op # "Err"
  OBVIOUS
<1>2. CASE n = 0
  <2>1. PlainAsked = WholeCall(doc, "plain")
    BY <1>1, <1>2, PlainCalls
  <2> QED BY <2>1
<1>3. CASE n # 0
  <2> PICK c : c = PlainListing(n)
    OBVIOUS
  <2>1. n \in 1 .. Len(stack) /\ Awaiting(n) /\ n >= 1
    BY <1>3 DEF Awaiting
  <2>2. c.kind # "object" /\ IsPlain(c) /\ Asks(doc, c)
    BY <1>1, <2>1, PlainParent
  <2>3. PlainAsked = ChildCall(c)
    BY <1>1, <2>1, PlainCalls
  <2>4. Settles(doc, c, e)
    BY <2>2, <2>3, ListSettles
  <2> QED BY <1>1, <2>1, <2>4, PlainListErrorPassed
<1> QED BY <1>2, <1>3

(* The plain call for the object being resolved. *)
LEMMA PlainAskedFacts ==
  ASSUME IInv, step.op = "Resolve", NEW n \in Nat, n = Len(stack), NEW c, c = PlainAsked
  PROVE  /\ c.kind = "object" /\ c.index = step.index /\ c.memo = << >> /\ c.mode = "plain"
         /\ IsPlain(c) /\ c.index \notin DOMAIN c.memo
         /\ c.path = Path(n + 1) /\ IsSequence(c.path) /\ Len(c.path) = n
         /\ \A k \in 1 .. n : c.path[k] = stack[k].off
         /\ \A off : IsBelow(c, off) <=> IsOpen(off)
<1>1. Asked = step.index
  BY DEF IInv, FramesLinked
<1>2. /\ c.kind = "object" /\ c.index = step.index /\ c.memo = << >> /\ c.mode = "plain"
      /\ c.path = Path(n + 1)
  BY <1>1 DEF PlainAsked, ObjectCall
<1>3. IsSequence(c.path) /\ Len(c.path) = n /\ \A k \in 1 .. n : c.path[k] = stack[k].off
  <2>1. n + 1 \in Nat \ {0}
    OBVIOUS
  <2>2. IsSequence(PathIn(stack, n + 1)) /\ Len(PathIn(stack, n + 1)) = n + 1 - 1
    BY <2>1, PathExtended
  <2>3. \A k \in 1 .. n : PathIn(stack, n + 1)[k] = stack[k].off
    BY DEF PathIn
  <2> QED BY <1>2, <2>2, <2>3 DEF Path
<1>4. ASSUME NEW off PROVE IsBelow(c, off) <=> IsOpen(off)
  BY <1>3 DEF IsBelow, IsOpen
<1>5. IsPlain(c) /\ c.index \notin DOMAIN c.memo
  BY <1>2, EmptySequence DEF IsPlain
<1> QED BY <1>2, <1>3, <1>4, <1>5

LEMMA PlainFails ==
  ASSUME IInv, PlainInv, step.op = "Resolve", NEW kind, Fail(kind), ~ Enters(doc, PlainAsked),
         ObjectAnswer(doc, PlainAsked) = Outcome(<< >>, Error(kind))
  PROVE  PlainInv'
<1> PICK e : e = Error(kind)
  OBVIOUS
<1>1. e.op = "Err"
  BY DEF Error
<1>2. PlainAsked.kind = "object"
  BY DEF PlainAsked, ObjectCall
<1>3. Settles(doc, PlainAsked, e)
  BY <1>2, OutcomeFields, ObjectAnswerSettles
<1>4. ~ Returned
  BY DEF Returned
<1>5. PlainOpen
  BY <1>4 DEF PlainInv
<1>6. Settles(doc, WholeCall(doc, "plain"), e)
  BY <1>1, <1>3, <1>5, PlainAskedErrorPassed
<1>7. doc' = doc /\ objects' = objects /\ step' = e
  BY DEF Fail
<1>8. Returned' /\ step'.op # "Deliver"
  BY <1>1, <1>7 DEF Returned
<1>9. Ranked(doc, objects)'
  BY <1>7 DEF PlainInv
<1>10. Settles(doc, WholeCall(doc, "plain"), step)'
  BY <1>6, <1>7
<1> QED BY <1>8, <1>9, <1>10 DEF PlainInv

LEMMA PlainAnswers ==
  ASSUME IInv, PlainInv, step.op = "Resolve", NEW v, UNCHANGED <<doc, stack>>, step' = Deliver(v),
         Settles(doc, PlainAsked, Return(v)), Ranked(doc, objects')
  PROVE  PlainInv'
<1> PICK n \in Nat : n = Len(stack)
  BY SequenceFacts DEF IInv, TypeOK
<1>1. step'.op = "Deliver" /\ step'.value = v
  BY DEF Deliver
<1>2. ~ Returned /\ ~ Returned'
  BY <1>1 DEF Returned
<1>3. /\ Path(n + 1)' = Path(n + 1)
      /\ \A d \in 1 .. n : PlainEntered(d)' = PlainEntered(d)
      /\ \A d \in 1 .. n : PlainListing(d)' = PlainListing(d)
  <2>1. /\ \A k \in 1 .. n : stack'[k].off = stack[k].off /\ stack'[k].index = stack[k].index
        /\ \A k \in 1 .. n : stack'[k].collected = stack[k].collected
    OBVIOUS
  <2>2. n + 1 \in 1 .. n + 1
    OBVIOUS
  <2> QED BY <2>1, <2>2, PlainKept
<1>4. PlainAsked' = PlainAsked
  <2>1. Asked' = Asked
    BY DEF Asked, Top, Refs
  <2> QED BY <1>3, <2>1 DEF PlainAsked
<1>5. PlainOpen'
  <2>1. ASSUME NEW d \in 1 .. n PROVE PlainLeads(PlainEntered(d), PlainListing(d))'
    <3>1. PlainLeads(PlainEntered(d), PlainListing(d))
      BY <1>2 DEF PlainInv, PlainOpen
    <3> QED BY <1>3, <3>1, PlainLeadsKept
  <2> QED BY <1>2, <2>1 DEF PlainInv, PlainOpen
<1>6. Settles(doc, PlainAsked, Return(step.value))'
  BY <1>1, <1>4
<1> QED BY <1>2, <1>5, <1>6 DEF PlainInv

(* The object being resolved, if it is finished, is below no container of  *)
(* its rank: the top frame refers to it, and no object with the marker of  *)
(* a frame below is finished, for that marker refers to the next frame's.  *)
LEMMA OpenAbove ==
  ASSUME IInv, step.op = "Resolve", NEW n \in Nat, n = Len(stack), step.index \in DOMAIN objects,
         NEW rank, NEW bound, RankedBy(doc, objects, rank, bound)
  PROVE  Above(doc, objects, rank, Path(n + 1), step.index)
<1> PICK i : i = step.index
  OBVIOUS
<1>1. Len(Path(n + 1)) = n /\ \A k \in 1 .. n : Path(n + 1)[k] = stack[k].off
  BY PlainAskedFacts
<1> SUFFICES ASSUME NEW k \in 1 .. n, NEW x \in DOMAIN objects, doc.offset[x] = stack[k].off
             PROVE  rank[doc.offset[i]] < rank[stack[k].off]
  BY <1>1 DEF Above
<1>2. FrameOK(stack[k]) /\ Awaiting(k)
  BY DEF IInv, TypeOK, Awaiting
<1>3. Marker(doc, x) = doc.region[stack[k].off] /\ Refs(stack[k]) = Marker(doc, x).refs
      /\ IsContainer(Marker(doc, x))
  BY <1>2 DEF FrameOK, Refs, Marker
<1>4. AllIn(Marker(doc, x).refs, DOMAIN objects)
  BY <1>3 DEF IInv, MemoFaithful, FaithfulMemo, Solvable
<1> PICK r : r = stack[k].refsRead
  OBVIOUS
<1>5. r \in 1 .. Len(Marker(doc, x).refs)
  <2>1. r = Len(stack[k].collected) + 1 /\ r <= Len(Refs(stack[k])) /\ r \in Nat
    BY <1>2 DEF IInv, FramesLinked, FrameOK
  <2>2. Len(stack[k].collected) \in Nat
    BY <1>2, SequenceFacts DEF FrameOK
  <2>3. Refs(stack[k]) \in Seq(Nat)
    BY <1>2 DEF IInv, TypeOK, FrameOK, Refs, IsDocument, HasMarker
  <2>4. Len(Refs(stack[k])) \in Nat
    BY <2>3, LenProperties
  <2> QED BY <1>3, <2>1, <2>2, <2>4
<1>6. CASE k = n
  <2>1. stack # << >> /\ Top = stack[n]
    BY <1>6, EmptySequence DEF Top
  <2>2. i = Marker(doc, x).refs[r]
    BY <1>3, <1>6, <2>1 DEF IInv, FramesLinked, Asked
  <2>3. RankOK(doc, rank, bound, x)
    BY DEF RankedBy
  <2> QED BY <1>3, <1>5, <2>2, <2>3 DEF RankOK
<1>7. CASE k # n
  <2>1. k \in 1 .. Len(stack) - 1 /\ k + 1 \in 1 .. Len(stack)
    BY <1>7
  <2>2. stack[k + 1].index = Marker(doc, x).refs[r]
    BY <1>3, <2>1 DEF IInv, FramesLinked
  <2>3. stack[k + 1].index \in DOMAIN objects
    BY <1>4, <1>5, <2>2 DEF AllIn
  <2>4. stack[k + 1].index \notin DOMAIN objects
    BY <2>1 DEF IInv, NeverReentered
  <2> QED BY <2>3, <2>4
<1> QED BY <1>6, <1>7

LEMMA PlainMemoized ==
  ASSUME IInv, PlainInv, ResolveMemoized
  PROVE  PlainInv'
<1> PICK n \in Nat : n = Len(stack)
  BY SequenceFacts DEF IInv, TypeOK
<1> PICK i : i = step.index
  OBVIOUS
<1>1. /\ step.op = "Resolve" /\ i \in DOMAIN objects
      /\ step' = Deliver(objects[i]) /\ UNCHANGED <<doc, objects, stack>>
  BY DEF ResolveMemoized
<1>2. PICK rank, bound : RankedBy(doc, objects, rank, bound)
  BY DEF PlainInv, Ranked
<1>3. Above(doc, objects, rank, Path(n + 1), i)
  BY <1>1, <1>2, OpenAbove
<1>4. PlainAsked = ObjectCall(i, Path(n + 1), << >>, "plain") /\ IsSequence(Path(n + 1))
  BY <1>1, PlainAskedFacts DEF PlainAsked, IInv, FramesLinked
<1>5. Settles(doc, PlainAsked, Return(objects[i]))
  <2>1. IsDocument(doc) /\ FaithfulMemo(doc, objects) /\ DOMAIN objects \subseteq Indices(doc)
    BY DEF IInv, TypeOK, MemoFaithful
  <2>2. IsSequence(Path(n + 1))
    BY <1>4
  <2>3. Settles(doc, ObjectCall(i, Path(n + 1), << >>, "plain"), Return(objects[i]))
    BY ONLY <1>1, <1>2, <1>3, <2>1, <2>2, FinishedSettles
  <2> QED BY <1>4, <2>3
<1>6. Ranked(doc, objects')
  BY <1>1 DEF PlainInv
<1> QED BY <1>1, <1>5, <1>6, PlainAnswers

(* The early returns of resolve_step and open_container. *)
LEMMA PlainResolve ==
  ASSUME IInv, PlainInv,
         \/ ResolveInvalid \/ ResolveUnreadable \/ ResolveBeyondTable \/ ResolveScalar
         \/ OpenTooDeep \/ OpenSelfReferential \/ OpenOutOfBounds
  PROVE  PlainInv'
<1>1. step.op = "Resolve"
  BY DEF ResolveInvalid, ResolveUnreadable, ResolveBeyondTable, ResolveScalar,
         OpenTooDeep, OpenSelfReferential, OpenOutOfBounds, AtContainer, Unread
<1> PICK n \in Nat : n = Len(stack)
  BY SequenceFacts DEF IInv, TypeOK
<1> PICK c : c = PlainAsked
  OBVIOUS
<1> PICK i : i = step.index
  OBVIOUS
<1>3. /\ c.kind = "object" /\ c.index = i /\ c.memo = << >> /\ c.mode = "plain"
      /\ c.index \notin DOMAIN c.memo /\ Len(c.path) = n
      /\ \A off : IsBelow(c, off) <=> IsOpen(off)
  BY <1>1, PlainAskedFacts
<1>4. AtCap <=> ~ (Len(c.path) < MaxParseDepth)
  BY <1>3, MaxParseDepthAssumption DEF AtCap
<1>5. CASE ResolveInvalid
  <2>1. ~ Enters(doc, c) /\ ObjectAnswer(doc, c) = Outcome(<< >>, Error("InvalidObject"))
    BY <1>3, <1>5 DEF ResolveInvalid, Enters, HasMarker, ObjectAnswer
  <2> QED BY <1>1, <1>5, <2>1, PlainFails DEF ResolveInvalid
<1>7. CASE ResolveUnreadable
  <2>1. ~ doc.entrySizeLegal /\ i \in Indices(doc)
    BY <1>7 DEF ResolveUnreadable, Unread
  <2>2. ~ Enters(doc, c) /\ ObjectAnswer(doc, c) = Outcome(<< >>, Error("IllegalIntegerSize"))
    BY <1>3, <2>1 DEF Enters, HasMarker, ObjectAnswer
  <2> QED BY <1>1, <1>7, <2>2, PlainFails DEF ResolveUnreadable
<1>8. CASE ResolveBeyondTable
  <2>1. doc.entrySizeLegal /\ i \in Indices(doc) /\ doc.offset[i] \notin Offsets(doc)
    BY <1>8 DEF ResolveBeyondTable, Unread
  <2>2. ~ Enters(doc, c) /\ ObjectAnswer(doc, c) = Outcome(<< >>, Error("BeyondTable"))
    BY <1>3, <2>1 DEF Enters, HasMarker, ObjectAnswer
  <2> QED BY <1>1, <1>8, <2>2, PlainFails DEF ResolveBeyondTable
<1>9. CASE ResolveScalar
  <2>1. /\ i \in Indices(doc) /\ i \notin DOMAIN objects
        /\ doc.entrySizeLegal /\ doc.offset[i] \in Offsets(doc) /\ HasMarker(doc, i)
        /\ ~ IsContainer(Marker(doc, i))
    BY <1>9 DEF ResolveScalar, Unread, HasMarker
  <2>2. ~ Enters(doc, c)
    BY <1>3, <2>1 DEF Enters
  <2>3. CASE Marker(doc, i).sound
    <3> PICK v : v = Marker(doc, i).value
      OBVIOUS
    <3>1. UNCHANGED <<doc, stack>> /\ step' = Deliver(v) /\ objects' = With(objects, i, v)
      BY <1>9, <2>3 DEF ResolveScalar, memoize
    <3>2. ObjectAnswer(doc, c) = Outcome(<< >>, Return(v))
      BY <1>3, <2>1, <2>3 DEF ObjectAnswer, Finish
    <3>3. Settles(doc, c, Return(v))
      BY <1>3, <2>2, <3>2, OutcomeFields, ObjectAnswerSettles
    <3>4. Ranked(doc, objects')
      <4>1. /\ IsDocument(doc) /\ FaithfulMemo(doc, objects) /\ DOMAIN objects \subseteq Indices(doc)
            /\ Ranked(doc, objects)
        BY DEF IInv, TypeOK, MemoFaithful, PlainInv
      <4> QED BY <2>1, <3>1, <4>1, RankedWith
    <3> QED BY <1>1, <3>1, <3>3, <3>4, PlainAnswers
  <2>4. CASE ~ Marker(doc, i).sound
    <3>1. ObjectAnswer(doc, c) = Outcome(<< >>, Error("BadScalar"))
      BY <1>3, <2>1, <2>4 DEF ObjectAnswer
    <3>2. Fail("BadScalar")
      BY <1>9, <2>4 DEF ResolveScalar
    <3> QED BY <1>1, <2>2, <3>1, <3>2, PlainFails
  <2> QED BY <2>3, <2>4
<1>10. ASSUME AtContainer
       PROVE  /\ i \in Indices(doc) /\ doc.entrySizeLegal /\ doc.offset[i] \in Offsets(doc)
              /\ IsContainer(Marker(doc, i))
  BY <1>10 DEF AtContainer, Unread, HasMarker
<1>11. CASE OpenTooDeep
  <2>1. AtContainer /\ ~ (Len(c.path) < MaxParseDepth) /\ Len(c.path) >= MaxParseDepth
    BY <1>3, <1>4, <1>11, MaxParseDepthAssumption DEF OpenTooDeep
  <2>2. ~ Enters(doc, c) /\ ObjectAnswer(doc, c) = Outcome(<< >>, Error("MaxDepthExceeded"))
    BY <1>3, <1>10, <2>1 DEF Enters, ObjectAnswer
  <2> QED BY <1>1, <1>11, <2>2, PlainFails DEF OpenTooDeep
<1>12. CASE OpenSelfReferential
  <2>1. AtContainer /\ ~ (Len(c.path) >= MaxParseDepth) /\ IsBelow(c, doc.offset[i])
    BY <1>3, <1>4, <1>12, MaxParseDepthAssumption DEF OpenSelfReferential
  <2>2. ~ Enters(doc, c) /\ ObjectAnswer(doc, c) = Outcome(<< >>, Error("SelfReferential"))
    BY <1>3, <1>10, <2>1 DEF Enters, ObjectAnswer
  <2> QED BY <1>1, <1>12, <2>2, PlainFails DEF OpenSelfReferential
<1>13. CASE OpenOutOfBounds
  <2>1. /\ AtContainer /\ ~ (Len(c.path) >= MaxParseDepth) /\ ~ IsBelow(c, doc.offset[i])
        /\ ~ Marker(doc, i).sound
    BY <1>3, <1>4, <1>13, MaxParseDepthAssumption DEF OpenOutOfBounds
  <2>2. ~ Enters(doc, c) /\ ObjectAnswer(doc, c) = Outcome(<< >>, Error("BadContainer"))
    BY <1>3, <1>10, <2>1 DEF Enters, ObjectAnswer
  <2> QED BY <1>1, <1>13, <2>2, PlainFails DEF OpenOutOfBounds
<1> QED BY <1>5, <1>7, <1>8, <1>9, <1>11, <1>12, <1>13

LEMMA PlainOpens ==
  ASSUME IInv, PlainInv, OpenContainer
  PROVE  PlainInv'
<1>1. step.op = "Resolve" /\ AtContainer /\ ~ Returned
  BY DEF OpenContainer, AtContainer, Unread, Returned
<1>2. PlainOpen /\ Ranked(doc, objects)
  BY <1>1 DEF PlainInv
<1> PICK n \in Nat : n = Len(stack)
  BY SequenceFacts DEF IInv, TypeOK
<1> PICK i : i = step.index
  OBVIOUS
<1> PICK off : off = doc.offset[i]
  OBVIOUS
<1> PICK f : f = Frame(off, i)
  OBVIOUS
<1> PICK c : c = PlainAsked
  OBVIOUS
<1>4. /\ IsSequence(stack') /\ Len(stack') = n + 1
      /\ \A d \in 1 .. n : stack'[d] = stack[d]
      /\ stack'[n + 1] = f
  <2>1. IsSequence(stack) /\ stack' = Extended(stack, f)
    BY DEF IInv, TypeOK, OpenContainer, Extended
  <2> QED BY <2>1, AppendSequence
<1>5. doc' = doc /\ objects' = objects /\ step' = Advance
  BY DEF OpenContainer
<1>6. /\ c.kind = "object" /\ c.index = i /\ c.memo = << >> /\ c.mode = "plain" /\ IsPlain(c)
      /\ c.index \notin DOMAIN c.memo
      /\ c.path = Path(n + 1) /\ Len(c.path) = n
      /\ \A o : IsBelow(c, o) <=> IsOpen(o)
  BY <1>1, PlainAskedFacts
<1>7. Enters(doc, c)
  <2>1. Len(c.path) < MaxParseDepth
    BY <1>6, MaxParseDepthAssumption DEF OpenContainer, AtCap
  <2> QED BY <1>6, <2>1 DEF OpenContainer, AtContainer, Enters
<1>8. f.off = off /\ f.index = i /\ f.collected = << >> /\ f.refsRead = 0
  BY DEF Frame
<1>9. /\ \A d \in 1 .. n + 1 : Path(d)' = Path(d)
      /\ \A d \in 1 .. n : PlainEntered(d)' = PlainEntered(d)
      /\ \A d \in 1 .. n : PlainListing(d)' = PlainListing(d)
  <2>1. /\ \A k \in 1 .. n : stack'[k].off = stack[k].off /\ stack'[k].index = stack[k].index
        /\ \A k \in 1 .. n : stack'[k].collected = stack[k].collected
    BY <1>4
  <2> QED BY <1>5, <2>1, PlainKept
<1>10. PlainEntered(n + 1)' = c
  <2>1. Asked = i
    BY <1>1 DEF IInv, FramesLinked
  <2>2. stack'[n + 1].index = i /\ Path(n + 1)' = Path(n + 1)
    BY <1>4, <1>8, <1>9
  <2> QED BY <2>1, <2>2 DEF PlainEntered, PlainAsked
<1>11. PlainListing(n + 1)' = ContentsCall(doc, c)
  <2>1. Refs(stack[n + 1])' = Marker(doc, i).refs
    BY <1>4, <1>5, <1>8 DEF Refs, Marker
  <2>2. PathIn(stack', n + 1 + 1) = Append(Path(n + 1), off)
    <3>1. n + 1 \in Nat \ {0}
      OBVIOUS
    <3>2. Append(PathIn(stack', n + 1), stack'[n + 1].off) = PathIn(stack', n + 1 + 1)
      BY <3>1, PathExtended
    <3>3. PathIn(stack', n + 1) = Path(n + 1)
      <4>1. n + 1 \in 1 .. n + 1
        OBVIOUS
      <4>2. Path(n + 1)' = Path(n + 1)
        BY <1>9, <4>1
      <4> QED BY <4>2 DEF Path
    <3> QED BY <1>4, <1>8, <3>2, <3>3
  <2>3. Path(n + 1 + 1)' = Append(Path(n + 1), off) /\ stack'[n + 1].collected = << >>
    BY <1>4, <1>8, <2>2 DEF Path
  <2> QED BY <1>6, <2>1, <2>3 DEF PlainListing, ContentsCall
<1>12. ASSUME NEW d \in 1 .. n + 1
       PROVE  /\ PlainLeads(PlainEntered(d), PlainListing(d))'
              /\ (stack'[d].refsRead # 0 => doc'.refSizeLegal)
  <2>1. CASE d \in 1 .. n
    <3>1. /\ PlainLeads(PlainEntered(d), PlainListing(d))
          /\ (stack[d].refsRead # 0 => doc.refSizeLegal)
      BY <1>2, <2>1 DEF PlainOpen
    <3> QED BY <1>4, <1>5, <1>9, <2>1, <3>1, PlainLeadsKept
  <2>2. CASE d = n + 1
    <3>1. PlainLeads(c, ContentsCall(doc, c))
      BY <1>6, <1>7, ContainerSettles DEF PlainLeads
    <3> QED BY <1>4, <1>5, <1>8, <1>10, <1>11, <2>2, <3>1, PlainLeadsKept
  <2> QED BY <2>1, <2>2
<1>13. PlainOpen'
  BY <1>4, <1>12 DEF PlainOpen
<1>14. ~ Returned' /\ step'.op # "Deliver"
  BY <1>5 DEF Returned, Advance
<1>15. Ranked(doc, objects)'
  BY <1>2, <1>5
<1> QED BY <1>13, <1>14, <1>15 DEF PlainInv

LEMMA PlainCloses ==
  ASSUME IInv, PlainInv, CloseContainer
  PROVE  PlainInv'
<1> PICK n \in Nat : n = Len(stack)
  BY SequenceFacts DEF IInv, TypeOK
<1>1. step.op = "Advance" /\ Complete(Top) /\ doc' = doc /\ ~ Returned
  BY DEF CloseContainer, Returned
<1>2. PlainOpen /\ Ranked(doc, objects)
  BY <1>1 DEF PlainInv
<1> PICK f : f = Top
  OBVIOUS
<1> PICK b : b = PlainListing(n)
  OBVIOUS
<1> PICK c : c = PlainEntered(n)
  OBVIOUS
<1> PICK marker : marker = doc.region[f.off]
  OBVIOUS
<1> PICK v : v = Build(marker, f.collected)
  OBVIOUS
<1>3. stack # << >>
  BY ClosingFacts
<1>4. /\ n \in 1 .. Len(stack) /\ f = stack[n] /\ Marker(doc, f.index) = marker
      /\ Len(f.collected) = Len(Refs(f)) /\ Len(Refs(f)) \in Nat
  <2>1. n \in 1 .. Len(stack) /\ f = stack[n] /\ Marker(doc, f.index) = marker
    BY <1>3, TopFrame
  <2>2. Len(Top.collected) = Len(Refs(Top)) /\ Len(Refs(Top)) \in Nat
    <3>1. /\ Len(Top.collected) \in Nat /\ Len(Refs(Top)) \in Nat
          /\ Len(Top.collected) <= Len(Refs(Top)) /\ Len(Top.collected) >= Len(Refs(Top))
      BY <1>1, <1>3, TopFrame DEF Complete
    <3> QED BY <3>1
  <2> QED BY <2>1, <2>2
<1>5. /\ b.kind # "object" /\ b.refs = Refs(f) /\ b.memo = << >> /\ b.collected = f.collected
      /\ c.index = f.index /\ c.mode = "plain"
  BY <1>4 DEF PlainListing, ListCall, PlainEntered, ObjectCall
<1> PICK got : got = Return(f.collected)
  OBVIOUS
<1>6. Settles(doc, b, got)
  <2>1. ~ Asks(doc, b) /\ ListAnswer(b) = Outcome(<< >>, got)
    BY <1>4, <1>5 DEF Asks, ListAnswer
  <2> QED BY <1>5, <2>1, OutcomeFields, ListAnswerSettles
<1>7. Settles(doc, c, ClosedOut(doc, c, got))
  BY <1>2, <1>4, <1>6 DEF PlainOpen, PlainLeads
<1> PICK o : o = Outcome(<< >>, got)
  OBVIOUS
<1>8. ~ Failed(o) /\ o.memo = << >> /\ o.out.value = f.collected
  BY DEF Failed, Outcome, Return
<1>9. CASE ~ Buildable(marker, f.collected)
  <2> PICK e : e = Error("NonStringKey")
    OBVIOUS
  <2>1. step' = e /\ objects' = objects /\ e.op = "Err"
    BY <1>9 DEF CloseContainer, Error
  <2>2. ClosedOut(doc, c, got) = e
    BY <1>4, <1>5, <1>8, <1>9, OutcomeFields DEF ClosedOut, Closed
  <2>3. Settles(doc, WholeCall(doc, "plain"), e)
    BY <1>1, <1>2, <1>4, <1>7, <2>1, <2>2, PlainErrorPassed
  <2>4. Returned' /\ step'.op # "Deliver"
    BY <2>1 DEF Returned
  <2>5. Ranked(doc, objects)' /\ Settles(doc, WholeCall(doc, "plain"), step)'
    BY <1>1, <1>2, <2>1, <2>3
  <2> QED BY <2>4, <2>5 DEF PlainInv
<1>10. CASE Buildable(marker, f.collected)
  <2>1. objects' = With(objects, f.index, v) /\ step' = Deliver(v)
    BY <1>10 DEF CloseContainer, memoize
  <2>2. ClosedOut(doc, c, got) = Return(v)
    BY <1>4, <1>5, <1>8, <1>10, OutcomeFields DEF ClosedOut, Closed, Finish
  <2>3. /\ IsSequence(stack') /\ Len(stack') = n - 1
        /\ \A d \in 1 .. n - 1 : stack'[d] = stack[d]
    <3>1. IsSequence(stack) /\ stack' = Popped(stack)
      BY DEF IInv, TypeOK, CloseContainer, Pop, Popped
    <3>2. /\ IsSequence(Popped(stack)) /\ Len(Popped(stack)) = Len(stack) - 1
          /\ \A k \in 1 .. Len(Popped(stack)) : Popped(stack)[k] = stack[k]
      BY <1>3, <3>1, PopSequence
    <3> QED BY <3>1, <3>2
  <2> PICK m \in Nat : m = n - 1
    BY <1>4
  <2>4. /\ \A d \in 1 .. m + 1 : Path(d)' = Path(d)
        /\ \A d \in 1 .. m : PlainEntered(d)' = PlainEntered(d)
        /\ \A d \in 1 .. m : PlainListing(d)' = PlainListing(d)
    <3>1. /\ \A k \in 1 .. m : stack'[k].off = stack[k].off /\ stack'[k].index = stack[k].index
          /\ \A k \in 1 .. m : stack'[k].collected = stack[k].collected
      BY <2>3
    <3>2. m \in Nat /\ doc' = doc
      BY <1>1
    <3> QED BY ONLY <3>1, <3>2, PlainKept
  <2>5. ASSUME NEW d \in 1 .. m
        PROVE  /\ PlainLeads(PlainEntered(d), PlainListing(d))'
               /\ (stack'[d].refsRead # 0 => doc'.refSizeLegal)
    <3>1. /\ PlainLeads(PlainEntered(d), PlainListing(d))
          /\ (stack[d].refsRead # 0 => doc.refSizeLegal)
      BY <1>2 DEF PlainOpen
    <3> QED BY <1>1, <2>3, <2>4, <3>1, PlainLeadsKept
  <2>6. PlainOpen'
    BY <2>3, <2>5 DEF PlainOpen
  <2>7. PlainAsked' = c
    <3>1. Asked' = f.index
      <4>1. CASE n = 1
        <5>1. stack' = << >>
          BY <2>3, <4>1, SequenceFacts
        <5>2. stack[1].index = doc.top
          BY <1>1, <1>3 DEF IInv, FramesLinked
        <5> QED BY <1>1, <1>4, <4>1, <5>1, <5>2 DEF Asked
      <4>2. CASE n # 1
        <5>1. m \in 1 .. Len(stack) - 1 /\ m + 1 = n /\ m \in 1 .. n - 1
          BY <1>4, <4>2
        <5>2. stack[m + 1].index = Refs(stack[m])[stack[m].refsRead]
          BY <1>1, <5>1 DEF IInv, FramesLinked
        <5>3. Top' = stack[m] /\ stack' # << >>
          BY <2>3, <5>1, SequenceFacts DEF Top
        <5>4. Refs(Top)' = Refs(stack[m])
          BY <1>1, <5>3 DEF Refs
        <5> QED BY <1>4, <5>1, <5>2, <5>3, <5>4 DEF Asked
      <4> QED BY <4>1, <4>2
    <3>2. Len(stack') + 1 = n /\ n \in 1 .. m + 1
      BY <1>4, <2>3
    <3>3. Path(n)' = Path(n)
      BY <2>4, <3>2
    <3> QED BY <1>4, <3>1, <3>2, <3>3 DEF PlainAsked, PlainEntered
  <2>8. step'.op = "Deliver" /\ step'.value = v
    BY <2>1 DEF Deliver
  <2>9. Settles(doc, PlainAsked, Return(step.value))'
    BY <1>1, <1>7, <2>2, <2>7, <2>8
  <2>10. Ranked(doc, objects')
    <3>1. /\ IsDocument(doc) /\ FaithfulMemo(doc, objects) /\ DOMAIN objects \subseteq Indices(doc)
      BY DEF IInv, TypeOK, MemoFaithful
    <3>2. /\ f.index \in Indices(doc) /\ HasMarker(doc, f.index)
          /\ AllIn(Refs(f), DOMAIN objects) /\ Marker(doc, f.index).refs = Refs(f)
      BY <1>4, ClosingFacts DEF Refs
    <3>3. Len(Marker(doc, f.index).refs) # 0 => doc.refSizeLegal
      <4>1. ~ Awaiting(n)
        BY <1>1 DEF Awaiting
      <4>2. stack[n].refsRead = Len(f.collected)
        BY <1>1, <1>4, <4>1 DEF IInv, FramesLinked
      <4> QED BY <1>2, <1>4, <3>2, <4>2 DEF PlainOpen
    <3>4. /\ AllIn(Marker(doc, f.index).refs, DOMAIN objects)
          /\ Len(Marker(doc, f.index).refs) # 0 => doc.refSizeLegal
      BY <3>2, <3>3
    <3> QED BY <1>2, <2>1, <3>1, <3>2, <3>4, RankedWith
  <2>11. ~ Returned'
    BY <2>8 DEF Returned
  <2> QED BY <1>1, <2>6, <2>9, <2>10, <2>11 DEF PlainInv
<1> QED BY <1>9, <1>10

(* A step that replaces the top frame and changes at most its children. *)
LEMMA PlainReplaced ==
  ASSUME IInv, stack # << >>, NEW n \in Nat, n = Len(stack), NEW f,
         f.off = Top.off, f.index = Top.index,
         stack' = WithTop(f), UNCHANGED <<doc, objects>>, PlainOpen,
         PlainLeads(PlainEntered(n), ListCall(Refs(Top), Path(n + 1), << >>, "plain", f.collected)),
         doc.refSizeLegal
  PROVE  PlainOpen'
<1>1. /\ n >= 1
      /\ IsSequence(stack') /\ Len(stack') = n /\ stack' # << >>
      /\ \A d \in 1 .. n : d # n => stack'[d] = stack[d]
      /\ stack'[n] = f
      /\ \A d \in 1 .. n : Refs(stack[d])' = Refs(stack[d])
  BY WithTopFacts
<1>2. Top = stack[n]
  BY DEF Top
<1>3. /\ Path(n + 1)' = Path(n + 1)
      /\ \A d \in 1 .. n : PlainEntered(d)' = PlainEntered(d)
      /\ \A d \in 1 .. n : stack'[d].collected = stack[d].collected =>
                             PlainListing(d)' = PlainListing(d)
  <2>1. \A k \in 1 .. n : stack'[k].off = stack[k].off /\ stack'[k].index = stack[k].index
    BY <1>1, <1>2
  <2>2. n + 1 \in 1 .. n + 1
    OBVIOUS
  <2> QED BY <2>1, <2>2, PlainKept
<1>4. ASSUME NEW d \in 1 .. n PROVE PlainLeads(PlainEntered(d), PlainListing(d))'
  <2>1. CASE d = n
    <3>1. PlainListing(n)' = ListCall(Refs(Top), Path(n + 1), << >>, "plain", f.collected)
      <4>1. /\ Refs(stack[n])' = Refs(Top) /\ Path(n + 1)' = Path(n + 1)
            /\ stack'[n].collected = f.collected
        BY <1>1, <1>2, <1>3
      <4> QED BY ONLY <4>1 DEF PlainListing
    <3> QED BY <1>1, <1>3, <2>1, <3>1, PlainLeadsKept
  <2>2. CASE d # n
    <3>1. PlainListing(d)' = PlainListing(d)
      BY <1>1, <1>3, <2>2
    <3>2. PlainLeads(PlainEntered(d), PlainListing(d))
      BY DEF PlainOpen
    <3> QED BY <1>3, <3>1, <3>2, PlainLeadsKept
  <2> QED BY <2>1, <2>2
<1> QED BY <1>1, <1>4 DEF PlainOpen

LEMMA PlainReads ==
  ASSUME IInv, PlainInv, ReadReference
  PROVE  PlainInv'
<1> PICK n \in Nat : n = Len(stack)
  BY SequenceFacts DEF IInv, TypeOK
<1>1. step.op = "Advance" /\ stack # << >> /\ ~ Complete(Top) /\ ~ Returned
  BY DEF IInv, TypeOK, StepOK, ReadReference, Resolve, Deliver, Return, Error, Returned
<1>2. PlainOpen /\ Ranked(doc, objects)
  BY <1>1 DEF PlainInv
<1> PICK b : b = PlainListing(n)
  OBVIOUS
<1>3. /\ n \in 1 .. Len(stack) /\ Top = stack[n]
      /\ Len(Top.collected) # Len(Refs(Top))
  <2>1. Len(Top.collected) # Len(Refs(Top))
    <3>1. Len(Refs(Top)) \in Nat /\ ~ (Len(Top.collected) >= Len(Refs(Top)))
      BY <1>1, TopFrame DEF Complete
    <3> QED BY <3>1
  <2>2. n \in 1 .. Len(stack) /\ Top = stack[n]
    BY <1>1, TopFrame
  <2> QED BY <2>1, <2>2
<1>4. CASE ~ doc.refSizeLegal
  <2>1. Fail("IllegalIntegerSize")
    BY <1>4 DEF ReadReference
  <2> PICK e : e = Error("IllegalIntegerSize")
    OBVIOUS
  <2>2. e.op = "Err"
    BY DEF Error
  <2>3. b.kind # "object" /\ b.refs = Refs(Top) /\ b.memo = << >> /\ b.collected = Top.collected
    BY <1>3 DEF PlainListing, ListCall
  <2>4. ~ Asks(doc, b) /\ ListAnswer(b) = Outcome(<< >>, e)
    BY <1>3, <1>4, <2>3 DEF Asks, ListAnswer
  <2>5. Settles(doc, b, e)
    BY <2>3, <2>4, OutcomeFields, ListAnswerSettles
  <2>6. Settles(doc, WholeCall(doc, "plain"), e)
    BY <1>1, <1>2, <1>3, <2>2, <2>5, PlainListErrorPassed
  <2>7. doc' = doc /\ step' = e /\ objects' = objects
    BY <2>1 DEF Fail
  <2>8. Returned' /\ step'.op # "Deliver"
    BY <2>2, <2>7 DEF Returned
  <2>9. Ranked(doc, objects)' /\ Settles(doc, WholeCall(doc, "plain"), step)'
    BY <1>2, <2>6, <2>7
  <2> QED BY <2>8, <2>9 DEF PlainInv
<1>5. CASE doc.refSizeLegal
  <2> PICK f : f = [Top EXCEPT !.refsRead = @ + 1]
    OBVIOUS
  <2>1. /\ stack' = WithTop(f) /\ UNCHANGED <<doc, objects>>
        /\ step' = Resolve(Refs(Top)[Top.refsRead + 1])
    BY <1>5 DEF ReadReference
  <2>2. f.off = Top.off /\ f.index = Top.index /\ f.collected = Top.collected
    BY <1>1, TopFrame DEF FrameOK
  <2>3. PlainLeads(PlainEntered(n), ListCall(Refs(Top), Path(n + 1), << >>, "plain", f.collected))
    BY <1>2, <1>3, <2>2 DEF PlainOpen, PlainListing
  <2>4. PlainOpen'
    BY <1>1, <1>2, <1>5, <2>1, <2>2, <2>3, PlainReplaced
  <2>5. ~ Returned' /\ step'.op # "Deliver"
    BY <2>1 DEF Returned, Resolve
  <2>6. Ranked(doc, objects)'
    BY <1>2, <2>1
  <2> QED BY <2>4, <2>5, <2>6 DEF PlainInv
<1> QED BY <1>4, <1>5

LEMMA PlainDelivers ==
  ASSUME IInv, PlainInv, DeliverToFrame
  PROVE  PlainInv'
<1> PICK n \in Nat : n = Len(stack)
  BY SequenceFacts DEF IInv, TypeOK
<1> PICK v : v = step.value
  OBVIOUS
<1> PICK f : f = [Top EXCEPT !.collected = Append(@, v)]
  OBVIOUS
<1>1. /\ step.op = "Deliver" /\ stack # << >> /\ ~ Returned
      /\ stack' = WithTop(f) /\ step' = Advance /\ UNCHANGED <<doc, objects>>
  BY DEF DeliverToFrame, Returned
<1>2. PlainOpen /\ Ranked(doc, objects) /\ Settles(doc, PlainAsked, Return(v))
  BY <1>1 DEF PlainInv
<1> PICK b : b = PlainListing(n)
  OBVIOUS
<1>3. n \in 1 .. Len(stack) /\ n >= 1 /\ Top = stack[n] /\ Awaiting(n) /\ step.op # "Err"
  BY <1>1, TopFrame DEF Awaiting
<1>4. /\ b.kind # "object" /\ IsPlain(b) /\ Asks(doc, b)
      /\ b.refs = Refs(Top) /\ b.path = Path(n + 1) /\ b.collected = Top.collected
  BY <1>2, <1>3, PlainParent
<1>5. f.off = Top.off /\ f.index = Top.index /\ f.collected = Append(Top.collected, v)
  BY <1>1, TopFrame DEF FrameOK
<1>6. PlainAsked = ChildCall(b)
  BY <1>1, <1>3, PlainCalls
<1>7. Return(v).op # "Err" /\ Return(v).value = v
  BY DEF Return
<1> PICK rest : rest = ListCall(Refs(Top), Path(n + 1), << >>, "plain", f.collected)
  OBVIOUS
<1>8. \A out : Settles(doc, rest, out) => Settles(doc, b, out)
  <2>1. rest = ListCall(b.refs, b.path, << >>, "plain", Append(b.collected, Return(v).value))
    BY <1>4, <1>5, <1>7
  <2>2. \A out : Settles(doc, ListCall(b.refs, b.path, << >>, "plain",
                                       Append(b.collected, Return(v).value)), out)
                    => Return(v).op = "Err" \/ Settles(doc, b, out)
    BY <1>2, <1>4, <1>6, ListSettles
  <2> QED BY <1>7, <2>1, <2>2
<1>9. PlainLeads(PlainEntered(n), rest)
  <2>1. PlainLeads(PlainEntered(n), b)
    BY <1>2, <1>3 DEF PlainOpen
  <2> QED BY <1>8, <2>1 DEF PlainLeads
<1>10. PlainOpen'
  <2>1. IInv /\ n \in Nat /\ n = Len(stack) /\ doc.refSizeLegal
        /\ PlainLeads(PlainEntered(n),
                      ListCall(Refs(Top), Path(n + 1), << >>, "plain", f.collected))
    BY <1>4, <1>9 DEF Asks
  <2> QED BY ONLY <1>1, <1>2, <1>5, <2>1, PlainReplaced
<1>11. ~ Returned' /\ step'.op # "Deliver"
  BY <1>1 DEF Returned, Advance
<1>12. Ranked(doc, objects)'
  BY <1>1, <1>2
<1> QED BY <1>10, <1>11, <1>12 DEF PlainInv

LEMMA PlainDeliversOut ==
  ASSUME IInv, PlainInv, DeliverOut
  PROVE  PlainInv'
<1>1. /\ step.op = "Deliver" /\ stack = << >> /\ step' = Return(step.value)
      /\ UNCHANGED <<doc, objects>>
  BY DEF DeliverOut
<1>2. Len(stack) = 0
  BY <1>1, EmptySequence
<1>3. PlainAsked = WholeCall(doc, "plain")
  <2>1. step.op # "Err" /\ 0 \in Nat
    BY <1>1
  <2> QED BY <1>2, <2>1, PlainCalls
<1>4. Settles(doc, WholeCall(doc, "plain"), step)' /\ Ranked(doc, objects)'
  BY <1>1, <1>3 DEF PlainInv
<1>5. Returned' /\ step'.op # "Deliver"
  BY <1>1 DEF Returned, Return
<1> QED BY <1>4, <1>5 DEF PlainInv

LEMMA PlainStutter ==
  ASSUME IInv, PlainInv, UNCHANGED vars
  PROVE  PlainInv'
<1>1. UNCHANGED <<doc, objects, stack, step>>
  BY DEF vars
<1> QED BY <1>1 DEF PlainInv, PlainOpen, PlainLeads, PlainEntered, PlainListing, PlainAsked,
                    Path, PathIn, Refs, Asked, Top, Returned

LEMMA NextPlain ==
  ASSUME IInv, PlainInv, [Next]_vars
  PROVE  PlainInv'
<1>1. CASE Stop \/ UNCHANGED vars
  BY <1>1, PlainStutter DEF Stop
<1> QED BY <1>1, PlainResolve, PlainMemoized, PlainOpens, PlainCloses, PlainReads,
           PlainDelivers, PlainDeliversOut DEF Next

(* What is asked of the plain traversal, which resolves a shared object    *)
(* again at every reference: it returns the value or the error the loop    *)
(* returns, or it meets the depth cap, on every document: the memo of      *)
(* resolve_step (parser.rs:205-207) saves work and decides nothing else,   *)
(* which MemoOnlySavesWork checks on small documents.                      *)
THEOREM MemoSavesWork ==
  Spec => [](Returned => \A p : Returns(doc, WholeCall(doc, "plain"), p) => p.out \in {step, Cap})
<1>1. Init => PlainInv
  BY PlainInit
<1>2. IInv /\ PlainInv /\ [Next]_vars => PlainInv'
  BY NextPlain
<1>3. PlainInv =>
        (Returned => \A p : Returns(doc, WholeCall(doc, "plain"), p) => p.out \in {step, Cap})
  BY DEF PlainInv, Settles
<1> QED BY <1>1, <1>2, <1>3, Invariance, PTL DEF Spec

(* Objects that are finished refer to each other in no cycle: each has a   *)
(* rank above those of its children, by its offset, so that two objects at *)
(* one offset count as one.  It is what lets a value be cloned and dropped *)
(* after a memo hit, whatever the references of the file.                  *)
THEOREM FinishedAcyclic == Spec => []Ranked(doc, objects)
<1>1. Init => PlainInv
  BY PlainInit
<1>2. IInv /\ PlainInv /\ [Next]_vars => PlainInv'
  BY NextPlain
<1>3. PlainInv => Ranked(doc, objects)
  BY DEF PlainInv
<1> QED BY <1>1, <1>2, <1>3, Invariance, PTL DEF Spec

=============================================================================
