--------------------------- MODULE XmlParser_proofs ---------------------------
(***************************************************************************)
(* Proofs about the XML parser, for every alphabet of tokens, every length *)
(* of a document and every depth cap.                                      *)
(***************************************************************************)
EXTENDS XmlParser, Stacks

-----------------------------------------------------------------------------
(***************************************************************************)
(* The inductive invariant.                                                *)
(***************************************************************************)
Shape ==
  /\ IsSequence(stack) /\ IsSequence(input)
  /\ opened \in Nat /\ depth \in Nat /\ recognized \in BOOLEAN /\ poison \in BOOLEAN

(* A loop over a body or over what it skips has the fields it works on. *)
IsBody(s) == s = [op |-> "Body", name |-> s.name, text |-> s.text]
IsSkip(s) == s = [op |-> "Skip", balance |-> s.balance, then |-> s.then]

LEMMA LoopFields ==
  ASSUME NEW name, NEW text, NEW balance, NEW then
  PROVE  /\ IsBody(Body(name, text))
         /\ IsSkip(Skip(balance, then))
         /\ \A s : IsBody(s) => IsBody([s EXCEPT !.text = text])
         /\ \A s : IsSkip(s) => IsSkip([s EXCEPT !.balance = balance])
BY DEF IsBody, IsSkip, Body, Skip

(* What the parser is in the middle of: a key is read into the dictionary  *)
(* on top of the stack, and until an element is recognized there is none.  *)
StepShape ==
  /\ step.op \in {"Document", "Advance", "Body", "Skip", "Open", "Deliver", "Ok", "Err"}
  /\ step.op = "Advance" => stack # << >>
  /\ step.op = "Body" => IsBody(step)
  /\ step.op = "Body" /\ step.name = "key" => stack # << >>
  /\ step.op = "Skip" =>
       /\ IsSkip(step)
       /\ step.then.op = "Body" => IsBody(step.then)
       /\ step.balance \in Nat \ {0}
       /\ step.then.op \in {"Body", "Deliver"}
       /\ step.then.op = "Body" /\ step.then.name = "key" => stack # << >>
  /\ ~ recognized => stack = << >> /\ step.op \in {"Document", "Open", "Err"}
  /\ step.op = "Document" => ~ recognized

(* The first element of the input, if there is one. *)
HasFirst == \E k \in DOMAIN input : IsElement(input[k]) /\ \A j \in 1 .. k - 1 : ~ IsElement(input[j])

FirstFound ==
  /\ step.op = "Document" => \A k \in DOMAIN input : ~ IsElement(input[k])
  /\ recognized \/ step.op = "Open" => HasFirst

IsFrame(f) == f = [name |-> f.name, collected |-> f.collected, key |-> f.key]

(* A wrapper stands below nothing, or it is one inside another element. *)
WrappersFirst ==
  /\ \A d \in 1 .. Len(stack) : IsFrame(stack[d]) /\ (stack[d].name = "plist" => d = 1 \/ NestedWrapper)
  /\ step.op = "Open" /\ ~ step.empty /\ step.name = "plist" /\ stack # << >> => NestedWrapper

(* The elements in sight, with the one that is about to be opened. *)
InSight == Unfinished + (IF step.op = "Open" /\ ~ step.empty THEN 1 ELSE 0)

(* A root that was in a wrapper is answered before the wrapper's own End.  *)
MarkupTracked ==
  ~ Returned =>
    /\ opened >= InSight
    /\ ~ poison /\ ~ NestedWrapper /\ ~ (step.op = "Deliver" /\ stack = << >>) => opened = InSight

IInv ==
  /\ Shape
  /\ StepShape
  /\ FirstFound
  /\ WrappersFirst
  /\ DepthBalanced
  /\ MarkupTracked
  /\ RetryOnlyBeforeRecognition

-----------------------------------------------------------------------------
(***************************************************************************)
(* What reading a token does to the history and to the open elements.      *)
(***************************************************************************)
IsFirst(k, tokens) == k \in DOMAIN tokens /\ IsElement(tokens[k]) /\ \A j \in 1 .. k - 1 : ~ IsElement(tokens[j])

(* There is one first element. *)
LEMMA TheFirst ==
  ASSUME NEW tokens, IsSequence(tokens), NEW k, IsFirst(k, tokens)
  PROVE  (CHOOSE f \in DOMAIN tokens : IsElement(tokens[f]) /\ \A j \in 1 .. f - 1 : ~ IsElement(tokens[j])) = k
<1> PICK f : f = CHOOSE i \in DOMAIN tokens : IsElement(tokens[i]) /\ \A j \in 1 .. i - 1 : ~ IsElement(tokens[j])
  OBVIOUS
<1>1. IsFirst(f, tokens)
  BY DEF IsFirst
<1>2. DOMAIN tokens = 1 .. Len(tokens) /\ Len(tokens) \in Nat
  BY SequenceFacts
<1>3. f \in 1 .. Len(tokens) /\ k \in 1 .. Len(tokens)
  BY <1>1, <1>2 DEF IsFirst
<1>4. ~ (k < f) /\ ~ (f < k)
  BY <1>1, <1>2, <1>3 DEF IsFirst
<1>5. f = k
  BY <1>2, <1>3, <1>4
<1> QED BY <1>5

LEMMA AppendInput ==
  ASSUME IsSequence(input), NEW t, input' = Append(input, t)
  PROVE  /\ IsSequence(input')
         /\ HasFirst => /\ HasFirst'
                        /\ NestedWrapper => NestedWrapper'
                        /\ t.kind = "Start" /\ t.name = "plist" => NestedWrapper'
         /\ (\A k \in DOMAIN input : ~ IsElement(input[k])) =>
              IF IsElement(t) THEN HasFirst' ELSE \A k \in DOMAIN input' : ~ IsElement(input'[k])
<1> PICK n \in Nat : n = Len(input) /\ DOMAIN input = 1 .. n
  BY SequenceFacts
<1>1. /\ IsSequence(input') /\ Len(input') = n + 1
      /\ \A k \in 1 .. n : input'[k] = input[k]
      /\ input'[n + 1] = t
  <2>1. input' = Extended(input, t)
    BY DEF Extended
  <2> QED BY <2>1, AppendSequence
<1>2. DOMAIN input' = 1 .. n + 1
  BY <1>1, SequenceFacts
<1>3. ASSUME HasFirst
      PROVE  /\ HasFirst'
             /\ NestedWrapper => NestedWrapper'
             /\ t.kind = "Start" /\ t.name = "plist" => NestedWrapper'
  <2> PICK k \in 1 .. n : IsElement(input[k]) /\ \A j \in 1 .. k - 1 : ~ IsElement(input[j])
    BY <1>3 DEF HasFirst
  <2>1. FirstElement = k
    <3>1. IsFirst(k, input)
      BY DEF IsFirst
    <3> QED BY <3>1, TheFirst DEF FirstElement
  <2>2. IsElement(input'[k]) /\ \A j \in 1 .. k - 1 : ~ IsElement(input'[j])
    BY <1>1
  <2>3. FirstElement' = k
    <3>1. IsFirst(k, input')
      BY <1>2, <2>2 DEF IsFirst
    <3> QED BY <1>1, <3>1, TheFirst DEF FirstElement
  <2>4. HasFirst'
    BY <1>2, <2>2 DEF HasFirst
  <2>5. ASSUME NestedWrapper PROVE NestedWrapper'
    BY <1>1, <1>2, <2>1, <2>3, <2>5 DEF NestedWrapper
  <2>6. ASSUME t.kind = "Start", t.name = "plist" PROVE NestedWrapper'
    BY <1>1, <1>2, <2>3, <2>6 DEF NestedWrapper
  <2> QED BY <2>4, <2>5, <2>6
<1>4. ASSUME \A k \in 1 .. n : ~ IsElement(input[k])
      PROVE  IF IsElement(t) THEN HasFirst' ELSE \A k \in DOMAIN input' : ~ IsElement(input'[k])
  <2>1. CASE IsElement(t)
    <3>1. n + 1 \in DOMAIN input' /\ IsElement(input'[n + 1])
      BY <1>1, <1>2, <2>1
    <3>2. \A j \in 1 .. (n + 1) - 1 : ~ IsElement(input'[j])
      BY <1>1, <1>4
    <3> QED BY <2>1, <3>1, <3>2 DEF HasFirst
  <2>2. CASE ~ IsElement(t)
    BY <1>1, <1>2, <1>4, <2>2
  <2> QED BY <2>1, <2>2
<1> QED BY <1>1, <1>3, <1>4

(* Reading a token, but for what becomes of the stack and of step.         *)
Opened(t) == IF t.kind = "Start" THEN 1 ELSE IF t = End THEN -1 ELSE 0

LEMMA PullFacts ==
  ASSUME IInv, NEW t, Pull(t)
  PROVE  /\ ~ poison /\ poison' = poison /\ recognized' = recognized
         /\ opened' = opened + Opened(t) /\ opened' \in Nat
         /\ IsSequence(input') /\ input' = Append(input, t)
<1>1. t = End => t.kind = "End"
  BY DEF End
<1>2. /\ ~ poison /\ poison' = poison /\ recognized' = recognized
      /\ input' = Append(input, t) /\ opened \in Nat
      /\ t = End => opened > 0
  BY DEF Pull, Readable, IInv, Shape
<1>3. opened' = opened + Opened(t)
  <2>1. CASE t.kind = "Start"
    BY <1>1, <2>1 DEF Pull, Opened
  <2>2. CASE t = End
    BY <1>1, <2>2 DEF Pull, Opened
  <2>3. CASE t.kind # "Start" /\ t # End
    BY <2>3 DEF Pull, Opened
  <2> QED BY <2>1, <2>2, <2>3
<1>4. opened' \in Nat
  BY <1>1, <1>2, <1>3 DEF Opened
<1>5. IsSequence(input')
  BY <1>2, AppendInput DEF IInv, Shape
<1> QED BY <1>2, <1>3, <1>4, <1>5

LEMMA InputKept ==
  ASSUME input' = input
  PROVE  (HasFirst' <=> HasFirst) /\ (NestedWrapper' <=> NestedWrapper)
BY DEF HasFirst, NestedWrapper, FirstElement

(* Past the first element: what a read keeps of the history.               *)
LEMMA ReadOn ==
  ASSUME IInv, NEW t, Pull(t), recognized
  PROVE  /\ HasFirst' /\ recognized' /\ step.op # "Document"
         /\ NestedWrapper => NestedWrapper'
         /\ t.kind = "Start" /\ t.name = "plist" => NestedWrapper'
         /\ opened >= InSight
         /\ ~ NestedWrapper' => opened = InSight
<1>1. HasFirst /\ step.op # "Document" /\ IsSequence(input) /\ input' = Append(input, t)
  BY PullFacts DEF IInv, FirstFound, StepShape, Shape
<1>2. /\ HasFirst' /\ (NestedWrapper => NestedWrapper')
      /\ t.kind = "Start" /\ t.name = "plist" => NestedWrapper'
  BY <1>1, AppendInput
<1>3. recognized' /\ ~ poison
  BY PullFacts
<1>4. ~ Returned /\ step.op # "Deliver"
  BY DEF Pull, Reading, Returned
<1>5. opened >= InSight /\ (~ NestedWrapper => opened = InSight)
  BY <1>3, <1>4 DEF IInv, MarkupTracked
<1> QED BY <1>1, <1>2, <1>3, <1>5

-----------------------------------------------------------------------------
(***************************************************************************)
(* The steps that read a token.                                            *)
(***************************************************************************)
LEMMA InitIInv == Init => IInv
<1> SUFFICES ASSUME Init PROVE IInv
  OBVIOUS
<1>1. IsSequence(<< >>) /\ Len(<< >>) = 0 /\ DOMAIN << >> = {}
  <2>1. << >> \in Seq({}) /\ Len(<< >>) = 0
    BY EmptySeq
  <2>2. IsSequence(<< >>)
    BY <2>1, SequenceOfElements
  <2>3. DOMAIN << >> = 1 .. Len(<< >>)
    BY <2>2, SequenceFacts
  <2> QED BY <2>1, <2>2, <2>3
<1>2. Shape
  BY <1>1 DEF Init, Shape
<1>3. StepShape /\ FirstFound /\ RetryOnlyBeforeRecognition
  BY <1>1 DEF Init, StepShape, FirstFound, RetryOnlyBeforeRecognition, Document
<1>4. WrappersFirst
  BY <1>1 DEF Init, WrappersFirst, Document
<1>5. DepthBalanced
  BY <1>1, XmlAssumption DEF Init, DepthBalanced, BurnedByLeaf, Document
<1>6. MarkupTracked
  BY <1>1 DEF Init, MarkupTracked, InSight, Unfinished, Document
<1> QED BY <1>2, <1>3, <1>4, <1>5, <1>6 DEF IInv

LEMMA PullShape ==
  ASSUME IInv, NEW t, Pull(t), IsSequence(stack'), depth' \in Nat
  PROVE  Shape'
<1>1. poison' = poison /\ recognized' = recognized /\ opened' \in Nat /\ IsSequence(input')
  BY PullFacts
<1>2. poison \in BOOLEAN /\ recognized \in BOOLEAN
  BY DEF IInv, Shape
<1>3. poison' \in BOOLEAN /\ recognized' \in BOOLEAN
  BY <1>1, <1>2
<1> QED BY <1>1, <1>3 DEF Shape

(* A parse that has failed is only asked for the kind of its failure.      *)
LEMMA ErrIInv ==
  ASSUME IInv, Shape', WrappersFirst', step'.op = "Err", recognized' => HasFirst', ~ recognized' => stack' = << >>,
         RetryOnlyBeforeRecognition'
  PROVE  IInv'
<1>1. StepShape' /\ FirstFound'
  BY DEF StepShape, FirstFound
<1>2. DepthBalanced' /\ MarkupTracked'
  BY DEF DepthBalanced, MarkupTracked, Returned
<1> QED BY <1>1, <1>2 DEF IInv

(* The stack and the history, when a read leaves the stack as it is.       *)
LEMMA StackKept ==
  ASSUME IInv, UNCHANGED stack, NestedWrapper => NestedWrapper', step'.op # "Open"
  PROVE  WrappersFirst' /\ Len(stack') = Len(stack) /\ Len(stack) \in Nat
<1>1. Len(stack) \in Nat
  BY SequenceFacts DEF IInv, Shape
<1>2. WrappersFirst'
  BY DEF IInv, WrappersFirst
<1> QED BY <1>1, <1>2

LEMMA ReadDocumentIInv ==
  ASSUME IInv, NEW t, ReadDocument(t)
  PROVE  IInv'
<1>1. /\ step.op = "Document" /\ Pull(t) /\ UNCHANGED <<stack, depth>>
      /\ ~ recognized /\ stack = << >> /\ IsSequence(stack) /\ Len(stack) = 0
  BY SequenceFacts DEF ReadDocument, IInv, StepShape, Shape
<1>2. /\ ~ poison /\ ~ poison' /\ ~ recognized' /\ opened' = opened + Opened(t) /\ opened' \in Nat
      /\ IsSequence(input') /\ input' = Append(input, t)
  BY <1>1, PullFacts
<1>3. \A k \in DOMAIN input : ~ IsElement(input[k])
  BY <1>1 DEF IInv, FirstFound
<1>4. IF IsElement(t) THEN HasFirst' ELSE \A k \in DOMAIN input' : ~ IsElement(input'[k])
  BY <1>1, <1>2, <1>3, AppendInput DEF IInv, Shape
<1>5. Shape'
  BY <1>1, PullShape DEF IInv, Shape
<1>6. WrappersFirst'
  BY <1>1 DEF WrappersFirst
<1>7. opened = 0 /\ depth = 0 /\ 0 <= MaxParseDepth
  <2>1. ~ NestedWrapper
    BY <1>3 DEF NestedWrapper, IsElement
  <2> QED BY <1>1, <1>2, <2>1, XmlAssumption
          DEF IInv, MarkupTracked, DepthBalanced, Returned, InSight, Unfinished, BurnedByLeaf
<1>8. CASE IsElement(t)
  <2>1. step' = Open(t)
    BY <1>8 DEF ReadDocument
  <2>2. step'.op = "Open" /\ (step'.empty <=> t.kind = "Empty")
    BY <2>1 DEF Open
  <2>3. StepShape' /\ FirstFound' /\ RetryOnlyBeforeRecognition'
    BY <1>1, <1>2, <1>4, <1>8, <2>2 DEF StepShape, FirstFound, RetryOnlyBeforeRecognition
  <2>4. DepthBalanced'
    BY <1>1, <1>7, <2>2 DEF DepthBalanced, BurnedByLeaf
  <2>5. MarkupTracked'
    <3>1. Opened(t) = IF t.kind = "Start" THEN 1 ELSE 0
      BY <1>8 DEF Opened, End, IsElement
    <3>2. Unfinished' = 0
      BY <1>1, <2>2 DEF Unfinished
    <3>3. InSight' = Opened(t)
      BY <1>8, <2>2, <3>1, <3>2 DEF InSight, IsElement
    <3> QED BY <1>2, <1>7, <3>1, <3>3 DEF MarkupTracked
  <2> QED BY <1>5, <1>6, <2>3, <2>4, <2>5 DEF IInv
<1>9. CASE ~ IsElement(t)
  <2>1. step' = step
    BY <1>9 DEF ReadDocument
  <2>2. StepShape' /\ FirstFound' /\ RetryOnlyBeforeRecognition'
    BY <1>1, <1>2, <1>4, <1>9, <2>1 DEF StepShape, FirstFound, RetryOnlyBeforeRecognition
  <2>3. DepthBalanced'
    BY <1>1, <1>7, <2>1 DEF DepthBalanced, BurnedByLeaf
  <2>4. MarkupTracked'
    <3>1. opened' = 0
      BY <1>2, <1>7, <1>9 DEF Opened, IsElement
    <3>2. InSight' = 0
      BY <1>1, <2>1 DEF InSight, Unfinished
    <3> QED BY <3>1, <3>2 DEF MarkupTracked
  <2> QED BY <1>5, <1>6, <2>2, <2>3, <2>4 DEF IInv
<1> QED BY <1>8, <1>9

(* A read past the first element that goes on: what is in sight changes by *)
(* what the token opens or closes, and the rest is the action's.           *)
LEMMA OnIInv ==
  ASSUME IInv, NEW t, Pull(t), recognized,
         step'.op \in {"Advance", "Body", "Skip", "Open", "Deliver"},
         IsSequence(stack'), depth' \in Nat, InSight' = InSight + Opened(t),
         StepShape', WrappersFirst', DepthBalanced'
  PROVE  IInv'
<1>1. Shape'
  BY PullShape
<1>2. /\ HasFirst' /\ recognized'
      /\ opened >= InSight /\ (~ NestedWrapper' => opened = InSight)
  BY ReadOn
<1>3. FirstFound' /\ RetryOnlyBeforeRecognition'
  BY <1>2 DEF FirstFound, RetryOnlyBeforeRecognition
<1>4. opened' = opened + Opened(t) /\ opened \in Nat /\ Opened(t) \in Int
  <2>1. opened' = opened + Opened(t)
    BY PullFacts
  <2>2. Opened(t) \in Int
    BY DEF Opened
  <2> QED BY <2>1, <2>2 DEF IInv, Shape
<1>5. InSight \in Int
  <2>1. Len(stack) \in Nat
    BY SequenceFacts DEF IInv, Shape
  <2> QED BY <2>1 DEF IInv, StepShape, InSight, Unfinished, SkipsBoolean
<1>6. opened' >= InSight' /\ (~ NestedWrapper' => opened' = InSight')
  BY <1>2, <1>4, <1>5
<1>7. MarkupTracked'
  BY <1>6 DEF MarkupTracked
<1> QED BY <1>1, <1>3, <1>7 DEF IInv

(* Of the loops over tokens each runs in a recognized document.            *)
LEMMA InLoop ==
  ASSUME IInv, step.op \in {"Advance", "Body", "Skip"}
  PROVE  /\ recognized /\ ~ Returned
         /\ IsSequence(stack) /\ Len(stack) \in Nat /\ depth \in Nat
         /\ depth = Len(stack) + BurnedByLeaf /\ depth <= MaxParseDepth
BY SequenceFacts DEF IInv, Shape, StepShape, Returned, DepthBalanced

(* A read that fails: nothing but step changes.                            *)
LEMMA ReadFails ==
  ASSUME IInv, NEW t, Pull(t), recognized, UNCHANGED <<stack, depth>>, step' = Error("Parse")
  PROVE  IInv'
<1>1. step'.op = "Err" /\ step'.kind = "Parse"
  BY DEF Error
<1>2. HasFirst' /\ recognized' /\ (NestedWrapper => NestedWrapper')
  BY ReadOn
<1>3. Shape'
  BY PullShape DEF IInv, Shape
<1>4. WrappersFirst'
  BY <1>1, <1>2, StackKept
<1>5. RetryOnlyBeforeRecognition'
  BY <1>1, <1>2 DEF RetryOnlyBeforeRecognition
<1> QED BY <1>1, <1>2, <1>3, <1>4, <1>5, ErrIInv

LEMMA ReadChildIInv ==
  ASSUME IInv, NEW t, ReadChild(t)
  PROVE  IInv'
<1>1. step.op = "Advance" /\ Pull(t) /\ UNCHANGED <<stack, depth>> /\ step' = Open(t) /\ IsElement(t)
  BY DEF ReadChild
<1>2. /\ step'.op = "Open" /\ step'.name = t.name /\ (step'.empty <=> t.kind = "Empty")
  BY <1>1 DEF Open
<1>3. recognized /\ Len(stack) \in Nat /\ stack # << >>
  BY <1>1, InLoop DEF IInv, StepShape
<1>4. /\ recognized' /\ (NestedWrapper => NestedWrapper')
      /\ t.kind = "Start" /\ t.name = "plist" => NestedWrapper'
  BY <1>1, <1>3, ReadOn
<1>5. StepShape'
  BY <1>2, <1>4 DEF StepShape
<1>6. WrappersFirst'
  BY <1>1, <1>2, <1>4 DEF IInv, WrappersFirst, IsElement
<1>7. DepthBalanced'
  BY <1>1, <1>2, InLoop DEF DepthBalanced, BurnedByLeaf
<1>8. InSight' = InSight + Opened(t)
  <2>1. Unfinished' = Len(stack) /\ InSight = Len(stack)
    BY <1>1, <1>2, <1>3 DEF InSight, Unfinished
  <2> QED BY <1>1, <1>2, <1>3, <2>1 DEF InSight, Opened, End, IsElement
<1> QED BY <1>1, <1>2, <1>3, <1>5, <1>6, <1>7, <1>8, InLoop, OnIInv

LEMMA IgnoreIInv ==
  ASSUME IInv, NEW t, Ignore(t)
  PROVE  IInv'
<1>1. step.op = "Advance" /\ Pull(t) /\ UNCHANGED <<stack, depth, step>> /\ Passed(t)
  BY DEF Ignore
<1>2. recognized /\ Len(stack) \in Nat /\ stack # << >>
  BY <1>1, InLoop DEF IInv, StepShape
<1>3. recognized' /\ (NestedWrapper => NestedWrapper')
  BY <1>1, <1>2, ReadOn
<1>4. StepShape' /\ WrappersFirst'
  BY <1>1, <1>2, <1>3, StackKept DEF StepShape
<1>5. DepthBalanced'
  BY <1>1, InLoop DEF DepthBalanced, BurnedByLeaf
<1>6. InSight' = InSight + Opened(t)
  BY <1>1, <1>2 DEF InSight, Unfinished, Opened, End, Passed
<1> QED BY <1>1, <1>2, <1>4, <1>5, <1>6, InLoop, OnIInv

-----------------------------------------------------------------------------
(* The frames, when the top is replaced, pushed or popped.                 *)
LEMMA TopReplaced ==
  ASSUME IInv, stack # << >>, NEW f, IsFrame(f), f.name = Top.name, stack' = WithTop(f),
         NestedWrapper => NestedWrapper', step'.op # "Open"
  PROVE  /\ WrappersFirst' /\ IsSequence(stack') /\ stack' # << >>
         /\ Len(stack') = Len(stack) /\ Len(stack) \in Nat
<1> PICK n \in Nat \ {0} : n = Len(stack)
  BY SequenceFacts DEF IInv, Shape
<1>1. /\ IsSequence(stack') /\ stack' # << >> /\ Len(stack') = n
      /\ stack'[n] = f /\ \A k \in 1 .. n : k # n => stack'[k] = stack[k]
  <2>1. stack' = Replaced(stack, f)
    BY DEF WithTop, Replaced
  <2> QED BY <2>1, ReplaceLast DEF IInv, Shape
<1>2. f.name = stack[n].name
  BY DEF Top
<1>3. ASSUME NEW d \in 1 .. n
      PROVE  IsFrame(stack'[d]) /\ (stack'[d].name = "plist" => d = 1 \/ NestedWrapper')
  <2>1. stack'[d].name = stack[d].name /\ (d = n => stack'[d] = f) /\ (d # n => stack'[d] = stack[d])
    BY <1>1, <1>2
  <2> QED BY <2>1 DEF IInv, WrappersFirst
<1>4. WrappersFirst'
  BY <1>1, <1>3 DEF WrappersFirst
<1> QED BY <1>1, <1>4

LEMMA TopPopped ==
  ASSUME IInv, stack # << >>, stack' = Pop, NestedWrapper => NestedWrapper', step'.op # "Open"
  PROVE  WrappersFirst' /\ IsSequence(stack') /\ Len(stack') = Len(stack) - 1 /\ Len(stack) \in Nat \ {0}
<1>1. /\ IsSequence(stack') /\ Len(stack) \in Nat \ {0} /\ Len(stack') = Len(stack) - 1
      /\ \A k \in 1 .. Len(stack') : stack'[k] = stack[k]
  <2>1. stack' = Popped(stack)
    BY DEF Pop, Popped
  <2> QED BY <2>1, PopSequence DEF IInv, Shape
<1>2. ASSUME NEW d \in 1 .. Len(stack')
      PROVE  IsFrame(stack'[d]) /\ (stack'[d].name = "plist" => d = 1 \/ NestedWrapper')
  <2>1. d \in 1 .. Len(stack) /\ stack'[d] = stack[d]
    BY <1>1
  <2> QED BY <2>1 DEF IInv, WrappersFirst
<1>3. WrappersFirst'
  BY <1>2 DEF WrappersFirst
<1> QED BY <1>1, <1>3

LEMMA TopIsFrame ==
  ASSUME IInv, stack # << >>
  PROVE  IsFrame(Top) /\ Len(stack) \in Nat \ {0}
<1>1. Len(stack) \in Nat \ {0}
  BY SequenceFacts DEF IInv, Shape
<1> QED BY <1>1 DEF IInv, WrappersFirst, Top

(* A key of the top frame. *)
LEMMA KeySet ==
  ASSUME NEW f, IsFrame(f), NEW k
  PROVE  IsFrame([f EXCEPT !.key = k]) /\ [f EXCEPT !.key = k].name = f.name
BY DEF IsFrame

LEMMA ReadKeyIInv ==
  ASSUME IInv, NEW t, ReadKey(t)
  PROVE  IInv'
<1>1. step.op = "Advance" /\ Pull(t) /\ depth' = depth /\ IsElement(t)
  BY DEF ReadKey
<1>2. recognized /\ Len(stack) \in Nat /\ stack # << >>
  BY <1>1, InLoop DEF IInv, StepShape
<1>3. recognized' /\ (NestedWrapper => NestedWrapper')
  BY <1>1, <1>2, ReadOn
<1>4. InSight = Len(stack)
  BY <1>1 DEF InSight, Unfinished
<1>5. CASE t.kind = "Empty"
  <2> PICK f : f = [Top EXCEPT !.key = {<< >>}]
    OBVIOUS
  <2>1. stack' = WithTop(f) /\ step' = step
    BY <1>5 DEF ReadKey
  <2>2. IsFrame(f) /\ f.name = Top.name
    BY <1>2, TopIsFrame, KeySet
  <2>3. /\ WrappersFirst' /\ IsSequence(stack') /\ stack' # << >> /\ Len(stack') = Len(stack)
    BY <1>1, <1>2, <1>3, <2>1, <2>2, TopReplaced
  <2>4. StepShape'
    BY <1>1, <1>3, <2>1, <2>3 DEF StepShape
  <2>5. DepthBalanced'
    BY <1>1, <2>1, <2>3, InLoop DEF DepthBalanced, BurnedByLeaf
  <2>6. InSight' = InSight + Opened(t)
    BY <1>1, <1>2, <1>4, <1>5, <2>1, <2>3 DEF InSight, Unfinished, Opened, End
  <2> QED BY <1>1, <1>2, <2>1, <2>3, <2>4, <2>5, <2>6, InLoop, OnIInv
<1>6. CASE t.kind # "Empty"
  <2>1. stack' = stack /\ step' = Body("key", << >>)
    BY <1>6 DEF ReadKey
  <2>2. step'.op = "Body" /\ step'.name = "key" /\ IsBody(step')
    BY <2>1, LoopFields DEF Body
  <2>3. StepShape' /\ WrappersFirst'
    BY <1>2, <1>3, <2>1, <2>2, StackKept DEF StepShape
  <2>4. DepthBalanced'
    BY <1>1, <2>1, <2>2, InLoop DEF DepthBalanced, BurnedByLeaf
  <2>5. InSight' = InSight + Opened(t)
    BY <1>1, <1>2, <1>4, <1>6, <2>1, <2>2 DEF InSight, Unfinished, Opened, IsElement
  <2> QED BY <1>1, <1>2, <2>1, <2>2, <2>3, <2>4, <2>5, InLoop, OnIInv
<1> QED BY <1>5, <1>6

LEMMA ReadEntryValueIInv ==
  ASSUME IInv, NEW t, ReadEntryValue(t)
  PROVE  IInv'
<1>1. step.op = "Advance" /\ Pull(t) /\ UNCHANGED <<stack, depth>> /\ IsElement(t)
  BY DEF ReadEntryValue
<1>2. recognized /\ Len(stack) \in Nat /\ stack # << >>
  BY <1>1, InLoop DEF IInv, StepShape
<1>3. CASE Top.key = {}
  <2>1. step' = Error("Parse")
    BY <1>3 DEF ReadEntryValue
  <2> QED BY <1>1, <1>2, <2>1, ReadFails
<1>4. CASE Top.key # {}
  <2>1. step' = Open(t)
    BY <1>4 DEF ReadEntryValue
  <2>2. /\ step'.op = "Open" /\ step'.name = t.name /\ (step'.empty <=> t.kind = "Empty")
    BY <2>1 DEF Open
  <2>3. /\ recognized' /\ (NestedWrapper => NestedWrapper')
        /\ t.kind = "Start" /\ t.name = "plist" => NestedWrapper'
    BY <1>1, <1>2, ReadOn
  <2>4. StepShape'
    BY <2>2, <2>3 DEF StepShape
  <2>5. WrappersFirst'
    BY <1>1, <2>2, <2>3 DEF IInv, WrappersFirst, IsElement
  <2>6. DepthBalanced'
    BY <1>1, <2>2, InLoop DEF DepthBalanced, BurnedByLeaf
  <2>7. InSight' = InSight + Opened(t)
    <3>1. Unfinished' = Len(stack) /\ InSight = Len(stack)
      BY <1>1, <2>2, <1>2 DEF InSight, Unfinished
    <3> QED BY <1>1, <2>2, <1>2, <3>1 DEF InSight, Opened, End, IsElement
  <2> QED BY <1>1, <1>2, <2>2, <2>4, <2>5, <2>6, <2>7, InLoop, OnIInv
<1> QED BY <1>3, <1>4

LEMMA CloseContainerIInv ==
  ASSUME IInv, NEW t, CloseContainer(t)
  PROVE  IInv'
<1>1. step.op = "Advance" /\ Pull(t) /\ t = End
  BY DEF CloseContainer
<1>2. recognized /\ Len(stack) \in Nat /\ stack # << >> /\ depth = Len(stack) /\ depth <= MaxParseDepth
  BY <1>1, InLoop DEF IInv, StepShape, BurnedByLeaf
<1>3. CASE Top.name = "plist" \/ Top.key # {}
  BY <1>1, <1>2, <1>3, ReadFails DEF CloseContainer
<1>4. CASE ~ (Top.name = "plist" \/ Top.key # {})
  <2>1. step' = Deliver(Finished(Top)) /\ stack' = Pop /\ depth' = depth - 1
    BY <1>4 DEF CloseContainer
  <2>2. step'.op = "Deliver"
    BY <2>1 DEF Deliver
  <2>3. recognized' /\ (NestedWrapper => NestedWrapper')
    BY <1>1, <1>2, ReadOn
  <2>4. WrappersFirst' /\ IsSequence(stack') /\ Len(stack') = Len(stack) - 1 /\ Len(stack) \in Nat \ {0}
    BY <1>2, <2>1, <2>2, <2>3, TopPopped
  <2>5. StepShape'
    BY <2>2, <2>3 DEF StepShape
  <2>6. DepthBalanced' /\ depth' \in Nat
    BY <1>2, <2>1, <2>2, <2>4, XmlAssumption DEF DepthBalanced, BurnedByLeaf
  <2>7. InSight' = InSight + Opened(t)
    BY <1>1, <2>2, <2>4 DEF InSight, Unfinished, Opened, End
  <2> QED BY <1>1, <1>2, <2>2, <2>4, <2>5, <2>6, <2>7, OnIInv
<1> QED BY <1>3, <1>4

LEMMA ReadBodyIInv ==
  ASSUME IInv, NEW t, ReadBody(t)
  PROVE  IInv'
<1>1. step.op = "Body" /\ Pull(t) /\ UNCHANGED <<stack, depth>> /\ t # End
  BY DEF ReadBody
<1>2. recognized /\ Len(stack) \in Nat
  BY <1>1, InLoop
<1>3. recognized' /\ (NestedWrapper => NestedWrapper')
  BY <1>1, <1>2, ReadOn
<1>4. InSight = Len(stack) + 1
  BY <1>1 DEF InSight, Unfinished
<1>5. depth = Len(stack) + (IF step.name = "key" THEN 0 ELSE 1) /\ depth <= MaxParseDepth
  BY <1>1, InLoop DEF BurnedByLeaf
<1>6. CASE t.kind = "Start"
  <2>1. step' = Skip(1, step)
    BY <1>6 DEF ReadBody
  <2>2. step'.op = "Skip" /\ step'.balance = 1 /\ step'.then = step /\ IsSkip(step')
    BY <2>1, LoopFields DEF Skip
  <2>3. StepShape' /\ WrappersFirst'
    <3>1. StepShape'
      BY <1>1, <1>3, <2>2 DEF IInv, StepShape
    <3> QED BY <1>1, <1>3, <2>2, <3>1, StackKept
  <2>4. ~ SkipsBoolean'
    BY <1>1, <2>2 DEF SkipsBoolean
  <2>5. DepthBalanced'
    BY <1>1, <1>5, <2>2, <2>4 DEF DepthBalanced, BurnedByLeaf
  <2>6. InSight' = InSight + Opened(t)
    BY <1>1, <1>2, <1>4, <1>6, <2>2, <2>4 DEF InSight, Unfinished, Opened
  <2> QED BY <1>1, <1>2, <2>2, <2>3, <2>5, <2>6, InLoop, OnIInv
<1>7. CASE t.kind # "Start"
  <2>1. step'.op = "Body" /\ step'.name = step.name /\ IsBody(step')
    <3>1. IsBody(step)
      BY <1>1 DEF IInv, StepShape
    <3>2. CASE t.kind = "Text"
      <4> PICK text : text = step.text \o t.chunk
        OBVIOUS
      <4>1. step' = [step EXCEPT !.text = text]
        BY <3>2 DEF ReadBody
      <4>2. step'.op = "Body" /\ step'.name = step.name
        BY <1>1, <4>1
      <4> QED BY <3>1, <4>1, <4>2, LoopFields
    <3>3. CASE t.kind # "Text"
      BY <1>1, <1>7, <3>1, <3>3 DEF ReadBody
    <3> QED BY <3>2, <3>3
  <2>2. StepShape' /\ WrappersFirst'
    <3>1. StepShape'
      BY <1>1, <1>3, <2>1 DEF IInv, StepShape
    <3> QED BY <1>1, <1>3, <2>1, <3>1, StackKept
  <2>3. DepthBalanced'
    BY <1>1, <1>5, <2>1 DEF DepthBalanced, BurnedByLeaf
  <2>4. InSight' = InSight + Opened(t)
    BY <1>1, <1>2, <1>4, <1>7, <2>1 DEF InSight, Unfinished, Opened
  <2> QED BY <1>1, <1>2, <2>1, <2>2, <2>3, <2>4, InLoop, OnIInv
<1> QED BY <1>6, <1>7

LEMMA FinishBodyIInv ==
  ASSUME IInv, NEW t, FinishBody(t)
  PROVE  IInv'
<1>1. step.op = "Body" /\ Pull(t) /\ t = End
  BY DEF FinishBody
<1>2. recognized /\ Len(stack) \in Nat /\ IsSequence(stack) /\ depth \in Nat
  BY <1>1, InLoop
<1>3. recognized' /\ (NestedWrapper => NestedWrapper')
  BY <1>1, <1>2, ReadOn
<1>4. InSight = Len(stack) + 1 /\ Opened(t) = -1
  BY <1>1 DEF InSight, Unfinished, Opened, End
<1>5. depth = Len(stack) + (IF step.name = "key" THEN 0 ELSE 1) /\ depth <= MaxParseDepth
  BY <1>1, InLoop DEF BurnedByLeaf
<1>6. CASE step.name = "key"
  <2> PICK f : f = [Top EXCEPT !.key = {step.text}]
    OBVIOUS
  <2>1. stack' = WithTop(f) /\ step' = Advance /\ depth' = depth
    BY <1>6 DEF FinishBody
  <2>2. stack # << >> /\ step'.op = "Advance"
    BY <1>1, <1>6, <2>1 DEF IInv, StepShape, Advance
  <2>3. IsFrame(f) /\ f.name = Top.name
    BY <2>2, TopIsFrame, KeySet
  <2>4. WrappersFirst' /\ IsSequence(stack') /\ stack' # << >> /\ Len(stack') = Len(stack)
    BY <1>3, <2>1, <2>2, <2>3, TopReplaced
  <2>5. StepShape'
    BY <1>3, <2>2, <2>4 DEF StepShape
  <2>6. DepthBalanced'
    BY <1>5, <1>6, <2>1, <2>2, <2>4 DEF DepthBalanced, BurnedByLeaf
  <2>7. InSight' = InSight + Opened(t)
    BY <1>2, <1>4, <2>2, <2>4 DEF InSight, Unfinished
  <2> QED BY <1>1, <1>2, <2>1, <2>2, <2>4, <2>5, <2>6, <2>7, OnIInv
<1>7. CASE step.name # "key" /\ Decoded(step.name, step.text) # {}
  <2>1. step'.op = "Deliver" /\ depth' = depth - 1 /\ stack' = stack
    BY <1>7 DEF FinishBody, Deliver
  <2>2. WrappersFirst'
    BY <1>3, <2>1, StackKept
  <2>3. StepShape'
    BY <1>3, <2>1 DEF StepShape
  <2>4. DepthBalanced' /\ depth' \in Nat
    BY <1>2, <1>5, <1>7, <2>1, XmlAssumption DEF DepthBalanced, BurnedByLeaf
  <2>5. InSight' = InSight + Opened(t)
    BY <1>2, <1>4, <2>1 DEF InSight, Unfinished
  <2> QED BY <1>1, <1>2, <2>1, <2>2, <2>3, <2>4, <2>5, OnIInv
<1>8. CASE step.name # "key" /\ Decoded(step.name, step.text) = {}
  <2>1. step' = Error("Parse") /\ UNCHANGED <<stack, depth>>
    BY <1>8 DEF FinishBody
  <2> QED BY <1>1, <1>2, <2>1, ReadFails
<1> QED BY <1>6, <1>7, <1>8

(* What a skip leaves untouched: its balance apart, it is the same skip.   *)
LEMMA ReadSkippedIInv ==
  ASSUME IInv, NEW t, ReadSkipped(t)
  PROVE  IInv'
<1>1. step.op = "Skip" /\ Pull(t) /\ UNCHANGED <<stack, depth>> /\ (t = End => step.balance > 1)
  BY DEF ReadSkipped
<1>2. recognized /\ Len(stack) \in Nat /\ IsSequence(stack) /\ depth \in Nat
  BY <1>1, InLoop
<1>3. recognized' /\ (NestedWrapper => NestedWrapper')
  BY <1>1, <1>2, ReadOn
<1>4. /\ step.balance \in Nat \ {0} /\ step.then.op \in {"Body", "Deliver"}
      /\ step.then.op = "Body" /\ step.then.name = "key" => stack # << >>
      /\ step.then.op = "Body" => IsBody(step.then)
  BY <1>1 DEF IInv, StepShape
<1>5. /\ step'.op = "Skip" /\ step'.then = step.then
      /\ step'.balance = step.balance + Opened(t)
  <2>1. t = End => t.kind = "End"
    BY DEF End
  <2>2. CASE t.kind = "Start"
    <3>1. step' = [step EXCEPT !.balance = @ + 1]
      BY <2>1, <2>2 DEF ReadSkipped
    <3>2. step'.op = "Skip" /\ step'.then = step.then
      BY <1>1, <3>1
    <3> QED BY <2>2, <3>1, <3>2 DEF Opened
  <2>3. CASE t = End
    <3>1. step' = [step EXCEPT !.balance = @ - 1]
      BY <2>1, <2>3 DEF ReadSkipped
    <3> QED BY <1>1, <1>4, <2>1, <2>3, <3>1 DEF Opened
  <2>4. CASE t.kind # "Start" /\ t # End
    <3>1. step' = step
      BY <2>4 DEF ReadSkipped
    <3> QED BY <1>1, <1>4, <2>4, <3>1 DEF Opened
  <2> QED BY <2>2, <2>3, <2>4
<1>6. IsSkip(step')
  <2>1. IsSkip(step)
    BY <1>1 DEF IInv, StepShape
  <2>2. \/ step' = step
        \/ step' = [step EXCEPT !.balance = @ + 1]
        \/ step' = [step EXCEPT !.balance = @ - 1]
    BY DEF ReadSkipped
  <2> PICK more, less : more = step.balance + 1 /\ less = step.balance - 1
    OBVIOUS
  <2>3. \/ step' = step
        \/ step' = [step EXCEPT !.balance = more]
        \/ step' = [step EXCEPT !.balance = less]
    BY <2>2
  <2> QED BY <2>1, <2>3, LoopFields
<1>7. step'.balance \in Nat \ {0}
  BY <1>1, <1>4, <1>5 DEF Opened
<1>8. StepShape' /\ WrappersFirst'
  <2>1. StepShape'
    BY <1>1, <1>3, <1>4, <1>5, <1>6, <1>7 DEF StepShape
  <2> QED BY <1>1, <1>3, <1>5, <2>1, StackKept
<1>9. SkipsBoolean' <=> SkipsBoolean
  BY <1>1, <1>5 DEF SkipsBoolean
<1>10. DepthBalanced'
  BY <1>1, <1>5, <1>9, InLoop DEF DepthBalanced, BurnedByLeaf
<1>11. InSight' = InSight + Opened(t)
  <2>1. Opened(t) \in Int
    BY DEF Opened
  <2> QED BY <1>1, <1>2, <1>4, <1>5, <1>9, <2>1 DEF InSight, Unfinished
<1> QED BY <1>1, <1>2, <1>5, <1>8, <1>10, <1>11, OnIInv

LEMMA FinishSkipIInv ==
  ASSUME IInv, NEW t, FinishSkip(t)
  PROVE  IInv'
<1>1. /\ step.op = "Skip" /\ Pull(t) /\ stack' = stack /\ t = End /\ step.balance = 1
      /\ step' = step.then /\ depth' = IF SkipsBoolean THEN depth - 1 ELSE depth
  BY DEF FinishSkip
<1>2. /\ recognized /\ Len(stack) \in Nat /\ IsSequence(stack) /\ depth \in Nat
      /\ depth = Len(stack) + BurnedByLeaf /\ depth <= MaxParseDepth
  BY <1>1, InLoop
<1>3. recognized' /\ (NestedWrapper => NestedWrapper')
  BY <1>1, <1>2, ReadOn
<1>4. /\ step'.op \in {"Body", "Deliver"}
      /\ step'.op = "Body" /\ step'.name = "key" => stack # << >>
      /\ step'.op = "Body" => IsBody(step')
  BY <1>1 DEF IInv, StepShape
<1>5. Opened(t) = -1
  BY <1>1 DEF Opened, End
<1>6. StepShape' /\ WrappersFirst'
  <2>1. StepShape'
    BY <1>1, <1>3, <1>4 DEF StepShape
  <2> QED BY <1>1, <1>3, <1>4, <2>1, StackKept
<1>7. SkipsBoolean <=> step'.op = "Deliver"
  BY <1>1 DEF SkipsBoolean
<1>8. DepthBalanced' /\ depth' \in Nat
  <2>1. CASE SkipsBoolean
    <3>1. depth = Len(stack) + 1
      BY <1>1, <1>2, <2>1 DEF BurnedByLeaf
    <3> QED BY <1>1, <1>2, <1>7, <2>1, <3>1, XmlAssumption DEF DepthBalanced, BurnedByLeaf
  <2>2. CASE ~ SkipsBoolean
    BY <1>1, <1>2, <1>4, <1>7, <2>2 DEF DepthBalanced, BurnedByLeaf
  <2> QED BY <2>1, <2>2
<1>9. InSight' = InSight + Opened(t)
  BY <1>1, <1>2, <1>4, <1>5, <1>7 DEF InSight, Unfinished
<1> QED BY <1>1, <1>2, <1>4, <1>6, <1>8, <1>9, OnIInv

(***************************************************************************)
(* A read that fails, or a failure that was deferred: after it nothing is  *)
(* said of the markup, but in a skipped boolean.                           *)
(***************************************************************************)
LEMMA RaiseIInv ==
  ASSUME IInv, Reading, Raise, IsSequence(input'), HasFirst => HasFirst' /\ (NestedWrapper => NestedWrapper')
  PROVE  IInv'
<1>1. UNCHANGED <<opened, stack, recognized>> /\ (poison' <=> SkipsBoolean) /\ poison' \in BOOLEAN
  BY DEF Raise, SkipsBoolean
<1>2. /\ step.op \in {"Document", "Advance", "Body", "Skip"} /\ ~ Returned
      /\ opened \in Nat /\ depth \in Nat /\ recognized \in BOOLEAN /\ IsSequence(stack) /\ Len(stack) \in Nat
  BY SequenceFacts DEF IInv, Shape, Reading, Returned
<1>3. recognized => HasFirst' /\ (NestedWrapper => NestedWrapper')
  BY DEF IInv, FirstFound
<1>4. stack # << >> => recognized
  BY DEF IInv, StepShape
<1>5. CASE SkipsBoolean
  <2>1. step.op = "Skip" /\ step.then.op = "Deliver" /\ step.balance \in Nat \ {0} /\ recognized
    BY <1>5 DEF SkipsBoolean, IInv, StepShape
  <2>2. step' = step.then /\ depth' = depth - 1 /\ poison'
    BY <1>5 DEF Raise
  <2>3. step'.op = "Deliver" /\ recognized' /\ poison'
    BY <1>1, <2>1, <2>2
  <2>4. depth = Len(stack) + 1 /\ depth <= MaxParseDepth
    BY <1>2, <1>5, <2>1 DEF IInv, DepthBalanced, BurnedByLeaf
  <2>5. Shape'
    BY <1>1, <1>2, <2>2, <2>4 DEF IInv, Shape
  <2>6. StepShape' /\ FirstFound' /\ RetryOnlyBeforeRecognition'
    BY <1>3, <2>1, <2>3 DEF StepShape, FirstFound, RetryOnlyBeforeRecognition
  <2>7. WrappersFirst'
    BY <1>1, <1>3, <2>1, <2>3, StackKept
  <2>8. DepthBalanced'
    BY <1>1, <1>2, <2>2, <2>3, <2>4, XmlAssumption DEF DepthBalanced, BurnedByLeaf
  <2>9. MarkupTracked'
    <3>1. InSight' = Len(stack)
      BY <1>1, <1>2, <2>3 DEF InSight, Unfinished
    <3>2. InSight = Len(stack) + step.balance
      BY <1>2, <1>5, <2>1 DEF InSight, Unfinished
    <3>3. opened >= InSight
      BY <1>2 DEF IInv, MarkupTracked
    <3> QED BY <1>1, <1>2, <2>1, <2>3, <3>1, <3>2, <3>3 DEF MarkupTracked
  <2> QED BY <2>5, <2>6, <2>7, <2>8, <2>9 DEF IInv
<1>6. CASE ~ SkipsBoolean
  <2>1. /\ step' = Error(IF step.op = "Document" THEN "InvalidPlist" ELSE "Parse") /\ depth' = depth
    BY <1>6 DEF Raise
  <2>2. step'.op = "Err" /\ step'.kind = IF step.op = "Document" THEN "InvalidPlist" ELSE "Parse"
    BY <2>1 DEF Error
  <2>3. Shape'
    BY <1>1, <1>2, <2>1 DEF IInv, Shape
  <2>4. WrappersFirst'
    <3>1. CASE recognized
      BY <1>1, <1>3, <2>2, <3>1, StackKept
    <3>2. CASE ~ recognized
      <4>1. stack' = << >> /\ Len(<< >>) = 0
        <5>1. << >> \in Seq({})
          BY EmptySeq
        <5> QED BY <1>1, <1>4, <3>2, EmptySeq
      <4> QED BY <2>2, <4>1 DEF WrappersFirst
    <3> QED BY <3>1, <3>2
  <2>5. step.op = "Document" <=> ~ recognized
    BY <1>2 DEF IInv, StepShape
  <2>6. RetryOnlyBeforeRecognition'
    BY <1>1, <1>4, <2>2, <2>5 DEF RetryOnlyBeforeRecognition
  <2> QED BY <1>1, <1>3, <1>4, <2>2, <2>3, <2>4, <2>6, ErrIInv
<1> QED BY <1>5, <1>6

LEMMA NextFailsIInv ==
  ASSUME IInv, NEW t, NextFails(t)
  PROVE  IInv'
<1>1. Reading /\ Raise /\ input' = Append(input, t)
  BY DEF NextFails
<1>2. IsSequence(input') /\ (HasFirst => HasFirst' /\ (NestedWrapper => NestedWrapper'))
  BY <1>1, AppendInput DEF IInv, Shape
<1> QED BY <1>1, <1>2, RaiseIInv

LEMMA NextPoisonedIInv ==
  ASSUME IInv, NextPoisoned
  PROVE  IInv'
<1>1. Reading /\ Raise /\ input' = input
  BY DEF NextPoisoned
<1>2. IsSequence(input') /\ (HasFirst => HasFirst' /\ (NestedWrapper => NestedWrapper'))
  BY <1>1, InputKept DEF IInv, Shape
<1> QED BY <1>1, <1>2, RaiseIInv

-----------------------------------------------------------------------------
(***************************************************************************)
(* The steps that open an element.                                         *)
(***************************************************************************)
LEMMA Opening ==
  ASSUME IInv, step.op = "Open", UNCHANGED <<input, opened, poison>>
  PROVE  /\ HasFirst' /\ (NestedWrapper' <=> NestedWrapper)
         /\ IsSequence(stack) /\ Len(stack) \in Nat /\ IsSequence(input') /\ opened' \in Nat
         /\ depth \in Nat /\ depth = Len(stack) /\ depth <= MaxParseDepth
         /\ ~ recognized => stack = << >>
         /\ InSight = Len(stack) + (IF step.empty THEN 0 ELSE 1)
         /\ opened >= InSight /\ (~ poison /\ ~ NestedWrapper => opened = InSight)
<1>1. HasFirst
  BY DEF IInv, FirstFound
<1>2. HasFirst' /\ (NestedWrapper' <=> NestedWrapper)
  BY <1>1, InputKept
<1>3. /\ IsSequence(stack) /\ Len(stack) \in Nat /\ depth \in Nat
      /\ IsSequence(input') /\ opened' \in Nat
  BY SequenceFacts DEF IInv, Shape
<1>4. ~ Returned /\ step.op # "Deliver"
  BY DEF Returned
<1>5. depth = Len(stack) /\ depth <= MaxParseDepth
  BY <1>3, <1>4 DEF IInv, DepthBalanced, BurnedByLeaf
<1>6. ~ recognized => stack = << >>
  BY DEF IInv, StepShape
<1>7. InSight = Len(stack) + (IF step.empty THEN 0 ELSE 1)
  BY <1>3 DEF InSight, Unfinished
<1>8. opened >= InSight /\ (~ poison /\ ~ NestedWrapper => opened = InSight)
  BY <1>4 DEF IInv, MarkupTracked
<1> QED BY <1>2, <1>3, <1>5, <1>6, <1>7, <1>8

(* An element that is refused. *)
LEMMA OpenRefused ==
  ASSUME IInv, step.op = "Open", UNCHANGED <<input, opened, stack, poison>>, depth' \in Nat, recognized' \in BOOLEAN,
         recognized => recognized', step'.op = "Err", RetryOnlyBeforeRecognition'
  PROVE  IInv'
<1>1. HasFirst' /\ (NestedWrapper' <=> NestedWrapper) /\ (~ recognized => stack = << >>)
  BY Opening
<1>2. Shape'
  BY DEF IInv, Shape
<1>3. WrappersFirst'
  BY <1>1, StackKept
<1> QED BY <1>1, <1>2, <1>3, ErrIInv

LEMMA OpenTooDeepIInv ==
  ASSUME IInv, OpenTooDeep
  PROVE  IInv'
<1>1. /\ step.op = "Open" /\ depth' = depth + 1 /\ step'.op = "Err" /\ step'.kind = "MaxDepthExceeded"
      /\ UNCHANGED <<input, opened, stack, recognized, poison>>
  BY DEF OpenTooDeep, Error
<1>2. depth' \in Nat /\ recognized' \in BOOLEAN
  BY <1>1 DEF IInv, Shape
<1>3. RetryOnlyBeforeRecognition'
  BY <1>1 DEF RetryOnlyBeforeRecognition
<1> QED BY <1>1, <1>2, <1>3, OpenRefused

LEMMA OpenUnknownIInv ==
  ASSUME IInv, OpenUnknown
  PROVE  IInv'
<1>1. /\ step.op = "Open" /\ step'.op = "Err" /\ step'.kind = IF recognized THEN "Parse" ELSE "InvalidPlist"
      /\ UNCHANGED <<input, opened, stack, depth, recognized, poison>>
  BY DEF OpenUnknown, Error
<1>2. depth' \in Nat /\ recognized' \in BOOLEAN /\ (~ recognized => stack = << >>)
  BY <1>1 DEF IInv, Shape, StepShape
<1>3. RetryOnlyBeforeRecognition'
  BY <1>1, <1>2 DEF RetryOnlyBeforeRecognition
<1> QED BY <1>1, <1>2, <1>3, OpenRefused

(* An element that is opened and holds what it holds from now on.          *)
LEMMA OpenedIInv ==
  ASSUME IInv, NEW names, NEW empty, Entered(names, empty),
         IsSequence(stack'), depth' \in Nat, step'.op \in {"Advance", "Body", "Skip", "Deliver"},
         InSight' = InSight, step'.op = "Deliver" => stack' = stack,
         StepShape', WrappersFirst', DepthBalanced'
  PROVE  IInv'
<1>1. step.op = "Open" /\ recognized' = TRUE /\ UNCHANGED <<input, opened, poison>>
  BY DEF Entered
<1>2. HasFirst' /\ (NestedWrapper' <=> NestedWrapper)
      /\ opened >= InSight /\ (~ poison /\ ~ NestedWrapper => opened = InSight)
  BY <1>1, Opening
<1>3. Shape'
  BY <1>1 DEF IInv, Shape
<1>4. FirstFound' /\ RetryOnlyBeforeRecognition'
  BY <1>1, <1>2 DEF FirstFound, RetryOnlyBeforeRecognition
<1>5. MarkupTracked'
  BY <1>1, <1>2 DEF MarkupTracked
<1> QED BY <1>3, <1>4, <1>5 DEF IInv

LEMMA OpenContainerIInv ==
  ASSUME IInv, OpenContainer
  PROVE  IInv'
<1> PICK f : f = Frame(step.name)
  OBVIOUS
<1>1. /\ step.op = "Open" /\ ~ TooDeep /\ ~ step.empty /\ recognized' = TRUE /\ UNCHANGED <<input, opened, poison>>
      /\ Entered(Containers, FALSE) /\ stack' = Append(stack, f) /\ step' = Advance /\ depth' = depth + 1
  BY DEF OpenContainer, Entered
<1>2. /\ NestedWrapper' <=> NestedWrapper
      /\ IsSequence(stack) /\ Len(stack) \in Nat /\ depth \in Nat /\ depth = Len(stack)
      /\ InSight = Len(stack) + 1
  BY <1>1, Opening
<1> PICK n \in Nat : n = Len(stack)
  BY <1>2
<1>3. /\ IsSequence(stack') /\ stack' # << >> /\ Len(stack') = n + 1
      /\ \A k \in 1 .. n : stack'[k] = stack[k]
      /\ stack'[n + 1] = f
  <2>1. stack' = Extended(stack, f)
    BY <1>1 DEF Extended
  <2> QED BY <1>2, <2>1, AppendSequence
<1>4. IsFrame(f) /\ f.name = step.name
  BY DEF Frame, IsFrame
<1>5. step'.op = "Advance"
  BY <1>1 DEF Advance
<1>6. WrappersFirst'
  <2>1. ASSUME NEW d \in 1 .. n + 1
        PROVE  IsFrame(stack'[d]) /\ (stack'[d].name = "plist" => d = 1 \/ NestedWrapper')
    <3>1. CASE d \in 1 .. n
      <4>1. stack'[d] = stack[d]
        BY <1>3, <3>1
      <4> QED BY <1>2, <3>1, <4>1 DEF IInv, WrappersFirst
    <3>2. CASE d = n + 1
      <4>1. stack'[d] = f
        BY <1>3, <3>2
      <4>2. n # 0 => stack # << >>
        BY <1>2, SequenceFacts
      <4>3. step.name = "plist" /\ stack # << >> => NestedWrapper
        BY <1>1 DEF IInv, WrappersFirst
      <4> QED BY <1>2, <1>4, <3>2, <4>1, <4>2, <4>3
    <3> QED BY <3>1, <3>2
  <2> QED BY <1>3, <1>5, <2>1 DEF WrappersFirst
<1>7. StepShape'
  BY <1>1, <1>3, <1>5 DEF StepShape
<1>8. DepthBalanced' /\ depth' \in Nat
  BY <1>1, <1>2, <1>3, <1>5, XmlAssumption DEF DepthBalanced, BurnedByLeaf, TooDeep
<1>9. InSight' = InSight
  BY <1>2, <1>3, <1>5 DEF InSight, Unfinished
<1> QED BY <1>1, <1>3, <1>5, <1>6, <1>7, <1>8, <1>9, OpenedIInv

LEMMA OpenLeafIInv ==
  ASSUME IInv, OpenLeaf
  PROVE  IInv'
<1>1. /\ step.op = "Open" /\ ~ TooDeep /\ ~ step.empty /\ recognized' = TRUE /\ UNCHANGED <<input, opened, poison>>
      /\ Entered(Leaves, FALSE) /\ stack' = stack /\ depth' = depth + 1
      /\ step'.op = "Body" /\ step'.name # "key" /\ IsBody(step')
  BY LoopFields DEF OpenLeaf, Entered, Body, Leaves
<1>2. /\ NestedWrapper' <=> NestedWrapper
      /\ IsSequence(stack) /\ Len(stack) \in Nat /\ depth \in Nat /\ depth = Len(stack)
      /\ InSight = Len(stack) + 1
  BY <1>1, Opening
<1>3. WrappersFirst'
  BY <1>1, <1>2, StackKept
<1>4. StepShape'
  BY <1>1 DEF StepShape
<1>5. DepthBalanced' /\ depth' \in Nat
  BY <1>1, <1>2, XmlAssumption DEF DepthBalanced, BurnedByLeaf, TooDeep
<1>6. InSight' = InSight
  BY <1>1, <1>2 DEF InSight, Unfinished
<1> QED BY <1>1, <1>2, <1>3, <1>4, <1>5, <1>6, OpenedIInv

LEMMA OpenBooleanIInv ==
  ASSUME IInv, OpenBoolean
  PROVE  IInv'
<1>1. /\ step.op = "Open" /\ ~ TooDeep /\ ~ step.empty /\ recognized' = TRUE /\ UNCHANGED <<input, opened, poison>>
      /\ Entered(Booleans, FALSE) /\ stack' = stack /\ depth' = depth + 1
      /\ step'.op = "Skip" /\ step'.balance = 1 /\ step'.then.op = "Deliver" /\ IsSkip(step')
  BY LoopFields DEF OpenBoolean, Entered, Skip, Deliver
<1>2. /\ NestedWrapper' <=> NestedWrapper
      /\ IsSequence(stack) /\ Len(stack) \in Nat /\ depth \in Nat /\ depth = Len(stack)
      /\ InSight = Len(stack) + 1
  BY <1>1, Opening
<1>3. WrappersFirst'
  BY <1>1, <1>2, StackKept
<1>4. StepShape' /\ SkipsBoolean'
  BY <1>1 DEF StepShape, SkipsBoolean
<1>5. DepthBalanced' /\ depth' \in Nat
  BY <1>1, <1>2, <1>4, XmlAssumption DEF DepthBalanced, BurnedByLeaf, TooDeep
<1>6. InSight' = InSight
  BY <1>1, <1>2, <1>4 DEF InSight, Unfinished
<1> QED BY <1>1, <1>2, <1>3, <1>4, <1>5, <1>6, OpenedIInv

LEMMA OpenEmptyIInv ==
  ASSUME IInv, OpenEmpty
  PROVE  IInv'
<1>1. /\ step.op = "Open" /\ step.empty /\ recognized' = TRUE /\ UNCHANGED <<input, opened, poison>>
      /\ Entered(Containers \cup Leaves \cup Booleans, TRUE) /\ stack' = stack /\ depth' = depth
  BY DEF OpenEmpty, Entered
<1>2. /\ NestedWrapper' <=> NestedWrapper
      /\ IsSequence(stack) /\ Len(stack) \in Nat /\ depth \in Nat /\ depth = Len(stack) /\ depth <= MaxParseDepth
      /\ InSight = Len(stack)
  BY <1>1, Opening
<1>3. CASE EmptyValue(step.name) = {}
  <2>1. step'.op = "Err" /\ step'.kind = "Parse"
    BY <1>3 DEF OpenEmpty, Error
  <2>2. RetryOnlyBeforeRecognition'
    BY <1>1, <2>1 DEF RetryOnlyBeforeRecognition
  <2> QED BY <1>1, <1>2, <2>1, <2>2, OpenRefused
<1>4. CASE EmptyValue(step.name) # {}
  <2>1. step'.op = "Deliver"
    BY <1>4 DEF OpenEmpty, Deliver
  <2>2. WrappersFirst'
    BY <1>1, <1>2, <2>1, StackKept
  <2>3. StepShape'
    BY <1>1, <2>1 DEF StepShape
  <2>4. DepthBalanced'
    BY <1>1, <1>2, <2>1 DEF DepthBalanced, BurnedByLeaf
  <2>5. InSight' = InSight
    BY <1>1, <1>2, <2>1 DEF InSight, Unfinished
  <2> QED BY <1>1, <1>2, <2>1, <2>2, <2>3, <2>4, <2>5, OpenedIInv
<1> QED BY <1>3, <1>4

-----------------------------------------------------------------------------
(***************************************************************************)
(* The steps that deliver a value.                                         *)
(***************************************************************************)
LEMMA Delivering ==
  ASSUME IInv, step.op = "Deliver", UNCHANGED <<input, opened, recognized, poison>>
  PROVE  /\ HasFirst' /\ (NestedWrapper' <=> NestedWrapper) /\ recognized'
         /\ IsSequence(stack) /\ Len(stack) \in Nat
         /\ depth \in Nat /\ depth = Len(stack) /\ depth <= MaxParseDepth
         /\ opened >= Len(stack)
         /\ ~ poison /\ ~ NestedWrapper /\ stack # << >> => opened = Len(stack)
         /\ IsSequence(stack') /\ depth' \in Nat => Shape'
<1>1. recognized /\ ~ Returned
  BY DEF IInv, StepShape, Returned
<1>2. HasFirst' /\ (NestedWrapper' <=> NestedWrapper)
  BY <1>1, InputKept DEF IInv, FirstFound
<1>3. IsSequence(stack) /\ Len(stack) \in Nat /\ depth \in Nat
  BY SequenceFacts DEF IInv, Shape
<1>4. depth = Len(stack) /\ depth <= MaxParseDepth
  BY <1>1, <1>3 DEF IInv, DepthBalanced, BurnedByLeaf
<1>5. InSight = Len(stack)
  BY <1>3 DEF InSight, Unfinished
<1>6. opened >= Len(stack) /\ (~ poison /\ ~ NestedWrapper /\ stack # << >> => opened = Len(stack))
  BY <1>1, <1>5 DEF IInv, MarkupTracked
<1>7. IsSequence(stack') /\ depth' \in Nat => Shape'
  <2>1. recognized \in BOOLEAN /\ poison \in BOOLEAN /\ IsSequence(input) /\ opened \in Nat
    BY DEF IInv, Shape
  <2>2. recognized' \in BOOLEAN /\ poison' \in BOOLEAN /\ IsSequence(input') /\ opened' \in Nat
    BY <2>1
  <2> QED BY <2>2 DEF Shape
<1> QED BY <1>1, <1>2, <1>3, <1>4, <1>6, <1>7

(* A wrapper is left for good only below nothing: what is in sight is then *)
(* the wrapper's own End, and the value is the answer.                     *)
LEMMA DeliverToPlistIInv ==
  ASSUME IInv, DeliverToPlist
  PROVE  IInv'
<1>1. /\ step.op = "Deliver" /\ stack # << >> /\ Top.name = "plist" /\ stack' = Pop /\ depth' = depth - 1
      /\ UNCHANGED <<input, opened, step, recognized, poison>>
  BY DEF DeliverToPlist
<1>2. /\ HasFirst' /\ (NestedWrapper' <=> NestedWrapper) /\ recognized'
      /\ depth \in Nat /\ depth = Len(stack) /\ depth <= MaxParseDepth /\ opened >= Len(stack)
  BY <1>1, Delivering
<1>3. step'.op = "Deliver"
  BY <1>1
<1>4. WrappersFirst' /\ IsSequence(stack') /\ Len(stack') = Len(stack) - 1 /\ Len(stack) \in Nat \ {0}
  BY <1>1, <1>2, <1>3, TopPopped
<1>5. Shape'
  <2>1. depth' \in Nat
    BY <1>1, <1>2, <1>4
  <2> QED BY <1>1, <1>4, <2>1, Delivering
<1>6. StepShape' /\ FirstFound' /\ RetryOnlyBeforeRecognition'
  BY <1>2, <1>3 DEF StepShape, FirstFound, RetryOnlyBeforeRecognition
<1>7. DepthBalanced'
  BY <1>1, <1>2, <1>3, <1>4, XmlAssumption DEF DepthBalanced, BurnedByLeaf
<1>8. ~ NestedWrapper => stack' = << >>
  <2>1. ASSUME ~ NestedWrapper PROVE Len(stack) = 1
    BY <1>1, <1>4, <2>1 DEF IInv, WrappersFirst, Top
  <2>2. IsSequence(stack') /\ (Len(stack') = 0 => stack' = << >>)
    BY <1>4, SequenceFacts
  <2> QED BY <1>4, <2>1, <2>2
<1>9. InSight' = Len(stack')
  BY <1>3, <1>4 DEF InSight, Unfinished
<1>10. MarkupTracked'
  <2>1. opened' >= InSight'
    BY <1>1, <1>2, <1>4, <1>9 DEF IInv, Shape
  <2> QED BY <1>2, <1>3, <1>8, <2>1 DEF MarkupTracked
<1> QED BY <1>4, <1>5, <1>6, <1>7, <1>10 DEF IInv

LEMMA DeliverToFrameIInv ==
  ASSUME IInv, DeliverToFrame
  PROVE  IInv'
<1> DEFINE f == IF Top.name = "array"
                THEN [Top EXCEPT !.collected = Append(@, step.value)]
                ELSE [Top EXCEPT !.collected = Append(@, Entry(CHOOSE k \in Top.key : TRUE, step.value)), !.key = {}]
<1>1. /\ step.op = "Deliver" /\ stack # << >> /\ stack' = WithTop(f) /\ depth' = depth /\ step' = Advance
      /\ UNCHANGED <<input, opened, recognized, poison>>
  BY DEF DeliverToFrame
<1>2. /\ HasFirst' /\ (NestedWrapper' <=> NestedWrapper) /\ recognized'
      /\ depth \in Nat /\ depth = Len(stack) /\ depth <= MaxParseDepth /\ opened >= Len(stack)
      /\ ~ poison /\ ~ NestedWrapper => opened = Len(stack)
  BY <1>1, Delivering
<1>3. step'.op = "Advance"
  BY <1>1 DEF Advance
<1>4. IsFrame(f) /\ f.name = Top.name
  <2>1. IsFrame(Top)
    BY <1>1, TopIsFrame
  <2> QED BY <2>1 DEF IsFrame
<1> HIDE DEF f
<1>5. WrappersFirst' /\ IsSequence(stack') /\ stack' # << >> /\ Len(stack') = Len(stack) /\ Len(stack) \in Nat
  BY <1>1, <1>2, <1>3, <1>4, TopReplaced
<1>6. Shape'
  BY <1>1, <1>2, <1>5, Delivering
<1>7. StepShape' /\ FirstFound' /\ RetryOnlyBeforeRecognition'
  BY <1>2, <1>3, <1>5 DEF StepShape, FirstFound, RetryOnlyBeforeRecognition
<1>8. DepthBalanced'
  BY <1>1, <1>2, <1>3, <1>5 DEF DepthBalanced, BurnedByLeaf
<1>9. InSight' = Len(stack)
  BY <1>3, <1>5 DEF InSight, Unfinished
<1>10. MarkupTracked'
  BY <1>1, <1>2, <1>9 DEF MarkupTracked
<1> QED BY <1>5, <1>6, <1>7, <1>8, <1>10 DEF IInv

LEMMA DeliverOutIInv ==
  ASSUME IInv, DeliverOut
  PROVE  IInv'
<1>1. /\ step.op = "Deliver" /\ stack = << >> /\ step'.op = "Ok"
      /\ UNCHANGED <<input, opened, stack, depth, recognized, poison>>
  BY DEF DeliverOut, Return
<1>2. HasFirst' /\ (NestedWrapper' <=> NestedWrapper) /\ recognized' /\ depth \in Nat /\ IsSequence(stack)
  BY <1>1, Delivering
<1>3. Shape'
  BY <1>1, <1>2, Delivering
<1>4. WrappersFirst'
  BY <1>1, <1>2, StackKept
<1>5. StepShape' /\ FirstFound' /\ RetryOnlyBeforeRecognition'
  BY <1>1, <1>2 DEF StepShape, FirstFound, RetryOnlyBeforeRecognition
<1>6. DepthBalanced' /\ MarkupTracked'
  BY <1>1 DEF DepthBalanced, MarkupTracked, Returned
<1> QED BY <1>3, <1>4, <1>5, <1>6 DEF IInv

LEMMA UnchangedIInv ==
  ASSUME IInv, UNCHANGED vars
  PROVE  IInv'
<1>1. UNCHANGED <<input, opened, stack, step, depth, recognized, poison>>
  BY DEF vars
<1>2. (HasFirst' <=> HasFirst) /\ (NestedWrapper' <=> NestedWrapper)
  BY <1>1, InputKept
<1>3. Shape' /\ StepShape' /\ RetryOnlyBeforeRecognition'
  BY <1>1 DEF IInv, Shape, StepShape, RetryOnlyBeforeRecognition
<1>4. FirstFound' /\ WrappersFirst'
  BY <1>1, <1>2 DEF IInv, FirstFound, WrappersFirst
<1>5. DepthBalanced'
  BY <1>1 DEF IInv, DepthBalanced, BurnedByLeaf, SkipsBoolean, Returned
<1>6. MarkupTracked'
  BY <1>1, <1>2 DEF IInv, MarkupTracked, InSight, Unfinished, SkipsBoolean, Returned
<1> QED BY <1>3, <1>4, <1>5, <1>6 DEF IInv

-----------------------------------------------------------------------------
(***************************************************************************)
(* Theorems.                                                               *)
(***************************************************************************)
(* Whatever tokens are read next, a step keeps the invariant.              *)
LEMMA NextOnIInv ==
  ASSUME IInv, NEW tokens, NextOn(tokens)
  PROVE  IInv'
<1>1. ASSUME NEW t, Read(t) PROVE IInv'
  BY <1>1, NextFailsIInv, ReadDocumentIInv, ReadChildIInv, IgnoreIInv, ReadKeyIInv, ReadEntryValueIInv,
     CloseContainerIInv, ReadBodyIInv, FinishBodyIInv, ReadSkippedIInv, FinishSkipIInv DEF Read
<1>2. CASE OpenTooDeep \/ OpenContainer \/ OpenLeaf \/ OpenBoolean \/ OpenEmpty \/ OpenUnknown
  BY <1>2, OpenTooDeepIInv, OpenContainerIInv, OpenLeafIInv, OpenBooleanIInv, OpenEmptyIInv, OpenUnknownIInv
<1>3. CASE DeliverToPlist \/ DeliverToFrame \/ DeliverOut
  BY <1>3, DeliverToPlistIInv, DeliverToFrameIInv, DeliverOutIInv
<1>4. CASE NextPoisoned \/ Stop
  BY <1>4, NextPoisonedIInv, UnchangedIInv DEF Stop
<1> QED BY <1>1, <1>2, <1>3, <1>4 DEF NextOn

THEOREM Invariance == Spec => []IInv
<1>1. Init => IInv
  BY InitIInv
<1>2. IInv /\ [Next]_vars => IInv'
  BY NextOnIInv, UnchangedIInv DEF Next
<1> QED BY <1>1, <1>2, PTL DEF Spec

(* The depth guards balance on every path by which a frame or a leaf is    *)
(* left (xml/parser.rs, depth.rs).                                         *)
THEOREM GuardsBalance == Spec => []DepthBalanced
<1>1. IInv => DepthBalanced
  BY DEF IInv
<1> QED BY <1>1, Invariance, PTL

(* The parser is in step with the tokenizer's open elements wherever no    *)
(* wrapper stands inside another element.                                  *)
THEOREM MarkupInStep == Spec => []FramesTrackMarkup
<1>1. IInv => FramesTrackMarkup
  <2> SUFFICES ASSUME IInv, Reading, ~ poison
               PROVE  opened >= Unfinished /\ (~ NestedWrapper => opened = Unfinished)
    BY DEF FramesTrackMarkup
  <2>1. ~ Returned /\ step.op # "Deliver" /\ step.op # "Open"
    BY DEF Reading, Returned
  <2>2. Len(stack) \in Nat
    BY SequenceFacts DEF IInv, Shape
  <2>3. InSight = Unfinished
    BY <2>1, <2>2 DEF IInv, StepShape, InSight, Unfinished, SkipsBoolean
  <2> QED BY <2>1, <2>3 DEF IInv, MarkupTracked
<1> QED BY <1>1, Invariance, PTL

(* Recognized XML is never handed on as text, and unrecognized bytes fail  *)
(* with nothing but the retry signal and the cap.                          *)
THEOREM RetryAtTheBoundary == Spec => []RetryOnlyBeforeRecognition
<1>1. IInv => RetryOnlyBeforeRecognition
  BY DEF IInv
<1> QED BY <1>1, Invariance, PTL

(* After a deferred failure no token is read, and it stays deferred or is  *)
(* the answer.                                                             *)
THEOREM PoisonIsFinal == Spec => PoisonEndsReading
<1> DEFINE Final == poison => input' = input /\ (poison' \/ step'.op = "Err")
<1>1. ASSUME [Next]_vars, poison PROVE input' = input /\ (poison' \/ step'.op = "Err")
  <2>1. ASSUME NEW t, Read(t) PROVE FALSE
    <3>1. ASSUME Pull(t) PROVE FALSE
      BY <1>1, <3>1 DEF Pull
    <3> QED BY <1>1, <2>1, <3>1 DEF Read, NextFails, ReadDocument, ReadChild, Ignore, ReadKey, ReadEntryValue,
               CloseContainer, ReadBody, FinishBody, ReadSkipped, FinishSkip
  <2>2. CASE NextPoisoned
    BY <2>2 DEF NextPoisoned, Raise, Error
  <2>3. CASE OpenTooDeep \/ OpenContainer \/ OpenLeaf \/ OpenBoolean \/ OpenEmpty \/ OpenUnknown
    <3>1. UNCHANGED <<input, poison>>
      BY <2>3 DEF OpenTooDeep, OpenContainer, OpenLeaf, OpenBoolean, OpenEmpty, OpenUnknown, Entered
    <3> QED BY <1>1, <3>1
  <2>4. CASE DeliverToPlist \/ DeliverToFrame \/ DeliverOut \/ Stop \/ UNCHANGED vars
    <3>1. UNCHANGED <<input, poison>>
      BY <2>4 DEF DeliverToPlist, DeliverToFrame, DeliverOut, Stop, vars
    <3> QED BY <1>1, <3>1
  <2> QED BY <1>1, <2>1, <2>2, <2>3, <2>4 DEF Next, NextOn
<1>2. [Next]_vars => [Final]_vars
  BY <1>1
<1> QED BY <1>2, PTL DEF Spec, PoisonEndsReading

-----------------------------------------------------------------------------
(***************************************************************************)
(* The walker and the recursive parse.  A judgment <<c, o>> says that call *)
(* c returns o.  Follows is the rule of each call: the judgments in D about *)
(* the calls it makes are what c needs to return o.  A derivation is a set *)
(* of judgments each of which follows from others in the set.              *)
(***************************************************************************)
Follows(d, c, o, D) ==
  IF Continues(d, c) THEN <<Continuation(d, c), o>> \in D
  ELSE IF Asks(d, c)
       THEN \E p : /\ <<ChildCall(d, c), p>> \in D
                   /\ IF Resumes(c, p) THEN <<RestCall(d, c, p), o>> \in D
                      ELSE o = Settled(c, p)
       ELSE o = Answer(d, c)

Derivation(d, D) == \A c, o : <<c, o>> \in D => Follows(d, c, o, D)

Returns(d, c, o) == \E D : Derivation(d, D) /\ <<c, o>> \in D

LEMMA FollowsMore ==
  ASSUME NEW d, NEW c, NEW o, NEW D, NEW E, D \subseteq E, Follows(d, c, o, D)
  PROVE  Follows(d, c, o, E)
BY DEF Follows

LEMMA UnionDerives ==
  ASSUME NEW d, NEW D, NEW E, Derivation(d, D), Derivation(d, E)
  PROVE  Derivation(d, D \cup E)
<1> SUFFICES ASSUME NEW c, NEW o, <<c, o>> \in D \cup E
             PROVE  Follows(d, c, o, D \cup E)
  BY DEF Derivation
<1>1. Follows(d, c, o, D) \/ Follows(d, c, o, E)
  BY DEF Derivation
<1>2. D \subseteq D \cup E /\ E \subseteq D \cup E
  OBVIOUS
<1> QED BY <1>1, <1>2, FollowsMore

(* A call returns what follows from judgments that are derived. *)
LEMMA Concluded ==
  ASSUME NEW d, NEW D, Derivation(d, D), NEW c, NEW o, Follows(d, c, o, D)
  PROVE  Returns(d, c, o)
<1> PICK E : E = D \cup {<<c, o>>}
  OBVIOUS
<1>1. D \subseteq E /\ <<c, o>> \in E
  OBVIOUS
<1>2. ASSUME NEW b, NEW p, <<b, p>> \in E PROVE Follows(d, b, p, E)
  <2>1. CASE <<b, p>> \in D
    <3>1. Follows(d, b, p, D)
      BY <2>1 DEF Derivation
    <3> QED BY <1>1, <3>1, FollowsMore
  <2>2. CASE <<b, p>> = <<c, o>>
    <3>1. b = c /\ p = o
      BY <2>2
    <3> QED BY <1>1, <3>1, FollowsMore
  <2> QED BY <1>2, <2>1, <2>2
<1>3. Derivation(d, E)
  BY <1>2 DEF Derivation
<1> QED BY <1>1, <1>3 DEF Returns

(* The rules, call by call. *)
LEMMA AnswerRule ==
  ASSUME NEW d, NEW c, ~ Continues(d, c), ~ Asks(d, c)
  PROVE  Returns(d, c, Answer(d, c))
<1>1. Derivation(d, {})
  BY DEF Derivation
<1>2. Follows(d, c, Answer(d, c), {})
  BY DEF Follows
<1> QED BY <1>1, <1>2, Concluded

LEMMA ContinueRule ==
  ASSUME NEW d, NEW c, Continues(d, c), NEW o, Returns(d, Continuation(d, c), o)
  PROVE  Returns(d, c, o)
<1>1. PICK D : Derivation(d, D) /\ <<Continuation(d, c), o>> \in D
  BY DEF Returns
<1>2. Follows(d, c, o, D)
  BY <1>1 DEF Follows
<1> QED BY <1>1, <1>2, Concluded

LEMMA AskRule ==
  ASSUME NEW d, NEW c, ~ Continues(d, c), Asks(d, c), NEW p, Returns(d, ChildCall(d, c), p)
  PROVE  /\ ~ Resumes(c, p) => Returns(d, c, Settled(c, p))
         /\ Resumes(c, p) => \A o : Returns(d, RestCall(d, c, p), o) => Returns(d, c, o)
<1>1. PICK D : Derivation(d, D) /\ <<ChildCall(d, c), p>> \in D
  BY DEF Returns
<1>2. CASE ~ Resumes(c, p)
  <2>1. Follows(d, c, Settled(c, p), D)
    BY <1>1, <1>2 DEF Follows
  <2> QED BY <1>1, <1>2, <2>1, Concluded
<1>3. ASSUME Resumes(c, p), NEW o, Returns(d, RestCall(d, c, p), o) PROVE Returns(d, c, o)
  <2>1. PICK E : Derivation(d, E) /\ <<RestCall(d, c, p), o>> \in E
    BY <1>3 DEF Returns
  <2>2. Derivation(d, D \cup E)
    BY <1>1, <2>1, UnionDerives
  <2>3. <<ChildCall(d, c), p>> \in D \cup E /\ <<RestCall(d, c, p), o>> \in D \cup E
    BY <1>1, <2>1
  <2>4. Follows(d, c, o, D \cup E)
    BY <1>3, <2>3 DEF Follows
  <2> QED BY <2>2, <2>4, Concluded
<1> QED BY <1>2, <1>3

(* What a call returns came from the calls it made. *)
LEMMA RuleUsed ==
  ASSUME NEW d, NEW c, NEW o, Returns(d, c, o)
  PROVE  IF Continues(d, c) THEN Returns(d, Continuation(d, c), o)
         ELSE IF Asks(d, c)
              THEN \E p : /\ Returns(d, ChildCall(d, c), p)
                          /\ IF Resumes(c, p) THEN Returns(d, RestCall(d, c, p), o)
                             ELSE o = Settled(c, p)
              ELSE o = Answer(d, c)
<1>1. PICK D : Derivation(d, D) /\ <<c, o>> \in D
  BY DEF Returns
<1>2. Follows(d, c, o, D)
  BY <1>1 DEF Derivation
<1>3. \A b, p : <<b, p>> \in D => Returns(d, b, p)
  BY <1>1 DEF Returns
<1> QED BY <1>2, <1>3 DEF Follows

(* The fields of the calls and of an outcome. *)
LEMMA CallFields ==
  ASSUME NEW read, NEW deferred, NEW name, NEW empty, NEW level, NEW known, NEW kept, NEW key
  PROVE  /\ DocumentCall(read).kind = "document"
         /\ DocumentCall(read).read = read
         /\ ~ DocumentCall(read).deferred
         /\ ElementCall(read, name, empty, level, known).kind = "element"
         /\ ElementCall(read, name, empty, level, known).read = read
         /\ ElementCall(read, name, empty, level, known).name = name
         /\ ElementCall(read, name, empty, level, known).empty = empty
         /\ ElementCall(read, name, empty, level, known).level = level
         /\ ElementCall(read, name, empty, level, known).known = known
         /\ ChildrenCall(read, deferred, name, level, kept, key).kind = "children"
         /\ ChildrenCall(read, deferred, name, level, kept, key).read = read
         /\ ChildrenCall(read, deferred, name, level, kept, key).deferred = deferred
         /\ ChildrenCall(read, deferred, name, level, kept, key).name = name
         /\ ChildrenCall(read, deferred, name, level, kept, key).level = level
         /\ ChildrenCall(read, deferred, name, level, kept, key).children = kept
         /\ ChildrenCall(read, deferred, name, level, kept, key).key = key
         /\ BodyCall(read, level, kept).kind = "body"
         /\ BodyCall(read, level, kept).read = read
         /\ ~ BodyCall(read, level, kept).deferred
         /\ BodyCall(read, level, kept).level = level
         /\ BodyCall(read, level, kept).text = kept
BY DEF DocumentCall, ElementCall, ChildrenCall, BodyCall

LEMMA OutcomeFields ==
  ASSUME NEW out, NEW read, NEW deferred
  PROVE  /\ Outcome(out, read, deferred).out = out
         /\ Outcome(out, read, deferred).read = read
         /\ Outcome(out, read, deferred).deferred = deferred
         /\ Failed(Outcome(out, read, deferred)) <=> out.op = "Err"
BY DEF Outcome, Failed

-----------------------------------------------------------------------------
(***************************************************************************)
(* A call returns exactly one outcome.  Every call that a call makes reads *)
(* from further on, but for the body or the children of an element, whose  *)
(* tag is behind it.                                                       *)
(***************************************************************************)
IsCall(d, c) == c.kind \in {"document", "element", "children", "body"} /\ c.read \in 0 .. Len(d)
Rank(d, c)   == 2 * (Len(d) - c.read) + IF c.kind = "element" THEN 1 ELSE 0

Moves(d, c, o) == o.read \in c.read .. Len(d)

Decided(d, c) ==
  /\ \E o : Returns(d, c, o)
  /\ \A o, p : Returns(d, c, o) /\ Returns(d, c, p) => o = p
  /\ \A o : Returns(d, c, o) => Moves(d, c, o)

LEMMA FurtherIsLower ==
  ASSUME NEW n \in Nat, NEW r \in Nat, NEW q \in Nat, r + 1 <= q, NEW v \in 0 .. 1, NEW w \in 0 .. 1
  PROVE  2 * (n - q) + v < 2 * (n - r) + w
<1>1. 2 * (n - q) = 2 * n - 2 * q /\ 2 * (n - r) = 2 * n - 2 * r /\ 2 * r + 2 <= 2 * q
  OBVIOUS
<1> QED BY <1>1

LEMMA LowerRank ==
  ASSUME NEW d, Len(d) \in Nat, NEW c, IsCall(d, c), NEW b, IsCall(d, b),
         b.read \in c.read + 1 .. Len(d) \/ (b.read = c.read /\ c.kind = "element" /\ b.kind # "element")
  PROVE  Rank(d, b) < Rank(d, c)
<1> PICK n \in Nat : n = Len(d)
  OBVIOUS
<1> PICK r \in Nat : r = c.read
  BY DEF IsCall
<1> PICK q \in Nat : q = b.read
  BY DEF IsCall
<1>1. PICK w \in 0 .. 1 : Rank(d, c) = 2 * (n - r) + w
  BY DEF Rank
<1>2. PICK v \in 0 .. 1 : Rank(d, b) = 2 * (n - q) + v
  BY DEF Rank
<1>3. CASE q \in r + 1 .. n
  <2>1. r + 1 <= q
    BY <1>3
  <2>2. 2 * (n - q) + v < 2 * (n - r) + w
    BY <2>1, FurtherIsLower
  <2> QED BY <1>1, <1>2, <2>2
<1>4. CASE q = r /\ c.kind = "element" /\ b.kind # "element"
  <2>1. Rank(d, c) = 2 * (n - r) + 1 /\ Rank(d, b) = 2 * (n - r) + 0
    BY <1>4 DEF Rank
  <2> QED BY <2>1
<1> QED BY <1>3, <1>4

LEMMA KindsDiffer ==
  /\ End # Bad /\ End # Eof /\ Eof # Bad
  /\ \A t : IsElement(t) => t \notin {Eof, Bad, End} /\ ~ Passed(t)
  /\ \A t : Passed(t) => t \notin {Eof, Bad, End} /\ ~ IsElement(t)
<1>1. Bad.kind = "Bad" /\ Eof.kind = "Eof" /\ End.kind = "End"
  BY DEF Bad, Eof, End
<1> QED BY <1>1 DEF IsElement, Passed

(* A token that is there is within the document. *)
LEMMA Within ==
  ASSUME NEW d, Len(d) \in Nat, NEW c, IsCall(d, c)
  PROVE  /\ After(d, c) \in c.read .. Len(d)
         /\ Following(d, c) # Bad => After(d, c) = c.read + 1 /\ c.read + 1 \in 0 .. Len(d) /\ ~ c.deferred
<1> PICK r \in Nat : r = c.read /\ r <= Len(d)
  BY DEF IsCall
<1>1. CASE Exhausted(d, c)
  BY <1>1 DEF After, Following
<1>2. CASE ~ Exhausted(d, c)
  <2>1. ~ (r >= Len(d)) /\ ~ c.deferred
    BY <1>2 DEF Exhausted
  <2>2. r + 1 <= Len(d)
    BY <2>1
  <2> QED BY <1>2, <2>1, <2>2 DEF After
<1> QED BY <1>1, <1>2

LEMMA KnownMoves ==
  ASSUME NEW values, NEW read
  PROVE  Known(values, read).read = read
<1> PICK no : no = FALSE
  OBVIOUS
<1>1. CASE values = {}
  <2>1. Known(values, read) = Outcome(Error("Parse"), read, no)
    BY <1>1 DEF Known
  <2> QED BY <2>1, OutcomeFields
<1>2. CASE values # {}
  <2>1. Known(values, read) = Outcome(Return(CHOOSE v \in values : TRUE), read, no)
    BY <1>2 DEF Known
  <2> QED BY <2>1, OutcomeFields
<1> QED BY <1>1, <1>2

LEMMA AnswerMoves ==
  ASSUME NEW d, Len(d) \in Nat, NEW c, IsCall(d, c)
  PROVE  Moves(d, c, Answer(d, c))
<1> PICK r \in Nat : r = c.read /\ r <= Len(d)
  BY DEF IsCall
<1>1. CASE c.kind = "element"
  <2>1. ElementAnswer(c).read = r
    <3>1. \A out, deferred : Outcome(out, r, deferred).read = r
      BY OutcomeFields
    <3>2. Known(EmptyValue(c.name), r).read = r
      BY KnownMoves
    <3> QED BY <3>1, <3>2 DEF ElementAnswer
  <2> QED BY <1>1, <2>1 DEF Answer, Moves
<1>2. CASE c.kind # "element"
  <2>1. Answer(d, c).read = After(d, c)
    <3>1. \A out, deferred : Outcome(out, After(d, c), deferred).read = After(d, c)
      BY OutcomeFields
    <3> QED BY <1>2, <3>1 DEF Answer
  <2> QED BY <2>1, Within DEF Moves
<1> QED BY <1>1, <1>2

LEMMA SettledMoves ==
  ASSUME NEW c, NEW p
  PROVE  Settled(c, p).read = p.read
<1>1. \A out, deferred : Outcome(out, p.read, deferred).read = p.read
  BY OutcomeFields
<1>2. Known(Decoded(c.name, p.out.value), p.read).read = p.read
  BY KnownMoves
<1> QED BY <1>1, <1>2 DEF Settled

(* What a call goes on as is a call of lower rank. *)
LEMMA ContinuationCall ==
  ASSUME NEW d, Len(d) \in Nat, NEW c, IsCall(d, c), Continues(d, c)
  PROVE  /\ IsCall(d, Continuation(d, c)) /\ Rank(d, Continuation(d, c)) < Rank(d, c)
         /\ Continuation(d, c).read >= c.read
<1> PICK r \in Nat : r = c.read /\ r <= Len(d)
  BY DEF IsCall
<1> PICK b : b = Continuation(d, c)
  OBVIOUS
<1> PICK no : no = FALSE
  OBVIOUS
<1>1. CASE c.kind = "element"
  <2>1. b = ChildrenCall(r, no, c.name, c.level + 1, << >>, {})
    BY <1>1 DEF Continuation
  <2>2. b.kind = "children" /\ b.read = r
    BY <2>1, CallFields
  <2>3. IsCall(d, b)
    BY <2>2 DEF IsCall
  <2> QED BY <1>1, <2>2, <2>3, LowerRank
<1>2. CASE c.kind # "element"
  <2> PICK t : t = Following(d, c)
    OBVIOUS
  <2>1. b = PastToken(c, t)
    BY <1>2 DEF Continuation
  <2>2. t # Bad
    BY <1>2, KindsDiffer DEF Continues, OpensKey
  <2>3. r + 1 \in 0 .. Len(d)
    BY <2>2, Within
  <2>4. b.kind \in {"document", "element", "children", "body"} /\ b.read = r + 1
    <3>1. CASE c.kind = "document"
      <4>1. CASE IsElement(t)
        <5>1. PICK empty, known : b = ElementCall(r + 1, t.name, empty, 0, known)
          BY <2>1, <3>1, <4>1 DEF PastToken
        <5> QED BY <5>1, CallFields
      <4>2. CASE ~ IsElement(t)
        <5>1. b = DocumentCall(r + 1)
          BY <2>1, <3>1, <4>2 DEF PastToken
        <5> QED BY <5>1, CallFields
      <4> QED BY <4>1, <4>2
    <3>2. CASE c.kind = "children"
      <4>1. PICK key : b = ChildrenCall(r + 1, no, c.name, c.level, c.children, key)
        BY <2>1, <3>2 DEF PastToken
      <4> QED BY <4>1, CallFields
    <3>3. CASE c.kind = "body"
      <4>1. PICK level, text : b = BodyCall(r + 1, level, text)
        BY <2>1, <3>3 DEF PastToken
      <4> QED BY <4>1, CallFields
    <3> QED BY <1>2, <3>1, <3>2, <3>3 DEF IsCall
  <2>5. IsCall(d, b) /\ b.read \in r + 1 .. Len(d)
    BY <2>3, <2>4 DEF IsCall
  <2>6. Rank(d, b) < Rank(d, c)
    BY <2>5, LowerRank
  <2> QED BY <2>5, <2>6
<1> QED BY <1>1, <1>2

(* So is the one it asks for, and the one it goes on as after it. *)
LEMMA ChildCallFacts ==
  ASSUME NEW d, Len(d) \in Nat, NEW c, IsCall(d, c), Asks(d, c)
  PROVE  /\ IsCall(d, ChildCall(d, c)) /\ Rank(d, ChildCall(d, c)) < Rank(d, c)
         /\ ChildCall(d, c).read >= c.read
         /\ c.kind = "children" => ChildCall(d, c).read = c.read + 1
<1> PICK r \in Nat : r = c.read /\ r <= Len(d)
  BY DEF IsCall
<1> PICK b : b = ChildCall(d, c)
  OBVIOUS
<1>1. CASE c.kind = "element"
  <2>1. b = BodyCall(r, 0, << >>)
    BY <1>1 DEF ChildCall
  <2>2. b.kind = "body" /\ b.read = r
    BY <2>1, CallFields
  <2>3. IsCall(d, b)
    BY <2>2 DEF IsCall
  <2> QED BY <1>1, <2>2, <2>3, LowerRank
<1>2. CASE c.kind # "element"
  <2> PICK t : t = Following(d, c)
    OBVIOUS
  <2>1. IsElement(t)
    BY <1>2 DEF Asks, OpensKey, OpensChild
  <2>2. r + 1 \in 0 .. Len(d)
    BY <2>1, KindsDiffer, Within
  <2>3. b.kind \in {"element", "body"} /\ b.read = r + 1
    <3>1. CASE OpensKey(c, t)
      <4>1. b = BodyCall(r + 1, 0, << >>)
        BY <1>2, <3>1 DEF ChildCall
      <4> QED BY <4>1, CallFields
    <3>2. CASE ~ OpensKey(c, t)
      <4>1. PICK empty, known : b = ElementCall(r + 1, t.name, empty, c.level, known)
        BY <1>2, <3>2 DEF ChildCall
      <4> QED BY <4>1, CallFields
    <3> QED BY <3>1, <3>2
  <2>4. IsCall(d, b) /\ b.read \in r + 1 .. Len(d)
    BY <2>2, <2>3 DEF IsCall
  <2>5. Rank(d, b) < Rank(d, c)
    BY <2>4, LowerRank
  <2> QED BY <2>3, <2>4, <2>5
<1> QED BY <1>1, <1>2

LEMMA RestCallFacts ==
  ASSUME NEW d, Len(d) \in Nat, NEW c, IsCall(d, c), Asks(d, c),
         NEW p, Resumes(c, p), Moves(d, ChildCall(d, c), p)
  PROVE  /\ IsCall(d, RestCall(d, c, p)) /\ Rank(d, RestCall(d, c, p)) < Rank(d, c)
         /\ RestCall(d, c, p).read >= c.read
<1> PICK r \in Nat : r = c.read /\ r <= Len(d)
  BY DEF IsCall
<1> PICK b : b = RestCall(d, c, p)
  OBVIOUS
<1>1. p.read \in r + 1 .. Len(d)
  <2>1. ChildCall(d, c).read = r + 1
    BY ChildCallFacts DEF Resumes
  <2> QED BY <2>1 DEF Moves
<1>2. \E kept, key : b = ChildrenCall(p.read, p.deferred, c.name, c.level, kept, key)
  BY DEF RestCall
<1>3. b.kind = "children" /\ b.read = p.read
  BY <1>2, CallFields
<1>4. IsCall(d, b)
  BY <1>1, <1>3 DEF IsCall
<1>5. Rank(d, b) < Rank(d, c)
  BY <1>1, <1>3, <1>4, LowerRank
<1> QED BY <1>1, <1>3, <1>4, <1>5

LEMMA ContinuationDecides ==
  ASSUME NEW d, Len(d) \in Nat, NEW c, IsCall(d, c), Continues(d, c), Decided(d, Continuation(d, c))
  PROVE  Decided(d, c)
<1> PICK b : b = Continuation(d, c)
  OBVIOUS
<1>1. \E o : Returns(d, c, o)
  BY ContinueRule DEF Decided
<1>2. \A o : Returns(d, c, o) => Returns(d, b, o)
  BY RuleUsed
<1>3. \A o : Moves(d, b, o) => Moves(d, c, o)
  <2>1. b.read >= c.read /\ b.read \in Nat /\ c.read \in Nat
    BY ContinuationCall DEF IsCall
  <2> QED BY <2>1 DEF Moves
<1> QED BY <1>1, <1>2, <1>3 DEF Decided

LEMMA AskDecides ==
  ASSUME NEW d, Len(d) \in Nat, NEW c, IsCall(d, c), ~ Continues(d, c), Asks(d, c),
         \A b : IsCall(d, b) /\ Rank(d, b) < Rank(d, c) => Decided(d, b)
  PROVE  Decided(d, c)
<1>1. Decided(d, ChildCall(d, c))
  BY ChildCallFacts
<1>2. PICK p : Returns(d, ChildCall(d, c), p)
  BY <1>1 DEF Decided
<1>3. \A a : Returns(d, ChildCall(d, c), a) => a = p
  BY <1>1, <1>2 DEF Decided
<1>4. Moves(d, ChildCall(d, c), p)
  BY <1>1, <1>2 DEF Decided
<1>5. \A o : Returns(d, c, o) => IF Resumes(c, p) THEN Returns(d, RestCall(d, c, p), o) ELSE o = Settled(c, p)
  <2> SUFFICES ASSUME NEW o, Returns(d, c, o)
               PROVE  IF Resumes(c, p) THEN Returns(d, RestCall(d, c, p), o) ELSE o = Settled(c, p)
    OBVIOUS
  <2>1. PICK a : /\ Returns(d, ChildCall(d, c), a)
                 /\ IF Resumes(c, a) THEN Returns(d, RestCall(d, c, a), o) ELSE o = Settled(c, a)
    BY RuleUsed
  <2>2. a = p
    BY <1>3, <2>1
  <2> QED BY <2>1, <2>2
<1>6. CASE Resumes(c, p)
  <2> PICK b : b = RestCall(d, c, p)
    OBVIOUS
  <2>1. Decided(d, b) /\ IsCall(d, b) /\ b.read >= c.read
    BY <1>4, <1>6, RestCallFacts
  <2>2. \E o : Returns(d, c, o)
    BY <1>2, <1>6, <2>1, AskRule DEF Decided
  <2>3. \A o : Moves(d, b, o) => Moves(d, c, o)
    <3>1. b.read \in Nat /\ c.read \in Nat
      BY <2>1 DEF IsCall
    <3> QED BY <2>1, <3>1 DEF Moves
  <2> QED BY <1>5, <1>6, <2>1, <2>2, <2>3 DEF Decided
<1>7. CASE ~ Resumes(c, p)
  <2>1. Returns(d, c, Settled(c, p))
    BY <1>2, <1>7, AskRule
  <2>2. Moves(d, c, Settled(c, p))
    <3>1. ChildCall(d, c).read >= c.read /\ ChildCall(d, c).read \in Nat /\ c.read \in Nat
      BY ChildCallFacts DEF IsCall
    <3> QED BY <1>4, <3>1, SettledMoves DEF Moves
  <2> QED BY <1>5, <1>7, <2>1, <2>2 DEF Decided
<1> QED BY <1>6, <1>7

LEMMA CallsDecided ==
  ASSUME NEW d, Len(d) \in Nat, NEW b, IsCall(d, b)
  PROVE  Decided(d, b)
<1> DEFINE Undecided(k) == \E c : IsCall(d, c) /\ k = Rank(d, c) /\ ~ Decided(d, c)
           T == {k \in Nat : Undecided(k)}
<1>1. SUFFICES ASSUME ~ Decided(d, b) PROVE FALSE
  OBVIOUS
<1>2. \A c : IsCall(d, c) => Rank(d, c) \in Nat
  BY DEF IsCall, Rank
<1>3. T # {}
  BY <1>1, <1>2
<1>4. PICK k \in T : \A j \in T : k <= j
  <2> HIDE DEF Undecided
  <2>1. T \in SUBSET Nat
    OBVIOUS
  <2> HIDE DEF T
  <2> QED BY <1>3, <2>1, LeastNumber
<1>5. PICK c : IsCall(d, c) /\ k = Rank(d, c) /\ ~ Decided(d, c)
  BY <1>4
<1>6. ASSUME NEW a, IsCall(d, a), Rank(d, a) < Rank(d, c) PROVE Decided(d, a)
  <2> SUFFICES ASSUME ~ Decided(d, a) PROVE FALSE
    OBVIOUS
  <2>1. PICK j \in Nat : j = Rank(d, a)
    BY <1>2, <1>6
  <2>2. j \in T
    BY <1>6, <2>1
  <2>3. k <= j /\ k \in Nat /\ j < k
    BY <1>4, <1>5, <1>6, <2>1, <2>2
  <2> QED BY <2>3
<1>7. CASE Continues(d, c)
  <2>1. Decided(d, Continuation(d, c))
    BY <1>5, <1>6, <1>7, ContinuationCall
  <2> QED BY <1>5, <1>7, <2>1, ContinuationDecides
<1>8. CASE ~ Continues(d, c) /\ Asks(d, c)
  BY <1>5, <1>6, <1>8, AskDecides
<1>9. CASE ~ Continues(d, c) /\ ~ Asks(d, c)
  <2>1. Returns(d, c, Answer(d, c)) /\ \A o : Returns(d, c, o) => o = Answer(d, c)
    BY <1>9, AnswerRule, RuleUsed
  <2>2. Moves(d, c, Answer(d, c))
    BY <1>5, AnswerMoves
  <2>3. Decided(d, c)
    BY <2>1, <2>2 DEF Decided
  <2> QED BY <1>5, <2>3
<1> QED BY <1>7, <1>8, <1>9

(* The recursive parse is a function: every finite document, whatever its  *)
(* tokens, has exactly one outcome, so that the rules define what they are *)
(* meant to and leave no document without an answer.                       *)
THEOREM OneParse ==
  ASSUME NEW d, IsSequence(d)
  PROVE  \E o : Returns(d, DocumentCall(0), o) /\ \A p : Returns(d, DocumentCall(0), p) => p = o
<1>1. Len(d) \in Nat
  BY SequenceFacts
<1>2. IsCall(d, DocumentCall(0))
  BY <1>1, CallFields DEF IsCall
<1>3. Decided(d, DocumentCall(0))
  BY <1>1, <1>2, CallsDecided
<1> QED BY <1>3 DEF Decided

-----------------------------------------------------------------------------
(***************************************************************************)
(* What is pending: a key is read into a dictionary and kept there, and a  *)
(* failure is deferred only until a value has been delivered.              *)
(***************************************************************************)
ReadsKey ==
  \/ step.op = "Body" /\ step.name = "key"
  \/ step.op = "Skip" /\ step.then.op = "Body" /\ step.then.name = "key"

Pending ==
  /\ poison => step.op \in {"Advance", "Deliver", "Ok"}
  /\ ReadsKey => Top.name = "dict"
  /\ \A k \in 1 .. Len(stack) : stack[k].name # "dict" => stack[k].key = {}

LEMMA StackKeptPending ==
  ASSUME Pending, UNCHANGED stack, ReadsKey' => ReadsKey, poison' => step'.op \in {"Advance", "Deliver", "Ok"}
  PROVE  Pending'
BY DEF Pending, Top

LEMMA PopPending ==
  ASSUME IInv, Pending, stack # << >>, stack' = Pop, step'.op = "Deliver"
  PROVE  Pending'
<1>1. /\ Len(stack) \in Nat \ {0} /\ Len(stack') = Len(stack) - 1
      /\ \A k \in 1 .. Len(stack') : stack'[k] = stack[k]
  <2>1. stack' = Popped(stack)
    BY DEF Pop, Popped
  <2> QED BY <2>1, PopSequence DEF IInv, Shape
<1>2. \A k \in 1 .. Len(stack') : k \in 1 .. Len(stack)
  BY <1>1
<1> QED BY <1>1, <1>2 DEF Pending, ReadsKey

LEMMA TopPending ==
  ASSUME IInv, Pending, stack # << >>, NEW f, stack' = WithTop(f), f.name # "dict" => f.key = {},
         step'.op = "Advance"
  PROVE  Pending'
<1>1. /\ Len(stack) \in Nat \ {0} /\ Len(stack') = Len(stack)
      /\ stack'[Len(stack)] = f
      /\ \A k \in 1 .. Len(stack) : k # Len(stack) => stack'[k] = stack[k]
  <2>1. stack' = Replaced(stack, f)
    BY DEF WithTop, Replaced
  <2> QED BY <2>1, ReplaceLast DEF IInv, Shape
<1> QED BY <1>1 DEF Pending, ReadsKey

LEMMA PullKeeps ==
  ASSUME IInv, NEW t, Pull(t)
  PROVE  ~ poison /\ ~ poison'
BY PullFacts

LEMMA NotKey == "key" \notin Leaves /\ "key" \notin Booleans /\ "key" \notin Containers
BY DEF Leaves, Booleans, Containers

LEMMA StepFields ==
  ASSUME NEW a, NEW b
  PROVE  /\ Body(a, b).op = "Body" /\ Body(a, b).name = a /\ Body(a, b).text = b
         /\ Skip(a, b).op = "Skip" /\ Skip(a, b).balance = a /\ Skip(a, b).then = b
         /\ Open(a).op = "Open" /\ Open(a).name = a.name
         /\ Advance.op = "Advance"
         /\ Deliver(a).op = "Deliver" /\ Deliver(a).value = a
         /\ Error(a).op = "Err" /\ Return(a).op = "Ok"
BY DEF Body, Skip, Open, Advance, Deliver, Error, Return

LEMMA ReadPending ==
  ASSUME IInv, Pending, NEW t, Read(t)
  PROVE  Pending'
<1>1. CASE NextFails(t)
  <2>1. Raise /\ Reading
    BY <1>1 DEF NextFails
  <2>2. CASE SkipsBoolean
    <3>1. step' = step.then /\ step.then.op = "Deliver" /\ UNCHANGED stack
      BY <2>1, <2>2 DEF Raise, SkipsBoolean
    <3> QED BY <3>1, StackKeptPending DEF ReadsKey
  <2>3. CASE ~ SkipsBoolean
    <3>1. step'.op = "Err" /\ UNCHANGED stack /\ ~ poison'
      BY <2>1, <2>3 DEF Raise, Error
    <3> QED BY <3>1, StackKeptPending DEF ReadsKey
  <2> QED BY <2>2, <2>3
<1>2. CASE ReadDocument(t) \/ ReadChild(t) \/ Ignore(t)
  <2>1. UNCHANGED stack /\ ~ poison'
    BY <1>2, PullKeeps DEF ReadDocument, ReadChild, Ignore
  <2>2. step'.op \in {"Open", "Document", "Advance"}
    BY <1>2, StepFields DEF ReadDocument, ReadChild, Ignore
  <2> QED BY <2>1, <2>2, StackKeptPending DEF ReadsKey
<1>3. CASE ReadKey(t)
  <2>1. step.op = "Advance" /\ Top.name = "dict" /\ ~ poison' /\ stack # << >>
    BY <1>3, PullKeeps DEF ReadKey, IInv, StepShape
  <2>2. CASE t.kind = "Empty"
    <3> PICK f : f = [Top EXCEPT !.key = {<< >>}]
      OBVIOUS
    <3>1. stack' = WithTop(f) /\ step'.op = "Advance"
      BY <1>3, <2>1, <2>2 DEF ReadKey
    <3>2. f.name = Top.name
      BY <2>1, TopIsFrame, KeySet
    <3> QED BY <2>1, <3>1, <3>2, TopPending
  <2>3. CASE t.kind # "Empty"
    <3>1. UNCHANGED stack
      BY <1>3, <2>3 DEF ReadKey
    <3> QED BY <2>1, <3>1 DEF Pending, Top
  <2> QED BY <2>2, <2>3
<1>4. CASE ReadEntryValue(t)
  <2>1. UNCHANGED stack /\ ~ poison' /\ step'.op \in {"Open", "Err"}
    BY <1>4, PullKeeps, StepFields DEF ReadEntryValue
  <2> QED BY <2>1, StackKeptPending DEF ReadsKey
<1>5. CASE CloseContainer(t)
  <2>1. step.op = "Advance" /\ stack # << >> /\ ~ poison'
    BY <1>5, PullKeeps DEF CloseContainer, IInv, StepShape
  <2>2. \/ UNCHANGED stack /\ step'.op = "Err"
        \/ stack' = Pop /\ step'.op = "Deliver"
    <3>1. CASE Top.name = "plist" \/ Top.key # {}
      <4>1. step' = Error("Parse") /\ UNCHANGED stack
        BY <1>5, <3>1 DEF CloseContainer
      <4> QED BY <4>1, StepFields
    <3>2. CASE ~ (Top.name = "plist" \/ Top.key # {})
      <4>1. step' = Deliver(Finished(Top)) /\ stack' = Pop
        BY <1>5, <3>2 DEF CloseContainer
      <4> QED BY <4>1, StepFields
    <3> QED BY <3>1, <3>2
  <2> QED BY <2>1, <2>2, StackKeptPending, PopPending DEF ReadsKey
<1>6. CASE ReadBody(t)
  <2>1. UNCHANGED stack /\ ~ poison' /\ step.op = "Body"
    BY <1>6, PullKeeps DEF ReadBody
  <2>2. CASE t.kind = "Start"
    <3>1. step'.op = "Skip" /\ step'.then = step
      BY <1>6, <2>2, StepFields DEF ReadBody
    <3> QED BY <2>1, <3>1, StackKeptPending DEF ReadsKey
  <2>3. CASE t.kind = "Text"
    <3>1. step' = [step EXCEPT !.text = @ \o t.chunk]
      BY <1>6, <2>3 DEF ReadBody
    <3>2. step'.op = "Body" => step'.name = step.name /\ step'.op # "Skip"
      BY <3>1
    <3>3. ReadsKey' => ReadsKey
      BY <2>1, <3>1, <3>2 DEF ReadsKey
    <3> QED BY <2>1, <3>3, StackKeptPending
  <2>4. CASE t.kind \notin {"Start", "Text"}
    <3>1. step' = step
      BY <1>6, <2>4 DEF ReadBody
    <3> QED BY <2>1, <3>1, StackKeptPending DEF ReadsKey
  <2> QED BY <2>2, <2>3, <2>4
<1>7. CASE FinishBody(t)
  <2>1. ~ poison' /\ step.op = "Body"
    BY <1>7, PullKeeps DEF FinishBody
  <2>2. CASE step.name = "key"
    <3> PICK f : f = [Top EXCEPT !.key = {step.text}]
      OBVIOUS
    <3>1. stack' = WithTop(f) /\ step'.op = "Advance" /\ stack # << >>
      BY <1>7, <2>1, <2>2, StepFields DEF FinishBody, IInv, StepShape
    <3>2. Top.name = "dict"
      BY <2>1, <2>2 DEF Pending, ReadsKey
    <3>3. f.name = Top.name
      BY <3>1, TopIsFrame, KeySet
    <3> QED BY <3>1, <3>2, <3>3, TopPending
  <2>3. CASE step.name # "key"
    <3>1. UNCHANGED stack /\ step'.op \in {"Deliver", "Err"}
      <4>1. CASE Decoded(step.name, step.text) # {}
        <5>1. step' = Deliver(CHOOSE v \in Decoded(step.name, step.text) : TRUE) /\ UNCHANGED stack
          BY <1>7, <2>3, <4>1 DEF FinishBody
        <5> QED BY <5>1, StepFields
      <4>2. CASE Decoded(step.name, step.text) = {}
        <5>1. step' = Error("Parse") /\ UNCHANGED stack
          BY <1>7, <2>3, <4>2 DEF FinishBody
        <5> QED BY <5>1, StepFields
      <4> QED BY <4>1, <4>2
    <3> QED BY <2>1, <3>1, StackKeptPending DEF ReadsKey
  <2> QED BY <2>2, <2>3
<1>8. CASE ReadSkipped(t)
  <2>1. UNCHANGED stack /\ ~ poison' /\ step.op = "Skip"
    BY <1>8, PullKeeps DEF ReadSkipped
  <2>2. step'.op # "Body" /\ (step'.op = "Skip" => step'.then = step.then)
    <3>1. CASE step' = [step EXCEPT !.balance = @ + 1]
      BY <2>1, <3>1
    <3>2. CASE step' = [step EXCEPT !.balance = @ - 1]
      BY <2>1, <3>2
    <3>3. CASE step' = step
      BY <2>1, <3>3
    <3> QED BY <1>8, <3>1, <3>2, <3>3 DEF ReadSkipped
  <2>3. ReadsKey' => ReadsKey
    BY <2>1, <2>2 DEF ReadsKey
  <2> QED BY <2>1, <2>3, StackKeptPending
<1>9. CASE FinishSkip(t)
  <2>1. UNCHANGED stack /\ ~ poison' /\ step.op = "Skip" /\ step' = step.then
    BY <1>9, PullKeeps DEF FinishSkip
  <2>2. step.then.op \in {"Body", "Deliver"}
    BY <2>1 DEF IInv, StepShape
  <2> QED BY <2>1, <2>2, StackKeptPending DEF ReadsKey
<1> QED BY <1>1, <1>2, <1>3, <1>4, <1>5, <1>6, <1>7, <1>8, <1>9 DEF Read

LEMMA OpenPending ==
  ASSUME IInv, Pending, OpenTooDeep \/ OpenContainer \/ OpenLeaf \/ OpenBoolean \/ OpenEmpty \/ OpenUnknown
  PROVE  Pending'
<1>1. step.op = "Open" /\ poison' = poison
  BY DEF OpenTooDeep, OpenContainer, OpenLeaf, OpenBoolean, OpenEmpty, OpenUnknown, Entered
<1>2. ~ poison'
  BY <1>1 DEF Pending
<1>3. CASE OpenContainer
  <2> PICK f : f = Frame(step.name)
    OBVIOUS
  <2>1. stack' = Extended(stack, f) /\ step'.op = "Advance"
    BY <1>3, StepFields DEF OpenContainer, Extended
  <2>2. f.key = {}
    BY DEF Frame
  <2> PICK n \in Nat : n = Len(stack) /\ IsSequence(stack)
    BY SequenceFacts DEF IInv, Shape
  <2>3. Len(stack') = n + 1 /\ stack'[n + 1] = f /\ \A k \in 1 .. n : stack'[k] = stack[k]
    BY <2>1, AppendSequence
  <2>4. ASSUME NEW k \in 1 .. n + 1 PROVE stack'[k].name # "dict" => stack'[k].key = {}
    <3>1. CASE k = n + 1
      BY <2>2, <2>3, <3>1
    <3>2. CASE k # n + 1
      <4>1. k \in 1 .. n
        BY <3>2
      <4> QED BY <2>3, <4>1 DEF Pending
    <3> QED BY <3>1, <3>2
  <2> QED BY <1>2, <2>1, <2>3, <2>4 DEF Pending, ReadsKey
<1>4. CASE OpenLeaf
  <2>1. UNCHANGED stack /\ step'.op = "Body" /\ step'.name # "key"
    BY <1>4, NotKey, StepFields DEF OpenLeaf, Entered
  <2> QED BY <1>2, <2>1, StackKeptPending DEF ReadsKey
<1>5. CASE OpenBoolean
  <2>1. UNCHANGED stack /\ step'.op = "Skip" /\ step'.then.op = "Deliver"
    <3> PICK v : v = Boolean(step.name = "true")
      OBVIOUS
    <3>1. UNCHANGED stack /\ step' = Skip(1, Deliver(v))
      BY <1>5 DEF OpenBoolean
    <3>2. step'.op = "Skip" /\ step'.then = Deliver(v)
      BY <3>1, StepFields
    <3>3. Deliver(v).op = "Deliver"
      BY StepFields
    <3> QED BY <3>1, <3>2, <3>3
  <2> QED BY <1>2, <2>1, StackKeptPending DEF ReadsKey
<1>6. CASE OpenEmpty \/ OpenTooDeep \/ OpenUnknown
  <2>1. UNCHANGED stack /\ step'.op \in {"Deliver", "Err"}
    <3>1. CASE OpenEmpty
      BY <3>1 DEF OpenEmpty, Error, Deliver
    <3>2. CASE OpenTooDeep
      BY <3>2 DEF OpenTooDeep, Error
    <3>3. CASE OpenUnknown
      BY <3>3 DEF OpenUnknown, Error
    <3> QED BY <1>6, <3>1, <3>2, <3>3
  <2> QED BY <1>2, <2>1, StackKeptPending DEF ReadsKey
<1> QED BY <1>3, <1>4, <1>5, <1>6

LEMMA RestPending ==
  ASSUME IInv, Pending, NextPoisoned \/ DeliverToPlist \/ DeliverToFrame \/ DeliverOut \/ UNCHANGED vars
  PROVE  Pending'
<1>1. CASE NextPoisoned
  <2>1. step.op = "Advance" /\ Raise
    BY <1>1 DEF NextPoisoned, Reading, Pending
  <2>2. step'.op = "Err" /\ UNCHANGED stack /\ ~ poison'
    <3>1. ~ SkipsBoolean
      BY <2>1 DEF SkipsBoolean
    <3> QED BY <2>1, <3>1 DEF Raise, Error
  <2> QED BY <2>2, StackKeptPending DEF ReadsKey
<1>2. CASE DeliverToPlist
  <2>1. stack # << >> /\ stack' = Pop /\ step'.op = "Deliver"
    BY <1>2 DEF DeliverToPlist
  <2> QED BY <2>1, PopPending
<1>3. CASE DeliverToFrame
  <2> DEFINE f == IF Top.name = "array"
                  THEN [Top EXCEPT !.collected = Append(@, step.value)]
                  ELSE [Top EXCEPT !.collected = Append(@, Entry(CHOOSE k \in Top.key : TRUE, step.value)), !.key = {}]
  <2>1. stack # << >> /\ stack' = WithTop(f) /\ step'.op = "Advance"
    BY <1>3, StepFields DEF DeliverToFrame
  <2>2. IsFrame(Top) /\ (Top.name = "array" => Top.key = {})
    <3>1. Len(stack) \in 1 .. Len(stack)
      BY <2>1, TopIsFrame
    <3> QED BY <2>1, <3>1, TopIsFrame DEF Pending, Top
  <2>3. f.key = {}
    <3>1. CASE Top.name = "array"
      <4>1. f = [Top EXCEPT !.collected = Append(@, step.value)]
        BY <3>1
      <4> QED BY <2>2, <3>1, <4>1 DEF IsFrame
    <3>2. CASE Top.name # "array"
      BY <2>2, <3>2 DEF IsFrame
    <3> QED BY <3>1, <3>2
  <2> HIDE DEF f
  <2> QED BY <2>1, <2>3, TopPending
<1>4. CASE DeliverOut
  <2>1. UNCHANGED stack /\ step'.op = "Ok"
    BY <1>4, StepFields DEF DeliverOut
  <2> QED BY <2>1, StackKeptPending DEF ReadsKey
<1>5. CASE UNCHANGED vars
  BY <1>5, StackKeptPending DEF ReadsKey, Pending, vars
<1> QED BY <1>1, <1>2, <1>3, <1>4, <1>5

LEMMA InitPending == Init => Pending
BY EmptySequence DEF Init, Document, Pending, ReadsKey

LEMMA NextPending ==
  ASSUME IInv, Pending, [Next]_vars
  PROVE  Pending'
<1>1. \/ \E t : Read(t)
      \/ OpenTooDeep \/ OpenContainer \/ OpenLeaf \/ OpenBoolean \/ OpenEmpty \/ OpenUnknown
      \/ NextPoisoned \/ DeliverToPlist \/ DeliverToFrame \/ DeliverOut \/ UNCHANGED vars
  BY DEF Next, NextOn, Stop
<1> QED BY <1>1, ReadPending, OpenPending, RestPending

THEOREM PendingHeld == Spec => []Pending
<1>1. IInv /\ Pending /\ [Next]_vars => Pending'
  BY NextPending
<1> QED BY <1>1, InitPending, Invariance, PTL DEF Spec

-----------------------------------------------------------------------------
(***************************************************************************)
(* The calls the walker has open, in a document d that begins with what    *)
(* was read.  asked[k] is the call that frame k has got as far as while it *)
(* waits for a child; the call for the child is the one that frame k + 1,  *)
(* or the leaf that is read, was entered by.  What the innermost call      *)
(* returns decides what all the others do.                                 *)
(***************************************************************************)
Begins(d) ==
  /\ IsSequence(d) /\ Len(input) <= Len(d)
  /\ \A k \in 1 .. Len(input) : d[k] = input[k]

Leads(d, c, b) == \A o : Returns(d, b, o) => Returns(d, c, o)

EnteredBy(d, asked, k) == IF k = 1 THEN DocumentCall(0) ELSE ChildCall(d, asked[k - 1])

Awaits(d, s, asked, k) ==
  /\ asked[k].kind = "children" /\ OpensChild(asked[k], Following(d, asked[k]))
  /\ asked[k].name = s[k].name /\ asked[k].children = s[k].collected
  /\ asked[k].key = s[k].key /\ asked[k].level = k
  /\ Leads(d, EnteredBy(d, asked, k), asked[k])

Waiting(k) == k < Len(stack) \/ step.op \in {"Open", "Deliver"} \/ BurnedByLeaf = 1

CallsOpen(d, asked) == \A k \in 1 .. Len(stack) : Waiting(k) => Awaits(d, stack, asked, k)

(* The call for what is left of a frame. *)
RestOf(f, level, read, deferred) == ChildrenCall(read, deferred, f.name, level, f.collected, f.key)

(* What becomes of the body that b reads, in the call e that asked for it. *)
KeyOf(d, e, level, kept, b) ==
  \A p : Returns(d, b, p) =>
    IF Failed(p) THEN Returns(d, e, p)
    ELSE Leads(d, e, ChildrenCall(p.read, p.deferred, "dict", level, kept, {p.out.value}))
LeafOf(d, e, name, b) ==
  \A p : Returns(d, b, p) => Returns(d, e, IF Failed(p) THEN p ELSE Known(Decoded(name, p.out.value), p.read))
BooleanOf(d, e, v, b) ==
  \A p : Returns(d, b, p) => Returns(d, e, Outcome(Return(v), p.read, Failed(p)))

BodyOf(d, asked, s, name, b) ==
  IF name = "key" THEN KeyOf(d, EnteredBy(d, asked, Len(s)), Len(s), s[Len(s)].collected, b)
  ELSE LeafOf(d, EnteredBy(d, asked, Len(s) + 1), name, b)

CallsCurrent(d, asked) ==
  /\ step.op = "Document" => Leads(d, DocumentCall(0), DocumentCall(Len(input)))
  /\ step.op = "Open" =>
       Leads(d, EnteredBy(d, asked, Len(stack) + 1),
             ElementCall(Len(input), step.name, step.empty, Len(stack), recognized))
  /\ step.op = "Advance" =>
       Leads(d, EnteredBy(d, asked, Len(stack)), RestOf(Top, Len(stack), Len(input), poison))
  /\ step.op = "Body" => BodyOf(d, asked, stack, step.name, BodyCall(Len(input), 0, step.text))
  /\ step.op = "Skip" =>
       /\ SkipsBoolean => \E text :
            BooleanOf(d, EnteredBy(d, asked, Len(stack) + 1), step.then.value,
                      BodyCall(Len(input), step.balance - 1, text))
       /\ ~ SkipsBoolean =>
            BodyOf(d, asked, stack, step.then.name, BodyCall(Len(input), step.balance, step.then.text))
  /\ step.op = "Deliver" =>
       Returns(d, EnteredBy(d, asked, Len(stack) + 1), Outcome(Return(step.value), Len(input), poison))

Walked(d) ==
  /\ ~ Returned => \E asked : CallsOpen(d, asked) /\ CallsCurrent(d, asked)
  /\ Returned => Returns(d, DocumentCall(0), Outcome(step, Len(input), poison))

RecursionInv == \A d : Begins(d) => Walked(d)

LEMMA LeadsOn ==
  ASSUME NEW d, NEW a, NEW b, NEW c, Leads(d, a, b), Leads(d, b, c)
  PROVE  Leads(d, a, c)
BY DEF Leads

LEMMA ContinuationLeads ==
  ASSUME NEW d, NEW c, Continues(d, c)
  PROVE  Leads(d, c, Continuation(d, c))
BY ContinueRule DEF Leads

LEMMA RecursionInit == Init => RecursionInv
<1> SUFFICES ASSUME Init, NEW d, Begins(d) PROVE Walked(d)
  BY DEF RecursionInv
<1>1. Len(stack) = 0 /\ Len(input) = 0 /\ step.op = "Document"
  BY EmptySequence DEF Init, Document
<1> PICK asked : asked = << >>
  OBVIOUS
<1>2. CallsOpen(d, asked)
  BY <1>1 DEF CallsOpen
<1>3. Leads(d, DocumentCall(0), DocumentCall(Len(input)))
  BY <1>1 DEF Leads
<1>4. CallsCurrent(d, asked)
  BY <1>1, <1>3 DEF CallsCurrent
<1> QED BY <1>1, <1>2, <1>4 DEF Walked, Returned

(* What is read is what the document has there. *)
LEMMA ReadThere ==
  ASSUME IInv, NEW t, input' = Append(input, t), NEW d, Begins(d)'
  PROVE  /\ Begins(d) /\ Len(input) \in Nat /\ Len(d) \in Nat /\ Len(input') = Len(input) + 1
         /\ \A c : c.read = Len(input) /\ ~ c.deferred => Following(d, c) = t /\ After(d, c) = Len(input')
<1> PICK n \in Nat : n = Len(input) /\ IsSequence(input)
  BY SequenceFacts DEF IInv, Shape
<1> PICK m \in Nat : m = Len(d)
  BY SequenceFacts DEF Begins
<1>1. /\ IsSequence(d) /\ Len(input') <= m
      /\ \A k \in 1 .. Len(input') : d[k] = input'[k]
  BY DEF Begins
<1>2. Len(input') = n + 1 /\ (\A k \in 1 .. n : input'[k] = input[k]) /\ input'[n + 1] = t
  <2>1. input' = Extended(input, t)
    BY DEF Extended
  <2> QED BY <2>1, AppendSequence
<1>3. Begins(d)
  BY <1>1, <1>2 DEF Begins
<1>4. ~ (n >= m) /\ d[n + 1] = t
  <2>1. n + 1 \in 1 .. Len(input')
    BY <1>2
  <2> QED BY <1>1, <1>2, <2>1
<1>5. ASSUME NEW c, c.read = n, ~ c.deferred PROVE Following(d, c) = t /\ After(d, c) = n + 1
  <2>1. ~ Exhausted(d, c)
    BY <1>4, <1>5 DEF Exhausted
  <2> QED BY <1>4, <1>5, <2>1 DEF Following, After
<1> QED BY <1>2, <1>3, <1>5

(* A call that asks does not go on by itself. *)
LEMMA AskingWaits ==
  ASSUME NEW d, NEW c, Asks(d, c)
  PROVE  ~ Continues(d, c)
<1>1. CASE c.kind = "element"
  <2>1. \A name \in Leaves \cup Booleans : name \notin Containers
    BY DEF Leaves, Booleans, Containers
  <2> QED BY <1>1, <2>1 DEF Asks, Continues
<1>2. CASE c.kind = "children"
  <2> PICK t : t = Following(d, c)
    OBVIOUS
  <2>1. IsElement(t) /\ (OpensChild(c, t) \/ t.kind = "Start")
    BY <1>2 DEF Asks, OpensChild, OpensKey
  <2>2. ~ Passed(t)
    BY <2>1, KindsDiffer
  <2>3. OpensChild(c, t) => ~ OpensKey(c, t)
    BY DEF OpensChild, OpensKey
  <2> QED BY <1>2, <2>1, <2>2, <2>3 DEF Continues
<1> QED BY <1>1, <1>2 DEF Asks

(* The answer of a child.  An error goes all the way down. *)
LEMMA ChildAnswered ==
  ASSUME NEW d, NEW s, NEW asked, NEW k \in Nat, Awaits(d, s, asked, k), k # 0,
         NEW p, Returns(d, EnteredBy(d, asked, k + 1), p)
  PROVE  /\ ~ Resumes(asked[k], p) => Returns(d, EnteredBy(d, asked, k), p)
         /\ Resumes(asked[k], p) => Leads(d, EnteredBy(d, asked, k), RestCall(d, asked[k], p))
<1> PICK c : c = asked[k]
  OBVIOUS
<1>1. c.kind = "children" /\ Asks(d, c) /\ Leads(d, EnteredBy(d, asked, k), c)
  BY DEF Awaits, Asks
<1>2. EnteredBy(d, asked, k + 1) = ChildCall(d, c)
  <2>1. k + 1 # 1 /\ (k + 1) - 1 = k
    OBVIOUS
  <2> QED BY <2>1 DEF EnteredBy
<1>3. ~ Continues(d, c)
  BY <1>1, AskingWaits
<1>4. Returns(d, ChildCall(d, c), p)
  BY <1>2
<1>5. /\ ~ Resumes(c, p) => Returns(d, c, Settled(c, p))
      /\ Resumes(c, p) => \A o : Returns(d, RestCall(d, c, p), o) => Returns(d, c, o)
  BY <1>1, <1>3, <1>4, AskRule
<1>6. Settled(c, p) = p
  BY <1>1 DEF Settled
<1> QED BY <1>1, <1>5, <1>6 DEF Leads

LEMMA ErrorPassed ==
  ASSUME NEW d, NEW s, NEW asked, NEW m \in Nat, \A k \in 1 .. m : Awaits(d, s, asked, k),
         NEW o, Failed(o), Returns(d, EnteredBy(d, asked, m + 1), o)
  PROVE  Returns(d, DocumentCall(0), o)
<1> DEFINE T == {k \in Nat : k # 0 /\ k <= m + 1 /\ Returns(d, EnteredBy(d, asked, k), o)}
<1>1. T # {}
  <2>1. m + 1 \in T
    OBVIOUS
  <2> QED BY <2>1
<1>2. PICK k \in T : \A j \in T : k <= j
  <2>1. T \in SUBSET Nat
    OBVIOUS
  <2> HIDE DEF T
  <2> QED BY <1>1, <2>1, LeastNumber
<1>3. k \in Nat /\ k # 0 /\ k <= m + 1 /\ Returns(d, EnteredBy(d, asked, k), o)
  BY <1>2
<1>4. CASE k = 1
  BY <1>3, <1>4 DEF EnteredBy
<1>5. CASE k # 1
  <2>1. PICK j \in Nat : j + 1 = k /\ j # 0 /\ j <= m
    <3>1. k - 1 \in Nat /\ (k - 1) + 1 = k /\ k - 1 # 0 /\ k - 1 <= m
      BY <1>3, <1>5
    <3> QED BY <3>1
  <2>2. Awaits(d, s, asked, j)
    BY <2>1
  <2>3. Returns(d, EnteredBy(d, asked, j + 1), o)
    BY <1>3, <2>1
  <2>4. Returns(d, EnteredBy(d, asked, j), o)
    BY <2>1, <2>2, <2>3, ChildAnswered DEF Resumes
  <2>5. j \in T
    BY <2>1, <2>4
  <2>6. k <= j
    BY <1>2, <2>5
  <2> QED BY <1>3, <2>1, <2>6
<1> QED BY <1>4, <1>5

LEMMA Unreturned ==
  ASSUME NEW d, NEW asked, CallsOpen(d, asked)', CallsCurrent(d, asked)', step'.op \notin {"Ok", "Err"}
  PROVE  Walked(d)'
BY DEF Walked, Returned

(* The frames that are untouched and wait as they did. *)
LEMMA OpenKept ==
  ASSUME NEW d, NEW asked, CallsOpen(d, asked),
         \A k \in 1 .. Len(stack') : Waiting(k)' =>
           k \in 1 .. Len(stack) /\ Waiting(k) /\ stack'[k] = stack[k]
  PROVE  CallsOpen(d, asked)'
<1>1. ASSUME NEW k \in 1 .. Len(stack'), Waiting(k)'
      PROVE  Awaits(d, stack', asked, k)
  <2>1. Awaits(d, stack, asked, k) /\ stack'[k] = stack[k]
    BY <1>1 DEF CallsOpen
  <2> QED BY <2>1 DEF Awaits
<1> QED BY <1>1 DEF CallsOpen

LEMMA LoopKept ==
  ASSUME NEW d, NEW asked, CallsOpen(d, asked), UNCHANGED stack,
         step'.op \in {"Open", "Deliver"} \/ BurnedByLeaf' = 1 => step.op \in {"Open", "Deliver"} \/ BurnedByLeaf = 1
  PROVE  CallsOpen(d, asked)'
<1>1. \A k \in 1 .. Len(stack') : Waiting(k)' => k \in 1 .. Len(stack) /\ Waiting(k) /\ stack'[k] = stack[k]
  BY DEF Waiting
<1> QED BY <1>1, OpenKept

-----------------------------------------------------------------------------
(***************************************************************************)
(* Opening an element.                                                     *)
(***************************************************************************)
LEMMA Asking ==
  ASSUME IInv, NEW d, NEW asked, CallsOpen(d, asked),
         step.op \in {"Open", "Deliver"} \/ BurnedByLeaf = 1
  PROVE  Len(stack) \in Nat /\ \A k \in 1 .. Len(stack) : Awaits(d, stack, asked, k)
BY SequenceFacts DEF CallsOpen, Waiting, IInv, Shape

LEMMA EntryFails ==
  ASSUME IInv, NEW d, NEW asked, CallsOpen(d, asked), step.op \in {"Open", "Deliver"} \/ BurnedByLeaf = 1,
         NEW kind, step' = Error(kind), NEW read, read = Len(input'), NEW no, poison' = no,
         Returns(d, EnteredBy(d, asked, Len(stack) + 1), Outcome(Error(kind), read, no))
  PROVE  Walked(d)'
<1> PICK e : e = Error(kind)
  OBVIOUS
<1> PICK o : o = Outcome(e, read, no)
  OBVIOUS
<1>1. e.op = "Err" /\ Failed(o)
  <2>1. e.op = "Err"
    BY DEF Error
  <2> QED BY <2>1, OutcomeFields
<1>2. Returns(d, DocumentCall(0), o)
  BY <1>1, Asking, ErrorPassed
<1>3. step' = e /\ Outcome(step', Len(input'), poison') = o
  OBVIOUS
<1> QED BY <1>1, <1>2, <1>3 DEF Walked, Returned

LEMMA EntryHandsOn ==
  ASSUME IInv, NEW d, NEW asked, CallsOpen(d, asked), step.op \in {"Open", "Deliver"} \/ BurnedByLeaf = 1,
         UNCHANGED stack, NEW v, step'.op = "Deliver", step'.value = v,
         NEW read, read = Len(input'), NEW deferred, poison' = deferred,
         Returns(d, EnteredBy(d, asked, Len(stack) + 1), Outcome(Return(v), read, deferred))
  PROVE  Walked(d)'
<1>1. CallsOpen(d, asked)'
  BY LoopKept
<1>2. Returns(d, EnteredBy(d, asked, Len(stack') + 1), Outcome(Return(step'.value), Len(input'), poison'))
  OBVIOUS
<1>3. CallsCurrent(d, asked)'
  BY <1>2 DEF CallsCurrent
<1> QED BY <1>1, <1>3, Unreturned

LEMMA EntryDelivers ==
  ASSUME IInv, NEW d, NEW asked, CallsOpen(d, asked), step.op \in {"Open", "Deliver"} \/ BurnedByLeaf = 1,
         UNCHANGED stack, NEW v, step' = Deliver(v), NEW read, read = Len(input'), NEW deferred, poison' = deferred,
         Returns(d, EnteredBy(d, asked, Len(stack) + 1), Outcome(Return(v), read, deferred))
  PROVE  Walked(d)'
<1>1. step'.op = "Deliver" /\ step'.value = v
  BY DEF Deliver
<1> QED BY <1>1, EntryHandsOn

(* What is known when an element is opened. *)
LEMMA Opens ==
  ASSUME IInv, Pending, step.op = "Open", NEW d, NEW asked, CallsCurrent(d, asked),
         NEW c, c = ElementCall(Len(input), step.name, step.empty, Len(stack), recognized)
  PROVE  /\ c.kind = "element" /\ c.read = Len(input) /\ c.name = step.name /\ (c.empty <=> step.empty)
         /\ c.level = Len(stack) /\ c.level = depth /\ (c.known <=> recognized)
         /\ Leads(d, EnteredBy(d, asked, Len(stack) + 1), c)
         /\ poison = FALSE /\ depth \in Nat /\ MaxParseDepth \in Nat
<1>1. /\ c.kind = "element" /\ c.read = Len(input) /\ c.name = step.name /\ (c.empty <=> step.empty)
      /\ c.level = Len(stack) /\ (c.known <=> recognized)
  BY CallFields
<1>2. Leads(d, EnteredBy(d, asked, Len(stack) + 1), c)
  BY DEF CallsCurrent
<1>3. poison = FALSE /\ depth \in Nat
  BY DEF Pending, IInv, Shape
<1>4. depth = Len(stack)
  BY <1>3, SequenceFacts DEF IInv, Shape, DepthBalanced, BurnedByLeaf, Returned
<1> QED BY <1>1, <1>2, <1>3, <1>4, XmlAssumption

LEMMA OpenTooDeepRecursion ==
  ASSUME IInv, Pending, OpenTooDeep, NEW d, NEW asked, CallsOpen(d, asked), CallsCurrent(d, asked)
  PROVE  Walked(d)'
<1> PICK c : c = ElementCall(Len(input), step.name, step.empty, Len(stack), recognized)
  OBVIOUS
<1> PICK no : no = FALSE
  OBVIOUS
<1>1. /\ step.op = "Open" /\ depth + 1 > MaxParseDepth /\ step' = Error("MaxDepthExceeded")
      /\ UNCHANGED <<input, poison>>
  BY DEF OpenTooDeep, TooDeep
<1>2. /\ c.kind = "element" /\ c.read = Len(input) /\ c.level = depth /\ poison = no
      /\ Leads(d, EnteredBy(d, asked, Len(stack) + 1), c) /\ depth \in Nat /\ MaxParseDepth \in Nat
  BY <1>1, Opens
<1>3. ~ (depth + 1 <= MaxParseDepth)
  BY <1>1, <1>2
<1>4. ~ Continues(d, c) /\ ~ Asks(d, c)
  BY <1>2, <1>3 DEF Continues, Asks
<1>5. Answer(d, c) = Outcome(Error("MaxDepthExceeded"), Len(input'), no)
  BY <1>1, <1>2 DEF Answer, ElementAnswer
<1>6. Returns(d, c, Outcome(Error("MaxDepthExceeded"), Len(input'), no))
  BY <1>4, <1>5, AnswerRule
<1>7. Returns(d, EnteredBy(d, asked, Len(stack) + 1), Outcome(Error("MaxDepthExceeded"), Len(input'), no))
  BY <1>2, <1>6 DEF Leads
<1> QED BY <1>1, <1>2, <1>7, EntryFails

LEMMA OpenUnknownRecursion ==
  ASSUME IInv, Pending, OpenUnknown, NEW d, NEW asked, CallsOpen(d, asked), CallsCurrent(d, asked)
  PROVE  Walked(d)'
<1> PICK c : c = ElementCall(Len(input), step.name, step.empty, Len(stack), recognized)
  OBVIOUS
<1> PICK no : no = FALSE
  OBVIOUS
<1> PICK kind : kind = IF recognized THEN "Parse" ELSE "InvalidPlist"
  OBVIOUS
<1>1. /\ step.op = "Open" /\ ~ (depth + 1 > MaxParseDepth) /\ step' = Error(kind)
      /\ step.name \notin Containers \cup Leaves \cup Booleans
      /\ UNCHANGED <<input, poison>>
  BY DEF OpenUnknown, TooDeep
<1>2. /\ c.kind = "element" /\ c.read = Len(input) /\ c.level = depth /\ poison = no /\ c.name = step.name
      /\ Leads(d, EnteredBy(d, asked, Len(stack) + 1), c) /\ (c.known <=> recognized)
  BY <1>1, Opens
<1>3. ~ Continues(d, c) /\ ~ Asks(d, c)
  BY <1>1, <1>2 DEF Continues, Asks
<1>4. (IF c.known THEN "Parse" ELSE "InvalidPlist") = kind
  BY <1>2
<1>5. Answer(d, c) = Outcome(Error(kind), Len(input'), no)
  BY <1>1, <1>2, <1>4 DEF Answer, ElementAnswer
<1>6. Returns(d, c, Outcome(Error(kind), Len(input'), no))
  BY <1>3, <1>5, AnswerRule
<1>7. Returns(d, EnteredBy(d, asked, Len(stack) + 1), Outcome(Error(kind), Len(input'), no))
  BY <1>2, <1>6 DEF Leads
<1> QED BY <1>1, <1>2, <1>7, EntryFails

LEMMA OpenEmptyRecursion ==
  ASSUME IInv, Pending, OpenEmpty, NEW d, NEW asked, CallsOpen(d, asked), CallsCurrent(d, asked)
  PROVE  Walked(d)'
<1> PICK c : c = ElementCall(Len(input), step.name, step.empty, Len(stack), recognized)
  OBVIOUS
<1> PICK no : no = FALSE
  OBVIOUS
<1> PICK values : values = EmptyValue(step.name)
  OBVIOUS
<1>1. /\ step.op = "Open" /\ ~ (depth + 1 > MaxParseDepth) /\ step.empty
      /\ step.name \in Containers \cup Leaves \cup Booleans
      /\ step' = IF values = {} THEN Error("Parse") ELSE Deliver(CHOOSE v \in values : TRUE)
      /\ UNCHANGED <<input, stack, poison>>
  BY DEF OpenEmpty, Entered, TooDeep
<1>2. /\ c.kind = "element" /\ c.read = Len(input) /\ c.level = depth /\ poison = no /\ c.name = step.name
      /\ Leads(d, EnteredBy(d, asked, Len(stack) + 1), c) /\ (c.empty <=> step.empty)
  BY <1>1, Opens
<1>3. ~ Continues(d, c) /\ ~ Asks(d, c)
  BY <1>1, <1>2 DEF Continues, Asks
<1>4. Answer(d, c) = Known(values, Len(input'))
  BY <1>1, <1>2 DEF Answer, ElementAnswer
<1>5. Returns(d, EnteredBy(d, asked, Len(stack) + 1), Known(values, Len(input')))
  BY <1>2, <1>3, <1>4, AnswerRule DEF Leads
<1>6. CASE values = {}
  <2>1. Known(values, Len(input')) = Outcome(Error("Parse"), Len(input'), no)
    BY <1>6 DEF Known
  <2> QED BY <1>1, <1>2, <1>5, <1>6, <2>1, EntryFails
<1>7. CASE values # {}
  <2> PICK v : v = CHOOSE w \in values : TRUE
    OBVIOUS
  <2>1. Known(values, Len(input')) = Outcome(Return(v), Len(input'), no)
    BY <1>7 DEF Known
  <2> QED BY <1>1, <1>2, <1>5, <1>7, <2>1, EntryDelivers
<1> QED BY <1>6, <1>7

LEMMA OpenContainerRecursion ==
  ASSUME IInv, Pending, OpenContainer, NEW d, NEW asked, CallsOpen(d, asked), CallsCurrent(d, asked)
  PROVE  Walked(d)'
<1> PICK c : c = ElementCall(Len(input), step.name, step.empty, Len(stack), recognized)
  OBVIOUS
<1> PICK no : no = FALSE
  OBVIOUS
<1> PICK f : f = Frame(step.name)
  OBVIOUS
<1> PICK n \in Nat : n = Len(stack) /\ IsSequence(stack)
  BY SequenceFacts DEF IInv, Shape
<1>1. /\ step.op = "Open" /\ ~ (depth + 1 > MaxParseDepth) /\ ~ step.empty /\ step.name \in Containers
      /\ stack' = Extended(stack, f) /\ step'.op = "Advance"
      /\ UNCHANGED <<input, poison>>
  BY DEF OpenContainer, Entered, TooDeep, Extended, Advance
<1>2. /\ c.kind = "element" /\ c.read = Len(input) /\ c.level = n /\ c.level = depth /\ poison = no
      /\ c.name = step.name /\ (c.empty <=> step.empty)
      /\ Leads(d, EnteredBy(d, asked, n + 1), c) /\ depth \in Nat /\ MaxParseDepth \in Nat
  BY <1>1, Opens
<1>3. Continues(d, c)
  <2>1. c.level + 1 <= MaxParseDepth
    BY <1>1, <1>2
  <2> QED BY <1>1, <1>2, <2>1 DEF Continues
<1>4. f.name = step.name /\ f.collected = << >> /\ f.key = {}
  BY DEF Frame
<1>5. Continuation(d, c) = RestOf(f, n + 1, Len(input'), poison')
  <2>1. Continuation(d, c) = ChildrenCall(c.read, no, c.name, c.level + 1, << >>, {})
    BY <1>2 DEF Continuation
  <2> QED BY <1>1, <1>2, <1>4, <2>1 DEF RestOf
<1>6. Len(stack') = n + 1 /\ stack'[n + 1] = f /\ \A k \in 1 .. n : stack'[k] = stack[k]
  BY <1>1, AppendSequence
<1>7. CallsOpen(d, asked)'
  <2> SUFFICES ASSUME NEW k \in 1 .. n + 1, Waiting(k)'
               PROVE  k \in 1 .. n /\ Waiting(k) /\ stack'[k] = stack[k]
    BY <1>6, OpenKept
  <2>1. BurnedByLeaf' = 0
    BY <1>1 DEF BurnedByLeaf
  <2>2. k < n + 1
    BY <1>1, <1>6, <2>1 DEF Waiting
  <2>3. k \in 1 .. n
    BY <2>2
  <2> QED BY <1>1, <1>6, <2>3 DEF Waiting
<1>8. Leads(d, EnteredBy(d, asked, Len(stack')), RestOf(Top', Len(stack'), Len(input'), poison'))
  <2>1. Top' = f
    BY <1>6 DEF Top
  <2>2. Leads(d, EnteredBy(d, asked, n + 1), RestOf(f, n + 1, Len(input'), poison'))
    BY <1>2, <1>3, <1>5, ContinuationLeads, LeadsOn
  <2> QED BY <1>6, <2>1, <2>2
<1>9. CallsCurrent(d, asked)'
  BY <1>1, <1>8 DEF CallsCurrent
<1> QED BY <1>1, <1>7, <1>9, Unreturned

LEMMA OpenLeafRecursion ==
  ASSUME IInv, Pending, OpenLeaf, NEW d, NEW asked, CallsOpen(d, asked), CallsCurrent(d, asked)
  PROVE  Walked(d)'
<1> PICK c : c = ElementCall(Len(input), step.name, step.empty, Len(stack), recognized)
  OBVIOUS
<1> PICK name : name = step.name
  OBVIOUS
<1>1. /\ step.op = "Open" /\ ~ (depth + 1 > MaxParseDepth) /\ ~ step.empty /\ name \in Leaves
      /\ step' = Body(name, << >>) /\ UNCHANGED <<input, stack>>
  BY DEF OpenLeaf, Entered, TooDeep
<1>2. /\ c.kind = "element" /\ c.read = Len(input) /\ c.level = depth
      /\ c.name = name /\ (c.empty <=> step.empty)
      /\ Leads(d, EnteredBy(d, asked, Len(stack) + 1), c) /\ depth \in Nat /\ MaxParseDepth \in Nat
  BY <1>1, Opens
<1>3. Asks(d, c)
  <2>1. c.level + 1 <= MaxParseDepth
    BY <1>1, <1>2
  <2> QED BY <1>1, <1>2, <2>1 DEF Asks
<1>4. ChildCall(d, c) = BodyCall(Len(input), 0, << >>)
  BY <1>2 DEF ChildCall
<1>5. ~ Continues(d, c)
  BY <1>3, AskingWaits
<1>6. LeafOf(d, EnteredBy(d, asked, Len(stack) + 1), name, BodyCall(Len(input), 0, << >>))
  <2> SUFFICES ASSUME NEW p, Returns(d, BodyCall(Len(input), 0, << >>), p)
               PROVE  Returns(d, EnteredBy(d, asked, Len(stack) + 1),
                              IF Failed(p) THEN p ELSE Known(Decoded(name, p.out.value), p.read))
    BY DEF LeafOf
  <2>1. ~ Resumes(c, p)
    BY <1>2 DEF Resumes
  <2>2. Returns(d, c, Settled(c, p))
    BY <1>3, <1>4, <1>5, <2>1, AskRule
  <2>3. c.name \notin Booleans
    BY <1>1, <1>2 DEF Leaves, Booleans
  <2>4. Settled(c, p) = IF Failed(p) THEN p ELSE Known(Decoded(name, p.out.value), p.read)
    BY <1>2, <2>3 DEF Settled
  <2> QED BY <1>2, <2>2, <2>4 DEF Leads
<1>7. step'.op = "Body" /\ step'.name = name /\ step'.text = << >> /\ name # "key"
  BY <1>1, StepFields, NotKey
<1>8. CallsOpen(d, asked)'
  BY <1>1, LoopKept
<1>9. BodyOf(d, asked, stack', step'.name, BodyCall(Len(input'), 0, step'.text))
  BY <1>1, <1>6, <1>7 DEF BodyOf
<1>10. CallsCurrent(d, asked)'
  BY <1>7, <1>9 DEF CallsCurrent
<1> QED BY <1>7, <1>8, <1>10, Unreturned

LEMMA OpenBooleanRecursion ==
  ASSUME IInv, Pending, OpenBoolean, NEW d, NEW asked, CallsOpen(d, asked), CallsCurrent(d, asked)
  PROVE  Walked(d)'
<1> PICK c : c = ElementCall(Len(input), step.name, step.empty, Len(stack), recognized)
  OBVIOUS
<1> PICK v : v = Boolean(step.name = "true")
  OBVIOUS
<1> PICK e : e = EnteredBy(d, asked, Len(stack) + 1)
  OBVIOUS
<1>1. /\ step.op = "Open" /\ ~ (depth + 1 > MaxParseDepth) /\ ~ step.empty /\ step.name \in Booleans
      /\ step' = Skip(1, Deliver(v)) /\ UNCHANGED <<input, stack>>
  BY DEF OpenBoolean, Entered, TooDeep
<1>2. /\ c.kind = "element" /\ c.read = Len(input) /\ c.level = depth
      /\ c.name = step.name /\ (c.empty <=> step.empty)
      /\ Leads(d, e, c) /\ depth \in Nat /\ MaxParseDepth \in Nat
  BY <1>1, Opens
<1>3. Asks(d, c)
  <2>1. c.level + 1 <= MaxParseDepth
    BY <1>1, <1>2
  <2> QED BY <1>1, <1>2, <2>1 DEF Asks
<1>4. ChildCall(d, c) = BodyCall(Len(input), 0, << >>)
  BY <1>2 DEF ChildCall
<1>5. ~ Continues(d, c)
  BY <1>3, AskingWaits
<1>6. BooleanOf(d, e, v, BodyCall(Len(input), 0, << >>))
  <2> SUFFICES ASSUME NEW p, Returns(d, BodyCall(Len(input), 0, << >>), p)
               PROVE  Returns(d, e, Outcome(Return(v), p.read, Failed(p)))
    BY DEF BooleanOf
  <2>1. ~ Resumes(c, p)
    BY <1>2 DEF Resumes
  <2>2. Returns(d, c, Settled(c, p))
    BY <1>3, <1>4, <1>5, <2>1, AskRule
  <2>3. Settled(c, p) = Outcome(Return(v), p.read, Failed(p))
    BY <1>1, <1>2 DEF Settled
  <2> QED BY <1>2, <2>2, <2>3 DEF Leads
<1>7. step'.op = "Skip" /\ step'.balance = 1 /\ step'.then = Deliver(v)
  BY <1>1, StepFields
<1>8. step'.then.op = "Deliver" /\ step'.then.value = v
  <2>1. Deliver(v).op = "Deliver" /\ Deliver(v).value = v
    BY StepFields
  <2> QED BY <1>7, <2>1
<1>9. SkipsBoolean'
  BY <1>7, <1>8 DEF SkipsBoolean
<1>10. CallsOpen(d, asked)'
  BY <1>1, LoopKept
<1>11. BooleanOf(d, EnteredBy(d, asked, Len(stack') + 1), step'.then.value,
                 BodyCall(Len(input'), step'.balance - 1, << >>))
  BY <1>1, <1>6, <1>7, <1>8
<1>12. CallsCurrent(d, asked)'
  BY <1>7, <1>9, <1>11 DEF CallsCurrent
<1> QED BY <1>7, <1>10, <1>12, Unreturned

-----------------------------------------------------------------------------
(***************************************************************************)
(* Between elements: before the first, and between the children of a       *)
(* container, where c is the call for what is left of it.                  *)
(***************************************************************************)
LEMMA ReadDocumentRecursion ==
  ASSUME IInv, NEW t, ReadDocument(t), NEW d, Begins(d)', NEW asked, CallsCurrent(d, asked)
  PROVE  Walked(d)'
<1> PICK c : c = DocumentCall(Len(input))
  OBVIOUS
<1>1. /\ step.op = "Document" /\ Pull(t) /\ step' = (IF IsElement(t) THEN Open(t) ELSE step) /\ UNCHANGED stack
  BY DEF ReadDocument
<1>2. recognized' = FALSE /\ Len(stack) = 0
  <2>1. ~ recognized /\ stack = << >> /\ recognized \in BOOLEAN
    BY <1>1 DEF IInv, StepShape, Shape
  <2>2. recognized' = recognized
    BY <1>1, PullFacts
  <2> QED BY <2>1, <2>2, EmptySequence
<1>3. t \notin {Eof, Bad} /\ input' = Append(input, t)
  BY <1>1 DEF Pull, Readable
<1>4. c.kind = "document" /\ c.read = Len(input) /\ ~ c.deferred
  BY CallFields
<1>5. Following(d, c) = t /\ Len(input') = Len(input) + 1
  BY <1>3, <1>4, ReadThere
<1>6. Continues(d, c) /\ Continuation(d, c) = PastToken(c, t)
  BY <1>3, <1>4, <1>5 DEF Continues, Continuation
<1>7. Leads(d, DocumentCall(0), PastToken(c, t))
  <2>1. Leads(d, DocumentCall(0), c)
    BY <1>1 DEF CallsCurrent
  <2> QED BY <1>6, <2>1, ContinuationLeads, LeadsOn
<1>8. CallsOpen(d, asked)'
  BY <1>1, <1>2 DEF CallsOpen
<1>9. CASE IsElement(t)
  <2>1. PastToken(c, t) = ElementCall(Len(input'), t.name, t.kind = "Empty", 0, recognized')
    BY <1>2, <1>4, <1>5, <1>9 DEF PastToken
  <2>2. step'.op = "Open" /\ step'.name = t.name /\ step'.empty = (t.kind = "Empty")
    BY <1>1, <1>9 DEF Open
  <2>3. EnteredBy(d, asked, Len(stack') + 1) = DocumentCall(0)
    BY <1>1, <1>2 DEF EnteredBy
  <2>4. Leads(d, EnteredBy(d, asked, Len(stack') + 1),
              ElementCall(Len(input'), step'.name, step'.empty, Len(stack'), recognized'))
    BY <1>1, <1>2, <1>7, <2>1, <2>2, <2>3
  <2>5. CallsCurrent(d, asked)'
    BY <2>2, <2>4 DEF CallsCurrent
  <2> QED BY <1>8, <2>2, <2>5, Unreturned
<1>10. CASE ~ IsElement(t)
  <2>1. PastToken(c, t) = DocumentCall(Len(input'))
    BY <1>4, <1>5, <1>10 DEF PastToken
  <2>2. step'.op = "Document"
    BY <1>1, <1>10
  <2>3. CallsCurrent(d, asked)'
    BY <1>7, <2>1, <2>2 DEF CallsCurrent
  <2> QED BY <1>8, <2>2, <2>3, Unreturned
<1> QED BY <1>9, <1>10

LEMMA DocumentFailsRecursion ==
  ASSUME IInv, NEW t, NextFails(t), step.op = "Document", NEW d, Begins(d)', NEW asked, CallsCurrent(d, asked)
  PROVE  Walked(d)'
<1> PICK c : c = DocumentCall(Len(input))
  OBVIOUS
<1> PICK e : e = Error("InvalidPlist")
  OBVIOUS
<1> PICK no : no = FALSE
  OBVIOUS
<1>1. t \in {Eof, Bad} /\ input' = Append(input, t) /\ Raise
  BY DEF NextFails
<1>2. poison' = no /\ step' = e
  BY <1>1 DEF Raise, SkipsBoolean
<1>3. c.kind = "document" /\ c.read = Len(input) /\ ~ c.deferred
  BY CallFields
<1>4. Following(d, c) = t /\ After(d, c) = Len(input')
  BY <1>1, <1>3, ReadThere
<1>5. ~ Continues(d, c) /\ ~ Asks(d, c)
  BY <1>1, <1>3, <1>4 DEF Continues, Asks
<1>6. Answer(d, c) = Outcome(e, Len(input'), no)
  <2>1. t # End
    BY <1>1, KindsDiffer
  <2> QED BY <1>3, <1>4, <2>1 DEF Answer
<1>7. Returns(d, c, Outcome(e, Len(input'), no))
  BY <1>5, <1>6, AnswerRule
<1>8. Returns(d, DocumentCall(0), Outcome(e, Len(input'), no))
  BY <1>7 DEF CallsCurrent, Leads
<1>9. step'.op = "Err" /\ Outcome(step', Len(input'), poison') = Outcome(e, Len(input'), no)
  BY <1>2 DEF Error
<1> QED BY <1>8, <1>9 DEF Walked, Returned

LEMMA Inside ==
  ASSUME IInv, stack # << >>, NEW d, NEW asked, CallsOpen(d, asked)
  PROVE  \E m \in Nat : m + 1 = Len(stack) /\ \A k \in 1 .. m : Awaits(d, stack, asked, k)
<1> PICK n \in Nat \ {0} : n = Len(stack)
  BY SequenceFacts DEF IInv, Shape
<1>1. n - 1 \in Nat /\ (n - 1) + 1 = n
  OBVIOUS
<1> PICK m \in Nat : m + 1 = n
  BY <1>1
<1>2. \A k \in 1 .. m : k \in 1 .. n /\ k < n
  OBVIOUS
<1> QED BY <1>2 DEF CallsOpen, Waiting

LEMMA InsideFails ==
  ASSUME IInv, stack # << >>, NEW d, NEW asked, CallsOpen(d, asked), step' = Error("Parse"),
         NEW read, read = Len(input'), NEW no, poison' = no,
         Returns(d, EnteredBy(d, asked, Len(stack)), Outcome(Error("Parse"), read, no))
  PROVE  Walked(d)'
<1> PICK e : e = Error("Parse")
  OBVIOUS
<1> PICK o : o = Outcome(e, read, no)
  OBVIOUS
<1>1. e.op = "Err" /\ Failed(o)
  <2>1. e.op = "Err"
    BY DEF Error
  <2> QED BY <2>1, OutcomeFields
<1>2. PICK m \in Nat : m + 1 = Len(stack) /\ \A k \in 1 .. m : Awaits(d, stack, asked, k)
  BY Inside
<1>3. Returns(d, EnteredBy(d, asked, m + 1), o)
  BY <1>2
<1>4. Returns(d, DocumentCall(0), o)
  BY <1>1, <1>2, <1>3, ErrorPassed
<1>5. step' = e /\ Outcome(step', Len(input'), poison') = o
  OBVIOUS
<1> QED BY <1>1, <1>4, <1>5 DEF Walked, Returned

LEMMA InsideGoesOn ==
  ASSUME IInv, stack # << >>, NEW d, NEW asked, CallsOpen(d, asked), step'.op = "Advance",
         NEW f, stack' = Replaced(stack, f) \/ (stack' = stack /\ f = Top),
         Leads(d, EnteredBy(d, asked, Len(stack)), RestOf(f, Len(stack), Len(input'), poison'))
  PROVE  Walked(d)'
<1>1. PICK n \in Nat \ {0} : n = Len(stack) /\ IsSequence(stack)
  BY SequenceFacts DEF IInv, Shape
<1>2. /\ Len(stack') = n /\ stack'[n] = f
      /\ \A k \in 1 .. n : k # n => stack'[k] = stack[k]
  <2>1. CASE stack' = Replaced(stack, f)
    BY <1>1, <2>1, ReplaceLast
  <2>2. CASE stack' = stack /\ f = Top
    BY <1>1, <2>2 DEF Top
  <2> QED BY <2>1, <2>2
<1>3. \A k \in 1 .. Len(stack') : Waiting(k)' =>
        k \in 1 .. Len(stack) /\ Waiting(k) /\ stack'[k] = stack[k]
  <2>1. \A k : k < n => k # n
    BY <1>1
  <2>2. BurnedByLeaf' = 0
    BY DEF BurnedByLeaf
  <2> QED BY <1>1, <1>2, <2>1, <2>2 DEF Waiting
<1>4. CallsOpen(d, asked)'
  BY <1>3, OpenKept
<1>5. Top' = f
  BY <1>2 DEF Top
<1>6. Leads(d, EnteredBy(d, asked, Len(stack')), RestOf(Top', Len(stack'), Len(input'), poison'))
  BY <1>1, <1>2, <1>5
<1>7. CallsCurrent(d, asked)'
  BY <1>6 DEF CallsCurrent
<1> QED BY <1>4, <1>7, Unreturned

(* The state in a container, from what its calls say of it. *)
LEMMA InContainer ==
  ASSUME IInv, step.op = "Advance", NEW d, NEW asked, CallsCurrent(d, asked),
         NEW c, c = RestOf(Top, Len(stack), Len(input), poison)
  PROVE  /\ stack # << >> /\ Leads(d, EnteredBy(d, asked, Len(stack)), c)
         /\ c.kind = "children" /\ c.read = Len(input) /\ c.deferred = poison /\ c.name = Top.name
         /\ c.level = Len(stack) /\ c.children = Top.collected /\ c.key = Top.key
<1>1. stack # << >>
  BY DEF IInv, StepShape
<1>2. Leads(d, EnteredBy(d, asked, Len(stack)), c)
  BY DEF CallsCurrent
<1> QED BY <1>1, <1>2, CallFields DEF RestOf

LEMMA InContainerReads ==
  ASSUME IInv, step.op = "Advance", NEW d, Begins(d)', NEW asked, CallsCurrent(d, asked),
         NEW t, Pull(t), NEW c, c = RestOf(Top, Len(stack), Len(input), poison)
  PROVE  /\ stack # << >> /\ Leads(d, EnteredBy(d, asked, Len(stack)), c)
         /\ c.kind = "children" /\ c.read = Len(input) /\ c.name = Top.name
         /\ c.level = Len(stack) /\ c.children = Top.collected /\ c.key = Top.key
         /\ Following(d, c) = t /\ After(d, c) = Len(input') /\ Len(input') = Len(input) + 1
         /\ poison' = FALSE /\ recognized' = TRUE /\ t \notin {Eof, Bad}
<1>1. /\ stack # << >> /\ Leads(d, EnteredBy(d, asked, Len(stack)), c)
      /\ c.kind = "children" /\ c.read = Len(input) /\ c.deferred = poison /\ c.name = Top.name
      /\ c.level = Len(stack) /\ c.children = Top.collected /\ c.key = Top.key
  BY InContainer
<1>2. input' = Append(input, t) /\ ~ poison /\ poison' = poison /\ recognized' = recognized
  BY PullFacts
<1>3. poison' = FALSE /\ recognized' = TRUE
  <2>1. poison \in BOOLEAN /\ recognized \in BOOLEAN /\ recognized
    BY DEF IInv, Shape, StepShape
  <2> QED BY <1>2, <2>1
<1>4. Following(d, c) = t /\ After(d, c) = Len(input') /\ Len(input') = Len(input) + 1
  BY <1>1, <1>2, ReadThere
<1>5. t \notin {Eof, Bad}
  BY DEF Pull, Readable
<1> QED BY <1>1, <1>3, <1>4, <1>5

LEMMA IgnoreRecursion ==
  ASSUME IInv, NEW t, Ignore(t), NEW d, Begins(d)', NEW asked, CallsOpen(d, asked), CallsCurrent(d, asked)
  PROVE  Walked(d)'
<1> PICK c : c = RestOf(Top, Len(stack), Len(input), poison)
  OBVIOUS
<1> PICK no : no = FALSE
  OBVIOUS
<1>1. step.op = "Advance" /\ Passed(t) /\ Pull(t) /\ UNCHANGED <<stack, step>>
  BY DEF Ignore
<1>2. /\ stack # << >> /\ Leads(d, EnteredBy(d, asked, Len(stack)), c)
      /\ c.kind = "children" /\ c.read = Len(input) /\ c.name = Top.name
      /\ c.level = Len(stack) /\ c.children = Top.collected /\ c.key = Top.key
      /\ Following(d, c) = t /\ Len(input') = Len(input) + 1 /\ poison' = no
  BY <1>1, InContainerReads
<1>3. Continues(d, c)
  BY <1>1, <1>2 DEF Continues
<1>4. Continuation(d, c) = RestOf(Top, Len(stack), Len(input'), poison')
  <2>1. Continuation(d, c) = ChildrenCall(c.read + 1, no, c.name, c.level, c.children, c.key)
    BY <1>1, <1>2 DEF Continuation, PastToken
  <2> QED BY <1>2, <2>1 DEF RestOf
<1>5. Leads(d, EnteredBy(d, asked, Len(stack)), RestOf(Top, Len(stack), Len(input'), poison'))
  BY <1>2, <1>3, <1>4, ContinuationLeads, LeadsOn
<1> QED BY <1>1, <1>2, <1>5, InsideGoesOn

(* A container that asks for a child. *)
LEMMA ChildRecursion ==
  ASSUME IInv, step.op = "Advance", NEW t, IsElement(t), Pull(t), Top.name = "dict" => t.name # "key" /\ Top.key # {},
         step' = Open(t), UNCHANGED stack,
         NEW d, Begins(d)', NEW asked, CallsOpen(d, asked), CallsCurrent(d, asked)
  PROVE  Walked(d)'
<1> PICK c : c = RestOf(Top, Len(stack), Len(input), poison)
  OBVIOUS
<1> PICK n \in Nat \ {0} : n = Len(stack)
  BY InContainer, SequenceFacts DEF IInv, Shape
<1>1. /\ Leads(d, EnteredBy(d, asked, n), c)
      /\ c.kind = "children" /\ c.read = Len(input) /\ c.name = Top.name
      /\ c.level = n /\ c.children = Top.collected /\ c.key = Top.key
      /\ Following(d, c) = t /\ Len(input') = Len(input) + 1 /\ recognized' = TRUE
  BY InContainerReads
<1>2. OpensChild(c, t) /\ ~ OpensKey(c, t)
  BY <1>1 DEF OpensChild, OpensKey
<1> PICK other : other = [k \in 1 .. n |-> IF k < n THEN asked[k] ELSE c]
  OBVIOUS
<1>3. other[n] = c /\ \A k \in 1 .. n - 1 : other[k] = asked[k]
  OBVIOUS
<1>4. \A k \in 1 .. n : EnteredBy(d, other, k) = EnteredBy(d, asked, k)
  <2> SUFFICES ASSUME NEW k \in 1 .. n
               PROVE  EnteredBy(d, other, k) = EnteredBy(d, asked, k)
    OBVIOUS
  <2>1. k # 1 => other[k - 1] = asked[k - 1]
    <3>1. k # 1 => k - 1 \in 1 .. n - 1
      OBVIOUS
    <3> QED BY <1>3, <3>1
  <2> QED BY <2>1 DEF EnteredBy
<1>5. ASSUME NEW k \in 1 .. n PROVE Awaits(d, stack', other, k)
  <2>1. CASE k = n
    <3>1. stack'[k] = Top
      BY <2>1 DEF Top
    <3> QED BY <1>1, <1>2, <1>3, <1>4, <2>1, <3>1 DEF Awaits
  <2>2. CASE k # n
    <3>1. k < n /\ k \in 1 .. n - 1 /\ stack'[k] = stack[k]
      BY <2>2
    <3>2. Awaits(d, stack, asked, k)
      BY <3>1 DEF CallsOpen, Waiting
    <3>3. other[k] = asked[k]
      BY <1>3, <3>1
    <3> QED BY <1>4, <3>1, <3>2, <3>3 DEF Awaits
  <2> QED BY <2>1, <2>2
<1>6. CallsOpen(d, other)'
  BY <1>5 DEF CallsOpen
<1>7. step'.op = "Open" /\ step'.name = t.name /\ step'.empty = (t.kind = "Empty")
  BY DEF Open
<1>8. EnteredBy(d, other, Len(stack') + 1) =
        ElementCall(Len(input'), step'.name, step'.empty, Len(stack'), recognized')
  <2>1. EnteredBy(d, other, n + 1) = ChildCall(d, c)
    <3>1. n + 1 # 1 /\ (n + 1) - 1 = n
      OBVIOUS
    <3> QED BY <1>3, <3>1 DEF EnteredBy
  <2>2. ChildCall(d, c) = ElementCall(Len(input'), t.name, t.kind = "Empty", n, recognized')
    BY <1>1, <1>2 DEF ChildCall
  <2> QED BY <1>7, <2>1, <2>2
<1>9. CallsCurrent(d, other)'
  BY <1>7, <1>8 DEF CallsCurrent, Leads
<1> QED BY <1>6, <1>7, <1>9, Unreturned

LEMMA ContainerRefuses ==
  ASSUME IInv, step.op = "Advance", NEW t, Pull(t), step' = Error("Parse"),
         \/ Top.name = "dict" /\ IsElement(t) /\ t.name # "key" /\ Top.key = {}
         \/ t = End /\ (Top.name = "plist" \/ Top.key # {}),
         NEW d, Begins(d)', NEW asked, CallsOpen(d, asked), CallsCurrent(d, asked)
  PROVE  Walked(d)'
<1> PICK c : c = RestOf(Top, Len(stack), Len(input), poison)
  OBVIOUS
<1> PICK no : no = FALSE
  OBVIOUS
<1>1. /\ stack # << >> /\ Leads(d, EnteredBy(d, asked, Len(stack)), c)
      /\ c.kind = "children" /\ c.name = Top.name /\ c.key = Top.key
      /\ Following(d, c) = t /\ After(d, c) = Len(input') /\ poison' = no
  BY InContainerReads
<1>2. ~ Continues(d, c) /\ ~ Asks(d, c) /\ ~ (t = End /\ Complete(c))
  <2>1. CASE Top.name = "dict" /\ IsElement(t) /\ t.name # "key" /\ Top.key = {}
    <3>1. t # End /\ ~ Passed(t)
      BY <2>1, KindsDiffer
    <3> QED BY <1>1, <2>1, <3>1 DEF Continues, Asks, OpensKey, OpensChild
  <2>2. CASE t = End /\ (Top.name = "plist" \/ Top.key # {})
    <3>1. ~ IsElement(t) /\ ~ Passed(t)
      BY <2>2, KindsDiffer
    <3> QED BY <1>1, <2>2, <3>1 DEF Continues, Asks, OpensKey, OpensChild, Complete
  <2> QED BY <2>1, <2>2
<1>3. Answer(d, c) = Outcome(Error("Parse"), Len(input'), no)
  BY <1>1, <1>2 DEF Answer
<1>4. Returns(d, EnteredBy(d, asked, Len(stack)), Outcome(Error("Parse"), Len(input'), no))
  BY <1>1, <1>2, <1>3, AnswerRule DEF Leads
<1> QED BY <1>1, <1>4, InsideFails

LEMMA ReadKeyRecursion ==
  ASSUME IInv, NEW t, ReadKey(t), NEW d, Begins(d)', NEW asked, CallsOpen(d, asked), CallsCurrent(d, asked)
  PROVE  Walked(d)'
<1> PICK c : c = RestOf(Top, Len(stack), Len(input), poison)
  OBVIOUS
<1> PICK no : no = FALSE
  OBVIOUS
<1> PICK empty : empty = << >>
  OBVIOUS
<1>1. step.op = "Advance" /\ Top.name = "dict" /\ IsElement(t) /\ t.name = "key" /\ Pull(t)
  BY DEF ReadKey
<1>2. /\ stack # << >> /\ Leads(d, EnteredBy(d, asked, Len(stack)), c)
      /\ c.kind = "children" /\ c.read = Len(input) /\ c.name = "dict"
      /\ c.level = Len(stack) /\ c.children = Top.collected /\ c.key = Top.key
      /\ Following(d, c) = t /\ Len(input') = Len(input) + 1 /\ poison' = no
  BY <1>1, InContainerReads
<1>3. OpensKey(c, t) /\ ~ OpensChild(c, t) /\ ~ Passed(t)
  BY <1>1, <1>2, KindsDiffer DEF OpensKey, OpensChild
<1>4. CASE t.kind = "Empty"
  <2> PICK f : f = [Top EXCEPT !.key = {empty}]
    OBVIOUS
  <2>1. stack' = Replaced(stack, f) /\ step'.op = "Advance"
    BY <1>1, <1>4 DEF ReadKey, WithTop, Replaced
  <2>2. f.name = Top.name /\ f.collected = Top.collected /\ f.key = {empty}
    <3>1. IsFrame(Top)
      BY <1>2, TopIsFrame
    <3> QED BY <3>1 DEF IsFrame
  <2>3. Continues(d, c)
    BY <1>2, <1>3, <1>4 DEF Continues
  <2>4. Continuation(d, c) = RestOf(f, Len(stack), Len(input'), poison')
    <3>1. Continuation(d, c) = ChildrenCall(c.read + 1, no, c.name, c.level, c.children, {empty})
      BY <1>2, <1>3 DEF Continuation, PastToken
    <3> QED BY <1>1, <1>2, <2>2, <3>1 DEF RestOf
  <2>5. Leads(d, EnteredBy(d, asked, Len(stack)), RestOf(f, Len(stack), Len(input'), poison'))
    BY <1>2, <2>3, <2>4, ContinuationLeads, LeadsOn
  <2> QED BY <1>2, <2>1, <2>5, InsideGoesOn
<1>5. CASE t.kind # "Empty"
  <2>1. UNCHANGED stack /\ step' = Body("key", empty)
    BY <1>5 DEF ReadKey
  <2>2. t.kind = "Start"
    BY <1>1, <1>5 DEF IsElement
  <2>3. Asks(d, c)
    BY <1>2, <1>3, <2>2 DEF Asks
  <2>4. ~ Continues(d, c)
    BY <2>3, AskingWaits
  <2>5. ChildCall(d, c) = BodyCall(Len(input'), 0, empty)
    BY <1>2, <1>3 DEF ChildCall
  <2>6. KeyOf(d, EnteredBy(d, asked, Len(stack)), Len(stack), Top.collected, BodyCall(Len(input'), 0, empty))
    <3> SUFFICES ASSUME NEW p, Returns(d, BodyCall(Len(input'), 0, empty), p)
                 PROVE  IF Failed(p) THEN Returns(d, EnteredBy(d, asked, Len(stack)), p)
                        ELSE Leads(d, EnteredBy(d, asked, Len(stack)),
                               ChildrenCall(p.read, p.deferred, "dict", Len(stack), Top.collected, {p.out.value}))
      BY DEF KeyOf
    <3>1. /\ ~ Resumes(c, p) => Returns(d, c, Settled(c, p))
          /\ Resumes(c, p) => \A o : Returns(d, RestCall(d, c, p), o) => Returns(d, c, o)
      BY <2>3, <2>4, <2>5, AskRule
    <3>2. Resumes(c, p) <=> ~ Failed(p)
      BY <1>2 DEF Resumes
    <3>3. Settled(c, p) = p
      BY <1>2 DEF Settled
    <3>4. RestCall(d, c, p) =
            ChildrenCall(p.read, p.deferred, "dict", Len(stack), Top.collected, {p.out.value})
      BY <1>2, <1>3 DEF RestCall
    <3> QED BY <1>2, <3>1, <3>2, <3>3, <3>4 DEF Leads
  <2>7. step'.op = "Body" /\ step'.name = "key" /\ step'.text = empty
    BY <2>1, StepFields
  <2>8. CallsOpen(d, asked)'
    <3>1. BurnedByLeaf' = 0
      BY <2>7 DEF BurnedByLeaf
    <3> QED BY <2>1, <2>7, <3>1, LoopKept
  <2>9. BodyOf(d, asked, stack', step'.name, BodyCall(Len(input'), 0, step'.text))
    BY <2>1, <2>6, <2>7 DEF BodyOf, Top
  <2>10. CallsCurrent(d, asked)'
    BY <2>7, <2>9 DEF CallsCurrent
  <2> QED BY <2>7, <2>8, <2>10, Unreturned
<1> QED BY <1>4, <1>5

LEMMA CloseContainerRecursion ==
  ASSUME IInv, NEW t, CloseContainer(t), NEW d, Begins(d)', NEW asked, CallsOpen(d, asked), CallsCurrent(d, asked)
  PROVE  Walked(d)'
<1> PICK c : c = RestOf(Top, Len(stack), Len(input), poison)
  OBVIOUS
<1> PICK no : no = FALSE
  OBVIOUS
<1> PICK v : v = Finished(Top)
  OBVIOUS
<1>1. step.op = "Advance" /\ t = End /\ Pull(t)
  BY DEF CloseContainer
<1>2. CASE Top.name = "plist" \/ Top.key # {}
  <2>1. step' = Error("Parse")
    BY <1>2 DEF CloseContainer
  <2> QED BY <1>1, <1>2, <2>1, ContainerRefuses
<1>3. CASE ~ (Top.name = "plist" \/ Top.key # {})
  <2>1. step' = Deliver(v) /\ stack' = Popped(stack)
    BY <1>3 DEF CloseContainer, Pop, Popped
  <2>2. /\ stack # << >> /\ Leads(d, EnteredBy(d, asked, Len(stack)), c)
        /\ c.kind = "children" /\ c.name = Top.name /\ c.children = Top.collected /\ c.key = Top.key
        /\ Following(d, c) = t /\ After(d, c) = Len(input') /\ poison' = no
    BY <1>1, InContainerReads
  <2>3. ~ IsElement(t) /\ ~ Passed(t)
    BY <1>1, KindsDiffer
  <2>4. ~ Continues(d, c) /\ ~ Asks(d, c)
    BY <2>2, <2>3 DEF Continues, Asks, OpensKey, OpensChild
  <2>5. Complete(c) /\ Content(c) = v
    BY <1>3, <2>2 DEF Complete, Content, Finished
  <2>6. Answer(d, c) = Outcome(Return(v), Len(input'), no)
    BY <1>1, <2>2, <2>5 DEF Answer
  <2>7. Returns(d, EnteredBy(d, asked, Len(stack)), Outcome(Return(v), Len(input'), no))
    BY <2>2, <2>4, <2>6, AnswerRule DEF Leads
  <2>8. PICK n \in Nat \ {0} : n = Len(stack) /\ IsSequence(stack)
    BY <2>2, SequenceFacts DEF IInv, Shape
  <2>9. Len(stack') = n - 1 /\ \A k \in 1 .. n - 1 : stack'[k] = stack[k]
    BY <2>1, <2>2, <2>8, PopSequence
  <2>10. CallsOpen(d, asked)'
    <3>1. \A k \in 1 .. n - 1 : k \in 1 .. n /\ k < n
      BY <2>8
    <3>2. \A k \in 1 .. Len(stack') : Waiting(k)' =>
            k \in 1 .. Len(stack) /\ Waiting(k) /\ stack'[k] = stack[k]
      BY <2>8, <2>9, <3>1 DEF Waiting
    <3> QED BY <3>2, OpenKept
  <2>11. step'.op = "Deliver" /\ step'.value = v
    BY <2>1, StepFields
  <2>12. Len(stack') + 1 = Len(stack)
    BY <2>8, <2>9
  <2>13. Returns(d, EnteredBy(d, asked, Len(stack') + 1), Outcome(Return(step'.value), Len(input'), poison'))
    BY <2>2, <2>7, <2>11, <2>12
  <2>14. CallsCurrent(d, asked)'
    BY <2>11, <2>13 DEF CallsCurrent
  <2> QED BY <2>10, <2>11, <2>14, Unreturned
<1> QED BY <1>2, <1>3

(* A failed read between children: the end, an error, or the failure that  *)
(* was deferred. *)
LEMMA AdvanceFailsRecursion ==
  ASSUME IInv, step.op = "Advance", Raise,
         \/ UNCHANGED input /\ poison
         \/ \E t \in {Eof, Bad} : input' = Append(input, t) /\ ~ poison,
         NEW d, Begins(d)', NEW asked, CallsOpen(d, asked), CallsCurrent(d, asked)
  PROVE  Walked(d)'
<1> PICK c : c = RestOf(Top, Len(stack), Len(input), poison)
  OBVIOUS
<1> PICK no : no = FALSE
  OBVIOUS
<1>1. poison' = no /\ step' = Error("Parse")
  BY DEF Raise, SkipsBoolean
<1>2. /\ stack # << >> /\ Leads(d, EnteredBy(d, asked, Len(stack)), c)
      /\ c.kind = "children" /\ c.read = Len(input) /\ c.deferred = poison
  BY InContainer
<1>3. Following(d, c) \in {Eof, Bad} /\ After(d, c) = Len(input')
  <2>1. CASE UNCHANGED input /\ poison
    BY <1>2, <2>1 DEF Following, After, Exhausted
  <2>2. CASE \E t \in {Eof, Bad} : input' = Append(input, t) /\ ~ poison
    BY <1>2, <2>2, ReadThere
  <2> QED BY <2>1, <2>2
<1>4. Following(d, c) # End /\ ~ IsElement(Following(d, c)) /\ ~ Passed(Following(d, c))
  BY <1>3, KindsDiffer
<1>5. ~ Continues(d, c) /\ ~ Asks(d, c)
  BY <1>2, <1>4 DEF Continues, Asks, OpensKey, OpensChild
<1>6. Answer(d, c) = Outcome(Error("Parse"), Len(input'), no)
  BY <1>2, <1>3, <1>4 DEF Answer
<1>7. Returns(d, EnteredBy(d, asked, Len(stack)), Outcome(Error("Parse"), Len(input'), no))
  BY <1>2, <1>5, <1>6, AnswerRule DEF Leads
<1> QED BY <1>1, <1>2, <1>7, InsideFails

-----------------------------------------------------------------------------
(***************************************************************************)
(* In a body, and in what a body skips.                                    *)
(***************************************************************************)
LEMMA BodyOn ==
  ASSUME NEW d, NEW asked, NEW s, NEW name, NEW a, BodyOf(d, asked, s, name, a), NEW b, Leads(d, a, b)
  PROVE  BodyOf(d, asked, s, name, b)
BY DEF BodyOf, KeyOf, LeafOf, Leads

LEMMA BooleanOn ==
  ASSUME NEW d, NEW e, NEW v, NEW a, BooleanOf(d, e, v, a), NEW b, Leads(d, a, b)
  PROVE  BooleanOf(d, e, v, b)
BY DEF BooleanOf, Leads

(* The next token of a body. *)
LEMMA BodyReads ==
  ASSUME IInv, NEW t, input' = Append(input, t), NEW d, Begins(d)', NEW level, NEW text,
         NEW c, c = BodyCall(Len(input), level, text)
  PROVE  /\ c.kind = "body" /\ c.level = level /\ c.text = text /\ c.read + 1 = Len(input')
         /\ Following(d, c) = t /\ After(d, c) = Len(input')
<1>1. c.kind = "body" /\ c.read = Len(input) /\ ~ c.deferred /\ c.level = level /\ c.text = text
  BY CallFields
<1> QED BY <1>1, ReadThere

LEMMA BodyGoesOn ==
  ASSUME IInv, NEW t, Pull(t), NEW d, Begins(d)', NEW level, NEW text, t = End => level # 0,
         NEW inner, inner = (CASE t.kind = "Start" -> level + 1 [] t = End -> level - 1 [] OTHER -> level),
         NEW more, more = (IF t.kind = "Text" /\ level = 0 THEN text \o t.chunk ELSE text)
  PROVE  Leads(d, BodyCall(Len(input), level, text), BodyCall(Len(input'), inner, more))
<1> PICK c : c = BodyCall(Len(input), level, text)
  OBVIOUS
<1>1. input' = Append(input, t) /\ t \notin {Eof, Bad}
  BY DEF Pull, Readable
<1>2. /\ c.kind = "body" /\ c.level = level /\ c.text = text /\ c.read + 1 = Len(input')
      /\ Following(d, c) = t
  BY <1>1, BodyReads
<1>3. Continues(d, c)
  BY <1>1, <1>2 DEF Continues
<1>4. Continuation(d, c) = PastToken(c, t)
  BY <1>2 DEF Continuation
<1>5. PastToken(c, t) = BodyCall(Len(input'), inner, more)
  BY <1>2 DEF PastToken
<1> QED BY <1>3, <1>4, <1>5, ContinuationLeads

LEMMA BodyEnds ==
  ASSUME IInv, NEW t, Pull(t), t = End, NEW d, Begins(d)', NEW level, level = 0, NEW text
  PROVE  Returns(d, BodyCall(Len(input), level, text), Outcome(Return(text), Len(input'), FALSE))
<1> PICK c : c = BodyCall(Len(input), level, text)
  OBVIOUS
<1>1. input' = Append(input, t)
  BY DEF Pull
<1>2. /\ c.kind = "body" /\ c.level = level /\ c.text = text
      /\ Following(d, c) = End /\ After(d, c) = Len(input')
  BY <1>1, BodyReads
<1>3. ~ Continues(d, c) /\ ~ Asks(d, c)
  BY <1>2 DEF Continues, Asks
<1>4. Answer(d, c) = Outcome(Return(text), Len(input'), FALSE)
  BY <1>2 DEF Answer, Complete, Content
<1> QED BY <1>3, <1>4, AnswerRule

LEMMA BodyBreaks ==
  ASSUME IInv, NEW t \in {Eof, Bad}, input' = Append(input, t), NEW d, Begins(d)', NEW level, NEW text
  PROVE  Returns(d, BodyCall(Len(input), level, text), Outcome(Error("Parse"), Len(input'), FALSE))
<1> PICK c : c = BodyCall(Len(input), level, text)
  OBVIOUS
<1>1. /\ c.kind = "body" /\ Following(d, c) = t /\ After(d, c) = Len(input')
  BY BodyReads
<1>2. ~ Continues(d, c) /\ ~ Asks(d, c) /\ t # End
  BY <1>1, KindsDiffer DEF Continues, Asks
<1>3. Answer(d, c) = Outcome(Error("Parse"), Len(input'), FALSE)
  BY <1>1, <1>2 DEF Answer
<1> QED BY <1>2, <1>3, AnswerRule

LEMMA ReadBodyRecursion ==
  ASSUME IInv, NEW t, ReadBody(t), NEW d, Begins(d)', NEW asked, CallsOpen(d, asked), CallsCurrent(d, asked)
  PROVE  Walked(d)'
<1> PICK name : name = step.name
  OBVIOUS
<1> PICK text : text = step.text
  OBVIOUS
<1>1. step.op = "Body" /\ t # End /\ Pull(t) /\ UNCHANGED stack
  BY DEF ReadBody
<1>2. BodyOf(d, asked, stack', name, BodyCall(Len(input), 0, text))
  BY <1>1 DEF CallsCurrent
<1>3. CASE t.kind = "Start"
  <2>1. step' = Skip(1, step)
    BY <1>3 DEF ReadBody
  <2>2. /\ step'.op = "Skip" /\ step'.balance = 1 /\ step'.then.op = "Body"
        /\ step'.then.name = name /\ step'.then.text = text
    BY <1>1, <2>1, StepFields
  <2>3. ~ SkipsBoolean'
    BY <2>2 DEF SkipsBoolean
  <2>4. Leads(d, BodyCall(Len(input), 0, text), BodyCall(Len(input'), 1, text))
    <3>1. 1 = (CASE t.kind = "Start" -> 0 + 1 [] t = End -> 0 - 1 [] OTHER -> 0)
      BY <1>1, <1>3
    <3>2. text = (IF t.kind = "Text" /\ 0 = 0 THEN text \o t.chunk ELSE text)
      BY <1>3
    <3> QED BY <1>1, <3>1, <3>2, BodyGoesOn
  <2>5. BodyOf(d, asked, stack', step'.then.name, BodyCall(Len(input'), step'.balance, step'.then.text))
    BY <1>2, <2>2, <2>4, BodyOn
  <2>6. CallsCurrent(d, asked)'
    BY <2>2, <2>3, <2>5 DEF CallsCurrent
  <2>7. CallsOpen(d, asked)'
    <3>1. BurnedByLeaf' = 1 => BurnedByLeaf = 1
      BY <1>1, <2>2, <2>3 DEF BurnedByLeaf
    <3> QED BY <1>1, <2>2, <3>1, LoopKept
  <2> QED BY <2>2, <2>6, <2>7, Unreturned
<1>4. CASE t.kind # "Start"
  <2> PICK more : more = IF t.kind = "Text" THEN text \o t.chunk ELSE text
    OBVIOUS
  <2>1. step'.op = "Body" /\ step'.name = name /\ step'.text = more
    <3>1. CASE t.kind = "Text"
      <4>1. step' = [step EXCEPT !.text = more]
        BY <3>1 DEF ReadBody
      <4>2. step'.op = "Body" /\ step'.name = name
        BY <1>1, <4>1
      <4>3. step'.text = more
        BY <1>1, <4>1 DEF IInv, StepShape, IsBody
      <4> QED BY <4>2, <4>3
    <3>2. CASE t.kind # "Text"
      BY <1>1, <1>4, <3>2 DEF ReadBody
    <3> QED BY <3>1, <3>2
  <2>2. Leads(d, BodyCall(Len(input), 0, text), BodyCall(Len(input'), 0, more))
    <3>1. 0 = (CASE t.kind = "Start" -> 0 + 1 [] t = End -> 0 - 1 [] OTHER -> 0)
      BY <1>1, <1>4
    <3>2. more = (IF t.kind = "Text" /\ 0 = 0 THEN text \o t.chunk ELSE text)
      OBVIOUS
    <3> QED BY <1>1, <3>1, <3>2, BodyGoesOn
  <2>3. BodyOf(d, asked, stack', step'.name, BodyCall(Len(input'), 0, step'.text))
    BY <1>2, <2>1, <2>2, BodyOn
  <2>4. CallsCurrent(d, asked)'
    BY <2>1, <2>3 DEF CallsCurrent
  <2>5. CallsOpen(d, asked)'
    <3>1. BurnedByLeaf' = 1 => BurnedByLeaf = 1
      BY <1>1, <2>1 DEF BurnedByLeaf
    <3> QED BY <1>1, <2>1, <3>1, LoopKept
  <2> QED BY <2>1, <2>4, <2>5, Unreturned
<1> QED BY <1>3, <1>4

LEMMA ReadSkippedRecursion ==
  ASSUME IInv, NEW t, ReadSkipped(t), NEW d, Begins(d)', NEW asked, CallsOpen(d, asked), CallsCurrent(d, asked)
  PROVE  Walked(d)'
<1> PICK n \in Nat \ {0} : n = step.balance
  BY DEF ReadSkipped, IInv, StepShape
<1> PICK m : m = (CASE t.kind = "Start" -> n + 1 [] t = End -> n - 1 [] OTHER -> n)
  OBVIOUS
<1> PICK then : then = step.then
  OBVIOUS
<1>1. step.op = "Skip" /\ (t = End => n > 1) /\ Pull(t) /\ UNCHANGED stack
  BY DEF ReadSkipped
<1>2. End.kind = "End"
  BY DEF End
<1>3. step'.op = "Skip" /\ step'.then = then /\ step'.balance = m
  <2>1. CASE t.kind = "Start"
    <3>1. step' = [step EXCEPT !.balance = @ + 1]
      BY <1>2, <2>1 DEF ReadSkipped
    <3>2. step'.op = "Skip" /\ step'.then = then
      BY <1>1, <3>1
    <3>3. m = n + 1
      BY <1>2, <2>1
    <3> QED BY <3>1, <3>2, <3>3
  <2>2. CASE t = End
    <3>1. step' = [step EXCEPT !.balance = @ - 1]
      BY <1>2, <2>2 DEF ReadSkipped
    <3>2. step'.op = "Skip" /\ step'.then = then
      BY <1>1, <3>1
    <3> QED BY <1>2, <2>2, <3>1, <3>2
  <2>3. CASE t.kind # "Start" /\ t # End
    BY <1>1, <2>3 DEF ReadSkipped
  <2> QED BY <2>1, <2>2, <2>3
<1>4. SkipsBoolean' <=> SkipsBoolean
  BY <1>1, <1>3 DEF SkipsBoolean
<1>5. CallsOpen(d, asked)'
  <2>1. BurnedByLeaf' = 1 => BurnedByLeaf = 1
    BY <1>1, <1>3, <1>4 DEF BurnedByLeaf
  <2> QED BY <1>1, <1>3, <2>1, LoopKept
<1>6. CASE SkipsBoolean
  <2> PICK e : e = EnteredBy(d, asked, Len(stack) + 1)
    OBVIOUS
  <2>1. PICK text : BooleanOf(d, e, then.value, BodyCall(Len(input), n - 1, text))
    BY <1>1, <1>6 DEF CallsCurrent
  <2> PICK more : more = IF t.kind = "Text" /\ n - 1 = 0 THEN text \o t.chunk ELSE text
    OBVIOUS
  <2>2. Leads(d, BodyCall(Len(input), n - 1, text), BodyCall(Len(input'), m - 1, more))
    <3>1. m - 1 = (CASE t.kind = "Start" -> (n - 1) + 1 [] t = End -> (n - 1) - 1 [] OTHER -> n - 1)
      BY <1>2
    <3>2. t = End => n - 1 # 0
      BY <1>1
    <3>3. more = (IF t.kind = "Text" /\ n - 1 = 0 THEN text \o t.chunk ELSE text)
      OBVIOUS
    <3> PICK level : level = n - 1
      OBVIOUS
    <3> QED BY <1>1, <3>1, <3>2, <3>3, BodyGoesOn
  <2>3. BooleanOf(d, EnteredBy(d, asked, Len(stack') + 1), step'.then.value, BodyCall(Len(input'), step'.balance - 1, more))
    BY <1>1, <1>3, <2>1, <2>2, BooleanOn
  <2>4. CallsCurrent(d, asked)'
    BY <1>3, <1>4, <1>6, <2>3 DEF CallsCurrent
  <2> QED BY <1>3, <1>5, <2>4, Unreturned
<1>7. CASE ~ SkipsBoolean
  <2> PICK text : text = then.text
    OBVIOUS
  <2>1. BodyOf(d, asked, stack', then.name, BodyCall(Len(input), n, text))
    BY <1>1, <1>7 DEF CallsCurrent
  <2>2. Leads(d, BodyCall(Len(input), n, text), BodyCall(Len(input'), m, text))
    <3>1. text = (IF t.kind = "Text" /\ n = 0 THEN text \o t.chunk ELSE text)
      OBVIOUS
    <3>2. t = End => n # 0
      OBVIOUS
    <3> QED BY <1>1, <3>1, <3>2, BodyGoesOn
  <2>3. BodyOf(d, asked, stack', step'.then.name, BodyCall(Len(input'), step'.balance, step'.then.text))
    BY <1>3, <2>1, <2>2, BodyOn
  <2>4. CallsCurrent(d, asked)'
    BY <1>3, <1>4, <1>7, <2>3 DEF CallsCurrent
  <2> QED BY <1>3, <1>5, <2>4, Unreturned
<1> QED BY <1>6, <1>7

LEMMA FinishSkipRecursion ==
  ASSUME IInv, NEW t, FinishSkip(t), NEW d, Begins(d)', NEW asked, CallsOpen(d, asked), CallsCurrent(d, asked)
  PROVE  Walked(d)'
<1> PICK then : then = step.then
  OBVIOUS
<1> PICK no : no = FALSE
  OBVIOUS
<1> PICK zero : zero = 0
  OBVIOUS
<1>1. step.op = "Skip" /\ step.balance = 1 /\ t = End /\ Pull(t) /\ step' = then /\ UNCHANGED stack
  BY DEF FinishSkip
<1>2. then.op \in {"Body", "Deliver"}
  BY <1>1 DEF IInv, StepShape
<1>3. CASE SkipsBoolean
  <2>1. then.op = "Deliver" /\ BurnedByLeaf = 1
    BY <1>1, <1>3 DEF SkipsBoolean, BurnedByLeaf
  <2>2. PICK text : BooleanOf(d, EnteredBy(d, asked, Len(stack) + 1), then.value, BodyCall(Len(input), zero, text))
    <3>1. 1 - 1 = zero
      OBVIOUS
    <3> QED BY <1>1, <1>3, <3>1 DEF CallsCurrent
  <2> PICK v : v = Return(text)
    OBVIOUS
  <2> PICK p : p = Outcome(v, Len(input'), no)
    OBVIOUS
  <2>3. Returns(d, BodyCall(Len(input), zero, text), p)
    BY <1>1, BodyEnds
  <2>4. p.read = Len(input') /\ ~ Failed(p)
    <3>1. v.op = "Ok"
      BY StepFields
    <3> QED BY <3>1, OutcomeFields
  <2>5. Returns(d, EnteredBy(d, asked, Len(stack) + 1), Outcome(Return(then.value), p.read, Failed(p)))
    BY <2>2, <2>3 DEF BooleanOf
  <2>6. poison' = Failed(p)
    <3>1. ~ poison /\ poison' = poison /\ poison \in BOOLEAN
      BY <1>1, PullFacts DEF IInv, Shape
    <3>2. Failed(p) \in BOOLEAN
      BY DEF Failed
    <3> QED BY <2>4, <3>1, <3>2
  <2> QED BY <1>1, <2>1, <2>4, <2>5, <2>6, EntryHandsOn
<1>4. CASE ~ SkipsBoolean
  <2>1. then.op = "Body"
    BY <1>1, <1>2, <1>4 DEF SkipsBoolean
  <2>2. BodyOf(d, asked, stack', then.name, BodyCall(Len(input), 1, then.text))
    BY <1>1, <1>4 DEF CallsCurrent
  <2>3. Leads(d, BodyCall(Len(input), 1, then.text), BodyCall(Len(input'), 0, then.text))
    <3>1. End.kind = "End"
      BY DEF End
    <3>2. 0 = (CASE t.kind = "Start" -> 1 + 1 [] t = End -> 1 - 1 [] OTHER -> 1)
      BY <1>1, <3>1
    <3>3. then.text = (IF t.kind = "Text" /\ 1 = 0 THEN then.text \o t.chunk ELSE then.text)
      OBVIOUS
    <3>4. t = End => 1 # 0
      OBVIOUS
    <3> QED BY <1>1, <3>2, <3>3, <3>4, BodyGoesOn
  <2>4. BodyOf(d, asked, stack', step'.name, BodyCall(Len(input'), 0, step'.text))
    BY <1>1, <2>2, <2>3, BodyOn
  <2>5. CallsCurrent(d, asked)'
    BY <1>1, <2>1, <2>4 DEF CallsCurrent
  <2>6. CallsOpen(d, asked)'
    <3>1. BurnedByLeaf' = 1 => BurnedByLeaf = 1
      BY <1>1, <1>4, <2>1 DEF BurnedByLeaf
    <3> QED BY <1>1, <2>1, <3>1, LoopKept
  <2> QED BY <1>1, <2>1, <2>5, <2>6, Unreturned
<1> QED BY <1>3, <1>4

LEMMA FinishBodyRecursion ==
  ASSUME IInv, Pending, NEW t, FinishBody(t), NEW d, Begins(d)', NEW asked, CallsOpen(d, asked), CallsCurrent(d, asked)
  PROVE  Walked(d)'
<1> PICK name : name = step.name
  OBVIOUS
<1> PICK text : text = step.text
  OBVIOUS
<1> PICK no : no = FALSE
  OBVIOUS
<1> PICK zero : zero = 0
  OBVIOUS
<1> PICK done : done = Return(text)
  OBVIOUS
<1> PICK p : p = Outcome(done, Len(input'), no)
  OBVIOUS
<1>1. step.op = "Body" /\ t = End /\ Pull(t)
  BY DEF FinishBody
<1>2. BodyOf(d, asked, stack, name, BodyCall(Len(input), zero, text))
  BY <1>1 DEF CallsCurrent
<1>3. Returns(d, BodyCall(Len(input), zero, text), p)
  BY <1>1, BodyEnds
<1>4. p.read = Len(input') /\ p.deferred = no /\ ~ Failed(p) /\ p.out.value = text
  <2>1. done.op = "Ok" /\ done.value = text
    BY DEF Return
  <2> QED BY <2>1, OutcomeFields
<1>5. poison' = no
  BY <1>1, PullFacts DEF IInv, Shape
<1>6. CASE name = "key"
  <2> PICK f : f = [Top EXCEPT !.key = {text}]
    OBVIOUS
  <2> PICK n : n = Len(stack)
    OBVIOUS
  <2>1. stack' = Replaced(stack, f) /\ step'.op = "Advance"
    BY <1>6, StepFields DEF FinishBody, WithTop, Replaced
  <2>2. stack # << >> /\ Top.name = "dict"
    BY <1>1, <1>6 DEF IInv, StepShape, Pending, ReadsKey
  <2>3. f.name = "dict" /\ f.collected = Top.collected /\ f.key = {text}
    <3>1. IsFrame(Top)
      BY <2>2, TopIsFrame
    <3> QED BY <2>2, <3>1 DEF IsFrame
  <2>4. KeyOf(d, EnteredBy(d, asked, n), n, Top.collected, BodyCall(Len(input), zero, text))
    BY <1>2, <1>6 DEF BodyOf, Top
  <2>5. Leads(d, EnteredBy(d, asked, n), ChildrenCall(p.read, p.deferred, "dict", n, Top.collected, {p.out.value}))
    BY <1>3, <1>4, <2>4 DEF KeyOf
  <2>6. Leads(d, EnteredBy(d, asked, n), RestOf(f, n, Len(input'), poison'))
    BY <1>4, <1>5, <2>3, <2>5 DEF RestOf
  <2> QED BY <2>1, <2>2, <2>6, InsideGoesOn
<1>7. CASE name # "key"
  <2> PICK values : values = Decoded(name, text)
    OBVIOUS
  <2>1. BurnedByLeaf = 1
    BY <1>1, <1>7 DEF BurnedByLeaf
  <2>2. Returns(d, EnteredBy(d, asked, Len(stack) + 1), Known(values, Len(input')))
    <3>1. LeafOf(d, EnteredBy(d, asked, Len(stack) + 1), name, BodyCall(Len(input), zero, text))
      BY <1>2, <1>7 DEF BodyOf
    <3> QED BY <1>3, <1>4, <3>1 DEF LeafOf
  <2>3. CASE values = {}
    <3>1. Known(values, Len(input')) = Outcome(Error("Parse"), Len(input'), no)
      BY <2>3 DEF Known
    <3>2. step' = Error("Parse")
      BY <1>7, <2>3 DEF FinishBody
    <3> QED BY <1>5, <2>1, <2>2, <3>1, <3>2, EntryFails
  <2>4. CASE values # {}
    <3> PICK v : v = CHOOSE w \in values : TRUE
      OBVIOUS
    <3>1. Known(values, Len(input')) = Outcome(Return(v), Len(input'), no)
      BY <2>4 DEF Known
    <3>2. step' = Deliver(v) /\ UNCHANGED stack
      BY <1>7, <2>4 DEF FinishBody
    <3> QED BY <1>5, <2>1, <2>2, <3>1, <3>2, EntryDelivers
  <2> QED BY <2>3, <2>4
<1> QED BY <1>6, <1>7

(* A failed read in a body is the failure of what the body is for, but of  *)
(* a boolean. *)
LEMMA BodyFailsRecursion ==
  ASSUME IInv, Pending, NEW t, NextFails(t), step.op \in {"Body", "Skip"},
         NEW d, Begins(d)', NEW asked, CallsOpen(d, asked), CallsCurrent(d, asked)
  PROVE  Walked(d)'
<1> PICK no : no = FALSE
  OBVIOUS
<1> PICK e : e = Error("Parse")
  OBVIOUS
<1> PICK p : p = Outcome(e, Len(input'), no)
  OBVIOUS
<1>1. t \in {Eof, Bad} /\ input' = Append(input, t) /\ Raise
  BY DEF NextFails
<1>2. p.read = Len(input') /\ Failed(p)
  <2>1. e.op = "Err"
    BY StepFields
  <2> QED BY <2>1, OutcomeFields
<1>3. \A level, text : Returns(d, BodyCall(Len(input), level, text), p)
  BY <1>1, BodyBreaks
<1>4. CASE SkipsBoolean
  <2> PICK v : v = step.then.value
    OBVIOUS
  <2>1. step.op = "Skip" /\ step'.op = "Deliver" /\ step'.value = v /\ UNCHANGED stack
    BY <1>1, <1>4 DEF Raise, SkipsBoolean
  <2>2. BurnedByLeaf = 1
    BY <1>4, <2>1 DEF BurnedByLeaf
  <2>3. PICK level, text : BooleanOf(d, EnteredBy(d, asked, Len(stack) + 1), v, BodyCall(Len(input), level, text))
    BY <1>4, <2>1 DEF CallsCurrent
  <2>4. Returns(d, EnteredBy(d, asked, Len(stack) + 1), Outcome(Return(v), p.read, Failed(p)))
    BY <1>3, <2>3 DEF BooleanOf
  <2>5. poison' = Failed(p)
    <3>1. poison' = SkipsBoolean
      BY <1>1 DEF Raise
    <3>2. SkipsBoolean \in BOOLEAN /\ Failed(p) \in BOOLEAN
      BY DEF SkipsBoolean, Failed
    <3> QED BY <1>2, <1>4, <3>1, <3>2
  <2> QED BY <1>2, <2>1, <2>2, <2>4, <2>5, EntryHandsOn
<1>5. CASE ~ SkipsBoolean
  <2>1. step' = e /\ poison' = no
    BY <1>1, <1>5 DEF Raise, SkipsBoolean
  <2>2. PICK name, level, text :
          /\ BodyOf(d, asked, stack, name, BodyCall(Len(input), level, text))
          /\ name = "key" <=> ReadsKey
          /\ ~ ReadsKey => BurnedByLeaf = 1
    <3>1. CASE step.op = "Body"
      <4>1. BodyOf(d, asked, stack, step.name, BodyCall(Len(input), 0, step.text))
        BY <3>1 DEF CallsCurrent
      <4>2. step.name = "key" <=> ReadsKey
        BY <3>1 DEF ReadsKey
      <4>3. ~ ReadsKey => BurnedByLeaf = 1
        BY <3>1, <4>2 DEF BurnedByLeaf
      <4> QED BY <4>1, <4>2, <4>3
    <3>2. CASE step.op = "Skip"
      <4>1. BodyOf(d, asked, stack, step.then.name, BodyCall(Len(input), step.balance, step.then.text))
        BY <1>5, <3>2 DEF CallsCurrent
      <4>2. step.then.op = "Body"
        BY <1>5, <3>2 DEF IInv, StepShape, SkipsBoolean
      <4>3. step.then.name = "key" <=> ReadsKey
        BY <3>2, <4>2 DEF ReadsKey
      <4>4. ~ ReadsKey => BurnedByLeaf = 1
        BY <1>5, <3>2, <4>3 DEF BurnedByLeaf
      <4> QED BY <4>1, <4>3, <4>4
    <3> QED BY <3>1, <3>2
  <2>3. CASE name = "key"
    <3>1. stack # << >>
      BY <2>2, <2>3 DEF IInv, StepShape, ReadsKey
    <3>2. KeyOf(d, EnteredBy(d, asked, Len(stack)), Len(stack), stack[Len(stack)].collected,
                BodyCall(Len(input), level, text))
      BY <2>2, <2>3 DEF BodyOf
    <3>3. Returns(d, EnteredBy(d, asked, Len(stack)), p)
      BY <1>2, <1>3, <3>2 DEF KeyOf
    <3> QED BY <2>1, <3>1, <3>3, InsideFails
  <2>4. CASE name # "key"
    <3>1. LeafOf(d, EnteredBy(d, asked, Len(stack) + 1), name, BodyCall(Len(input), level, text))
      BY <2>2, <2>4 DEF BodyOf
    <3>2. Returns(d, EnteredBy(d, asked, Len(stack) + 1), p)
      BY <1>2, <1>3, <3>1 DEF LeafOf
    <3>3. BurnedByLeaf = 1
      BY <2>2, <2>4
    <3> QED BY <2>1, <3>2, <3>3, EntryFails
  <2> QED BY <2>3, <2>4
<1> QED BY <1>4, <1>5

-----------------------------------------------------------------------------
(***************************************************************************)
(* Delivering a value to the call that waits for it.                       *)
(***************************************************************************)
LEMMA Handed ==
  ASSUME IInv, step.op = "Deliver", stack # << >>, NEW d, NEW asked, CallsOpen(d, asked), CallsCurrent(d, asked),
         NEW v, v = step.value, NEW p, p = Outcome(Return(v), Len(input), poison)
  PROVE  /\ p.out.value = v /\ p.read = Len(input) /\ p.deferred = poison /\ ~ Failed(p)
         /\ Awaits(d, stack, asked, Len(stack))
         /\ Returns(d, EnteredBy(d, asked, Len(stack) + 1), p)
<1> PICK done : done = Return(v)
  OBVIOUS
<1>1. done.op = "Ok" /\ done.value = v
  BY DEF Return
<1>2. p.out.value = v /\ p.read = Len(input) /\ p.deferred = poison /\ ~ Failed(p)
  BY <1>1, OutcomeFields
<1>3. Len(stack) \in 1 .. Len(stack)
  BY SequenceFacts DEF IInv, Shape
<1>4. Awaits(d, stack, asked, Len(stack))
  BY <1>3 DEF CallsOpen, Waiting
<1>5. Returns(d, EnteredBy(d, asked, Len(stack) + 1), p)
  BY DEF CallsCurrent
<1> QED BY <1>2, <1>4, <1>5

LEMMA DeliverToPlistRecursion ==
  ASSUME IInv, DeliverToPlist, NEW d, NEW asked, CallsOpen(d, asked), CallsCurrent(d, asked)
  PROVE  Walked(d)'
<1> PICK v : v = step.value
  OBVIOUS
<1> PICK p : p = Outcome(Return(v), Len(input), poison)
  OBVIOUS
<1>1. /\ step.op = "Deliver" /\ stack # << >> /\ Top.name = "plist"
      /\ stack' = Popped(stack) /\ UNCHANGED <<input, step, poison>>
  BY DEF DeliverToPlist, Pop, Popped
<1>2. PICK n \in Nat \ {0} : n = Len(stack) /\ IsSequence(stack)
  BY <1>1, SequenceFacts DEF IInv, Shape
<1>3. Awaits(d, stack, asked, n) /\ Returns(d, EnteredBy(d, asked, n + 1), p)
  BY <1>1, <1>2, Handed
<1>4. ~ Resumes(asked[n], p)
  BY <1>1, <1>2, <1>3 DEF Awaits, Resumes, Top
<1>5. Returns(d, EnteredBy(d, asked, n), p)
  BY <1>3, <1>4, ChildAnswered
<1>6. Len(stack') = n - 1 /\ \A k \in 1 .. n - 1 : stack'[k] = stack[k]
  BY <1>1, <1>2, PopSequence
<1>7. CallsOpen(d, asked)'
  <2>1. \A k \in 1 .. n - 1 : k \in 1 .. n /\ k < n
    BY <1>2
  <2>2. \A k \in 1 .. Len(stack') : Waiting(k)' =>
          k \in 1 .. Len(stack) /\ Waiting(k) /\ stack'[k] = stack[k]
    BY <1>2, <1>6, <2>1 DEF Waiting
  <2> QED BY <2>2, OpenKept
<1>8. Len(stack') + 1 = n
  BY <1>2, <1>6
<1>9. Returns(d, EnteredBy(d, asked, Len(stack') + 1), Outcome(Return(step'.value), Len(input'), poison'))
  BY <1>1, <1>5, <1>8
<1>10. CallsCurrent(d, asked)'
  BY <1>1, <1>9 DEF CallsCurrent
<1> QED BY <1>1, <1>7, <1>10, Unreturned

LEMMA DeliverToFrameRecursion ==
  ASSUME IInv, Pending, DeliverToFrame, NEW d, NEW asked, CallsOpen(d, asked), CallsCurrent(d, asked)
  PROVE  Walked(d)'
<1> PICK v : v = step.value
  OBVIOUS
<1> PICK p : p = Outcome(Return(v), Len(input), poison)
  OBVIOUS
<1> PICK child : child = IF Top.name = "array" THEN v ELSE Entry(CHOOSE k \in Top.key : TRUE, v)
  <2>1. CASE Top.name = "array"
    <3>1. v = IF Top.name = "array" THEN v ELSE Entry(CHOOSE k \in Top.key : TRUE, v)
      BY <2>1
    <3> QED BY <3>1
  <2>2. CASE Top.name # "array"
    <3> PICK entry : entry = Entry(CHOOSE k \in Top.key : TRUE, v)
      OBVIOUS
    <3>1. entry = IF Top.name = "array" THEN v ELSE Entry(CHOOSE k \in Top.key : TRUE, v)
      BY <2>2
    <3> QED BY <3>1
  <2> QED BY <2>1, <2>2
<1> PICK kept : kept = Append(Top.collected, child)
  OBVIOUS
<1> DEFINE f == IF Top.name = "array"
                THEN [Top EXCEPT !.collected = Append(@, v)]
                ELSE [Top EXCEPT !.collected = Append(@, Entry(CHOOSE k \in Top.key : TRUE, v)), !.key = {}]
<1>1. /\ step.op = "Deliver" /\ stack # << >> /\ Top.name # "plist"
      /\ stack' = Replaced(stack, f) /\ step'.op = "Advance" /\ UNCHANGED <<input, poison>>
  BY StepFields DEF DeliverToFrame, WithTop, Replaced
<1>2. PICK n \in Nat \ {0} : n = Len(stack)
  BY <1>1, SequenceFacts DEF IInv, Shape
<1> PICK c : c = asked[n]
  OBVIOUS
<1>3. /\ c.kind = "children" /\ OpensChild(c, Following(d, c)) /\ c.name = Top.name
      /\ c.children = Top.collected /\ c.key = Top.key /\ c.level = n
      /\ Leads(d, EnteredBy(d, asked, n), c)
      /\ Awaits(d, stack, asked, n)
      /\ p.out.value = v /\ p.read = Len(input) /\ p.deferred = poison /\ ~ Failed(p)
      /\ Returns(d, EnteredBy(d, asked, n + 1), p)
  BY <1>1, <1>2, Handed DEF Awaits, Top
<1>4. Resumes(c, p) /\ ~ OpensKey(c, Following(d, c))
  BY <1>1, <1>3 DEF Resumes, OpensChild, OpensKey
<1>5. Leads(d, EnteredBy(d, asked, n), RestCall(d, c, p))
  BY <1>3, <1>4, ChildAnswered
<1>6. f.name = Top.name /\ f.collected = kept /\ f.key = {}
  <2>1. IsFrame(Top) /\ (Top.name = "array" => Top.key = {})
    <3>1. n \in 1 .. Len(stack)
      BY <1>2
    <3> QED BY <1>1, <1>2, <3>1, TopIsFrame DEF Pending, Top
  <2>2. CASE Top.name = "array"
    <3>1. f = [Top EXCEPT !.collected = kept]
      BY <2>2
    <3> QED BY <2>1, <2>2, <3>1 DEF IsFrame
  <2>3. CASE Top.name # "array"
    <3>1. f = [Top EXCEPT !.collected = kept, !.key = {}]
      BY <2>3
    <3> QED BY <2>1, <3>1 DEF IsFrame
  <2> QED BY <2>2, <2>3
<1> HIDE DEF f
<1>7. RestCall(d, c, p) = RestOf(f, n, Len(input'), poison')
  <2>1. RestCall(d, c, p) = ChildrenCall(p.read, p.deferred, c.name, c.level, kept, {})
    BY <1>3, <1>4 DEF RestCall
  <2> QED BY <1>1, <1>3, <1>6, <2>1 DEF RestOf
<1>8. Leads(d, EnteredBy(d, asked, Len(stack)), RestOf(f, Len(stack), Len(input'), poison'))
  BY <1>2, <1>5, <1>7
<1> QED BY <1>1, <1>8, InsideGoesOn

LEMMA DeliverOutRecursion ==
  ASSUME IInv, DeliverOut, NEW d, NEW asked, CallsCurrent(d, asked)
  PROVE  Walked(d)'
<1>1. /\ step.op = "Deliver" /\ Len(stack) = 0 /\ step' = Return(step.value) /\ UNCHANGED <<input, poison>>
  BY EmptySequence DEF DeliverOut
<1>2. EnteredBy(d, asked, Len(stack) + 1) = DocumentCall(0)
  BY <1>1 DEF EnteredBy
<1>3. Returns(d, DocumentCall(0), Outcome(step', Len(input'), poison'))
  BY <1>1, <1>2 DEF CallsCurrent
<1>4. step'.op = "Ok"
  BY <1>1, StepFields
<1> QED BY <1>3, <1>4 DEF Walked, Returned

LEMMA RecursionStutter ==
  ASSUME RecursionInv, UNCHANGED vars
  PROVE  RecursionInv'
<1>1. UNCHANGED <<input, opened, stack, step, depth, recognized, poison>>
  BY DEF vars
<1> SUFFICES ASSUME NEW d, Begins(d)' PROVE Walked(d)'
  BY DEF RecursionInv
<1>2. Begins(d)
  BY <1>1 DEF Begins
<1>3. Walked(d)
  BY <1>2 DEF RecursionInv
<1>4. Top' = Top /\ Returned' = Returned /\ SkipsBoolean' = SkipsBoolean
  BY <1>1 DEF Top, Returned, SkipsBoolean
<1>5. ASSUME NEW asked, CallsOpen(d, asked), CallsCurrent(d, asked)
      PROVE  CallsOpen(d, asked)' /\ CallsCurrent(d, asked)'
  <2>1. CallsOpen(d, asked)'
    <3>1. BurnedByLeaf' = BurnedByLeaf
      BY <1>1, <1>4 DEF BurnedByLeaf
    <3> QED BY <1>1, <1>5, <3>1, LoopKept
  <2>2. CallsCurrent(d, asked)'
    BY <1>1, <1>4, <1>5 DEF CallsCurrent
  <2> QED BY <2>1, <2>2
<1>6. ASSUME ~ Returned' PROVE \E asked : CallsOpen(d, asked)' /\ CallsCurrent(d, asked)'
  <2>1. ~ Returned
    BY <1>4, <1>6
  <2>2. PICK asked : CallsOpen(d, asked) /\ CallsCurrent(d, asked)
    BY <1>3, <2>1 DEF Walked
  <2>3. CallsOpen(d, asked)' /\ CallsCurrent(d, asked)'
    BY <1>5, <2>2
  <2> QED BY <2>3
<1>7. ASSUME Returned' PROVE Returns(d, DocumentCall(0), Outcome(step', Len(input'), poison'))
  <2>1. Returned
    BY <1>4, <1>7
  <2>2. Returns(d, DocumentCall(0), Outcome(step, Len(input), poison))
    BY <1>3, <2>1 DEF Walked
  <2> QED BY <1>1, <2>2
<1> QED BY <1>6, <1>7 DEF Walked

LEMMA Resumed ==
  ASSUME RecursionInv, ~ Returned, NEW d, Begins(d)
  PROVE  \E asked : CallsOpen(d, asked) /\ CallsCurrent(d, asked)
BY DEF RecursionInv, Walked

LEMMA ReadRecursion ==
  ASSUME IInv, Pending, RecursionInv, NEW t, Read(t)
  PROVE  RecursionInv'
<1> SUFFICES ASSUME NEW d, Begins(d)' PROVE Walked(d)'
  BY DEF RecursionInv
<1>1. Reading /\ input' = Append(input, t)
  BY DEF Read, NextFails, ReadDocument, ReadChild, Ignore, ReadKey, ReadEntryValue, CloseContainer,
       ReadBody, FinishBody, ReadSkipped, FinishSkip, Pull
<1>2. Begins(d)
  BY <1>1, ReadThere
<1>3. PICK asked : CallsOpen(d, asked) /\ CallsCurrent(d, asked)
  <2>1. ~ Returned
    BY <1>1 DEF Reading, Returned
  <2> QED BY <1>2, <2>1, Resumed
<1>4. CASE NextFails(t)
  <2>1. CASE step.op = "Document"
    BY <1>3, <1>4, <2>1, DocumentFailsRecursion
  <2>2. CASE step.op = "Advance"
    <3>1. Raise /\ \E s \in {Eof, Bad} : input' = Append(input, s) /\ ~ poison
      BY <1>4 DEF NextFails
    <3> QED BY <1>3, <2>2, <3>1, AdvanceFailsRecursion
  <2>3. CASE step.op \in {"Body", "Skip"}
    BY <1>3, <1>4, <2>3, BodyFailsRecursion
  <2> QED BY <1>1, <2>1, <2>2, <2>3 DEF Reading
<1>5. CASE ReadDocument(t) \/ Ignore(t) \/ ReadKey(t) \/ CloseContainer(t)
  BY <1>3, <1>5, ReadDocumentRecursion, IgnoreRecursion, ReadKeyRecursion, CloseContainerRecursion
<1>6. CASE ReadChild(t)
  <2>1. /\ step.op = "Advance" /\ Top.name # "dict" /\ IsElement(t) /\ Pull(t) /\ step' = Open(t)
        /\ UNCHANGED stack
    BY <1>6 DEF ReadChild
  <2> QED BY <1>3, <2>1, ChildRecursion
<1>7. CASE ReadEntryValue(t)
  <2>1. /\ step.op = "Advance" /\ Top.name = "dict" /\ IsElement(t) /\ t.name # "key" /\ Pull(t)
        /\ UNCHANGED stack
    BY <1>7 DEF ReadEntryValue
  <2>2. CASE Top.key # {}
    <3>1. step' = Open(t)
      BY <1>7, <2>2 DEF ReadEntryValue
    <3> QED BY <1>3, <2>1, <2>2, <3>1, ChildRecursion
  <2>3. CASE Top.key = {}
    <3>1. step' = Error("Parse")
      BY <1>7, <2>3 DEF ReadEntryValue
    <3> QED BY <1>3, <2>1, <2>3, <3>1, ContainerRefuses
  <2> QED BY <2>2, <2>3
<1>8. CASE ReadBody(t) \/ FinishBody(t) \/ ReadSkipped(t) \/ FinishSkip(t)
  BY <1>3, <1>8, ReadBodyRecursion, FinishBodyRecursion, ReadSkippedRecursion, FinishSkipRecursion
<1> QED BY <1>4, <1>5, <1>6, <1>7, <1>8 DEF Read

(* The steps that read nothing. *)
LEMMA InnerRecursion ==
  ASSUME IInv, Pending, RecursionInv,
         \/ NextPoisoned
         \/ OpenTooDeep \/ OpenContainer \/ OpenLeaf \/ OpenBoolean \/ OpenEmpty \/ OpenUnknown
         \/ DeliverToPlist \/ DeliverToFrame \/ DeliverOut
  PROVE  RecursionInv'
<1> SUFFICES ASSUME NEW d, Begins(d)' PROVE Walked(d)'
  BY DEF RecursionInv
<1>1. ~ Returned /\ UNCHANGED input
  <2>1. CASE NextPoisoned
    BY <2>1 DEF NextPoisoned, Reading, Returned
  <2>2. CASE OpenTooDeep \/ OpenContainer \/ OpenLeaf \/ OpenBoolean \/ OpenEmpty \/ OpenUnknown
    BY <2>2 DEF OpenTooDeep, OpenContainer, OpenLeaf, OpenBoolean, OpenEmpty, OpenUnknown, Entered, Returned
  <2>3. CASE DeliverToPlist \/ DeliverToFrame \/ DeliverOut
    BY <2>3 DEF DeliverToPlist, DeliverToFrame, DeliverOut, Returned
  <2> QED BY <2>1, <2>2, <2>3
<1>2. Begins(d)
  BY <1>1 DEF Begins
<1>3. PICK asked : CallsOpen(d, asked) /\ CallsCurrent(d, asked)
  BY <1>1, <1>2, Resumed
<1>4. CASE NextPoisoned
  <2>1. step.op = "Advance" /\ Raise /\ UNCHANGED input /\ poison
    BY <1>4 DEF NextPoisoned, Reading, Pending
  <2> QED BY <1>3, <2>1, AdvanceFailsRecursion
<1>5. CASE OpenTooDeep \/ OpenContainer \/ OpenLeaf
  BY <1>3, <1>5, OpenTooDeepRecursion, OpenContainerRecursion, OpenLeafRecursion
<1>6. CASE OpenBoolean \/ OpenEmpty \/ OpenUnknown
  BY <1>3, <1>6, OpenBooleanRecursion, OpenEmptyRecursion, OpenUnknownRecursion
<1>7. CASE DeliverToPlist \/ DeliverToFrame \/ DeliverOut
  BY <1>3, <1>7, DeliverToPlistRecursion, DeliverToFrameRecursion, DeliverOutRecursion
<1> QED BY <1>4, <1>5, <1>6, <1>7

LEMMA NextRecursion ==
  ASSUME IInv, Pending, RecursionInv, [Next]_vars
  PROVE  RecursionInv'
<1>1. \/ \E t : Read(t)
      \/ NextPoisoned
      \/ OpenTooDeep \/ OpenContainer \/ OpenLeaf \/ OpenBoolean \/ OpenEmpty \/ OpenUnknown
      \/ DeliverToPlist \/ DeliverToFrame \/ DeliverOut
      \/ UNCHANGED vars
  BY DEF Next, NextOn, Stop
<1> QED BY <1>1, ReadRecursion, InnerRecursion, RecursionStutter

(* The walker matches the recursive parse (xml/parser.rs:184-188): what it *)
(* returns is what the recursive parse returns, with the same number of    *)
(* tokens read and the same failure deferred, of the document it has read  *)
(* and of every one that begins so, as nothing it has not read matters.    *)
WalkerMatches ==
  Returned => \A d : Begins(d) => Returns(d, DocumentCall(0), Outcome(step, Len(input), poison))

THEOREM WalkerIsRecursion == Spec => []WalkerMatches
<1>1. IInv /\ Pending /\ RecursionInv /\ [Next]_vars => RecursionInv'
  BY NextRecursion
<1>2. RecursionInv => WalkerMatches
  BY DEF RecursionInv, Walked, WalkerMatches
<1> QED BY <1>1, <1>2, RecursionInit, Invariance, PendingHeld, PTL DEF Spec

(* So the outcome of the walker is the only one the recursive parse has,   *)
(* and what follows what was read does not change it.                      *)
WalkerAlone ==
  Returned => \A d, o : Begins(d) /\ Returns(d, DocumentCall(0), o) => o = Outcome(step, Len(input), poison)

THEOREM OnlyOutcome == Spec => []WalkerAlone
<1>1. WalkerMatches => WalkerAlone
  <2> SUFFICES ASSUME WalkerMatches, Returned, NEW d, NEW o, Begins(d), Returns(d, DocumentCall(0), o)
               PROVE  o = Outcome(step, Len(input), poison)
    BY DEF WalkerAlone
  <2>1. Returns(d, DocumentCall(0), Outcome(step, Len(input), poison))
    BY DEF WalkerMatches
  <2>2. IsSequence(d)
    BY DEF Begins
  <2> QED BY <2>1, <2>2, OneParse
<1> QED BY <1>1, WalkerIsRecursion, PTL

=============================================================================
