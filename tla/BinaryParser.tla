---------------------------- MODULE BinaryParser ----------------------------
(***************************************************************************)
(* The object resolver of the binary parser (src/src/binary/parser.rs):    *)
(* depth-first resolution of the object table with an explicit stack of    *)
(* open containers, a memo of finished objects, a cap on the number of     *)
(* open containers and a scan of the open offsets for self-reference.      *)
(*                                                                         *)
(* The loop of resolve_object holds one continuation, step.  Each action   *)
(* is one arm of the loop on one path through its early returns.           *)
(***************************************************************************)
EXTENDS BinaryDocument, Stacks

CONSTANT MaxParseDepth   (* depth.rs: 128 in the program *)

ASSUME MaxParseDepthAssumption == MaxParseDepth \in Nat

VARIABLES
  doc,       (* the document *)
  objects,   (* the memo: the finished objects, by object index *)
  stack,     (* the open containers, outermost first *)
  step       (* what the loop does next, or how it returned *)

vars == <<doc, objects, stack, step>>

(* enum Step, and the two ways out of the loop. *)
Resolve(index) == [op |-> "Resolve", index |-> index]
Advance        == [op |-> "Advance"]
Deliver(value) == [op |-> "Deliver", value |-> value]
Return(value)  == [op |-> "Ok", value |-> value]
Error(kind)    == [op |-> "Err", kind |-> kind]

(***************************************************************************)
(* struct Frame.  The marker at off gives is_dictionary, count and total;  *)
(* refsRead stands for next_ref_pos.                                       *)
(***************************************************************************)
Frame(off, index) ==
  [off |-> off, index |-> index, refsRead |-> 0, collected |-> << >>]

Top             == stack[Len(stack)]
Pop             == SubSeq(stack, 1, Len(stack) - 1)
WithTopKept(f)  == stack   (* mutant: advance_step works on a copy of the frame *)
WithTop(f)      == [stack EXCEPT ![Len(stack)] = f]
Refs(f)         == doc.region[f.off].refs
CompleteEarly(f) == Len(f.collected) + 1 >= Len(Refs(f))   (* mutant: off by one *)
Complete(f)     == Len(f.collected) >= Len(Refs(f))

memoizeByOffset(index, value) ==   (* mutant: the memo keyed by offset *)
  objects' = With(objects, doc.offset[index], value)
memoizeLast(index, value) ==   (* mutant: the memo holds one object *)
  objects' = With(<< >>, index, value)
memoize(index, value) == objects' = With(objects, index, value)

Fail(kind) ==
  /\ step' = Error(kind)
  /\ UNCHANGED <<doc, objects, stack>>

Init ==
  /\ doc \in Documents
  /\ objects = << >>
  /\ stack = << >>
  /\ step = Resolve(doc.top)

(***************************************************************************)
(* resolve_step, up to the decision that the object must be read.          *)
(***************************************************************************)
ResolveInvalid ==
  /\ step.op = "Resolve"
  /\ step.index \notin Indices(doc)
  /\ Fail("InvalidObject")

ResolveMemoized ==
  /\ step.op = "Resolve"
  /\ step.index \in DOMAIN objects
  /\ step' = Deliver(objects[step.index])
  /\ UNCHANGED <<doc, objects, stack>>

Unread(index) ==
  /\ step.op = "Resolve"
  /\ index = step.index
  /\ index \in Indices(doc) \ DOMAIN objects

ResolveUnreadable ==
  /\ Unread(step.index)
  /\ ~ doc.entrySizeLegal
  /\ Fail("IllegalIntegerSize")

ResolveBeyondTable ==
  /\ Unread(step.index)
  /\ doc.entrySizeLegal
  /\ doc.offset[step.index] \notin Offsets(doc)
  /\ Fail("BeyondTable")

ResolveScalar ==
  /\ Unread(step.index)
  /\ HasMarker(doc, step.index)
  /\ LET marker == Marker(doc, step.index) IN
       /\ ~ IsContainer(marker)
       /\ IF marker.sound
          THEN /\ memoize(step.index, marker.value)
               /\ step' = Deliver(marker.value)
               /\ UNCHANGED <<doc, stack>>
          ELSE Fail("BadScalar")

(***************************************************************************)
(* open_container: the cap, the scan of the open offsets and the bounds of *)
(* the reference list, in this order.                                      *)
(***************************************************************************)
AtContainer ==
  /\ Unread(step.index)
  /\ HasMarker(doc, step.index)
  /\ IsContainer(Marker(doc, step.index))

AtCapLate  == Len(stack) > MaxParseDepth        (* mutant: > for >= *)
AtCapEarly == Len(stack) + 1 >= MaxParseDepth   (* mutant: off by one *)
AtCap      == Len(stack) >= MaxParseDepth

IsOnTop(off)   == stack # << >> /\ Top.off = off   (* mutant: only the parent *)
NeverOpen(off) == FALSE                            (* mutant: no scan *)
IsOpen(off)    == \E d \in 1 .. Len(stack) : stack[d].off = off

OpenTooDeep ==
  /\ AtContainer
  /\ AtCap
  /\ Fail("MaxDepthExceeded")

OpenSelfReferential ==
  /\ AtContainer
  /\ ~ AtCap
  /\ IsOpen(doc.offset[step.index])
  /\ Fail("SelfReferential")

OpenOutOfBounds ==
  /\ AtContainer
  /\ ~ AtCap
  /\ ~ IsOpen(doc.offset[step.index])
  /\ ~ Marker(doc, step.index).sound
  /\ Fail("BadContainer")

OpenContainer ==
  /\ AtContainer
  /\ ~ AtCap
  /\ ~ IsOpen(doc.offset[step.index])
  /\ Marker(doc, step.index).sound
  /\ stack' = Append(stack, Frame(doc.offset[step.index], step.index))
  /\ step' = Advance
  /\ UNCHANGED <<doc, objects>>

(***************************************************************************)
(* advance_step: close the top container when it has all its children,     *)
(* otherwise read its next reference.                                      *)
(***************************************************************************)
CloseContainer ==
  /\ step.op = "Advance"
  /\ Complete(Top)
  /\ stack' = Pop
  /\ LET marker == doc.region[Top.off] IN
       IF Buildable(marker, Top.collected)
       THEN /\ memoize(Top.index, Build(marker, Top.collected))
            /\ step' = Deliver(Build(marker, Top.collected))
       ELSE /\ step' = Error("NonStringKey")
            /\ UNCHANGED objects
  /\ UNCHANGED doc

ReadReference ==
  /\ step.op = "Advance"
  /\ ~ Complete(Top)
  /\ IF doc.refSizeLegal
     THEN /\ stack' = WithTop([Top EXCEPT !.refsRead = @ + 1])
          /\ step' = Resolve(Refs(Top)[Top.refsRead + 1])
          /\ UNCHANGED <<doc, objects>>
     ELSE Fail("IllegalIntegerSize")

(* resolve_object: a finished value goes to the top frame, or out. *)
DeliverToFrame ==
  /\ step.op = "Deliver"
  /\ stack # << >>
  /\ stack' = WithTop([Top EXCEPT !.collected = Append(@, step.value)])
  /\ step' = Advance
  /\ UNCHANGED <<doc, objects>>

DeliverOut ==
  /\ step.op = "Deliver"
  /\ stack = << >>
  /\ step' = Return(step.value)
  /\ UNCHANGED <<doc, objects, stack>>

(* The call has returned: nothing happens any more. *)
Returned == step.op \in {"Ok", "Err"}
Stop     == Returned /\ UNCHANGED vars

Next ==
  \/ ResolveInvalid \/ ResolveMemoized \/ ResolveUnreadable \/ ResolveBeyondTable
  \/ ResolveScalar
  \/ OpenTooDeep \/ OpenSelfReferential \/ OpenOutOfBounds \/ OpenContainer
  \/ CloseContainer \/ ReadReference
  \/ DeliverToFrame \/ DeliverOut
  \/ Stop

(* The loop runs until it returns: a step that can be taken is taken. *)
Spec     == Init /\ [][Next]_vars
FairSpec == Spec /\ WF_vars(Next)

-----------------------------------------------------------------------------
(***************************************************************************)
(* Properties.                                                             *)
(***************************************************************************)

FrameOK(f) ==
  /\ f = [off |-> f.off, index |-> f.index, refsRead |-> f.refsRead, collected |-> f.collected]
  /\ f.index \in Indices(doc)
  /\ HasMarker(doc, f.index)
  /\ f.off = doc.offset[f.index]
  /\ IsContainer(doc.region[f.off]) /\ doc.region[f.off].sound
  /\ IsSequence(f.collected)
  /\ Len(f.collected) <= Len(Refs(f))
  /\ f.refsRead \in Nat

StepOK ==
  \/ step.op = "Resolve" /\ step = Resolve(step.index) /\ step.index \in Nat
  \/ step = Advance
  \/ step.op = "Deliver" /\ step = Deliver(step.value)
  \/ step.op = "Ok" /\ step = Return(step.value)
  \/ step.op = "Err" /\ step = Error(step.kind)

(* The type invariant: every open frame is a well-formed container of the  *)
(* document with at most as many children as references, and the stack     *)
(* never outgrows the cap.                                                 *)
TypeOK ==
  /\ IsDocument(doc)
  /\ DOMAIN objects \subseteq Indices(doc)
  /\ IsSequence(stack)
  /\ \A d \in 1 .. Len(stack) : FrameOK(stack[d])
  /\ Len(stack) <= MaxParseDepth
  /\ StepOK
  /\ step = Advance => stack # << >>

(* No container is open twice, and none that is open has a memo entry: the *)
(* scan of the open offsets is what keeps a self-referential container     *)
(* from being finished, or entered again, below itself.                    *)
NeverReentered ==
  \A d \in 1 .. Len(stack) :
    /\ stack[d].index \notin DOMAIN objects
    /\ \A e \in 1 .. Len(stack) : stack[d].off = stack[e].off => d = e

(* The frames hang together: each frame above another resolves the object  *)
(* that the other's last reference names, the top frame awaits one child   *)
(* exactly while an object is being resolved or delivered, and every frame *)
(* has collected the children of all references before the awaited one.    *)
Awaiting(d) == d < Len(stack) \/ step.op \in {"Resolve", "Deliver"}

Asked == IF stack = << >> THEN doc.top ELSE Refs(Top)[Top.refsRead]

FramesLinked ==
  step.op # "Err" =>
    /\ \A d \in 1 .. Len(stack) :
         /\ Awaiting(d) => stack[d].refsRead = Len(stack[d].collected) + 1
         /\ ~ Awaiting(d) => stack[d].refsRead = Len(stack[d].collected)
         /\ stack[d].refsRead <= Len(Refs(stack[d]))
    /\ \A d \in 1 .. Len(stack) - 1 : stack[d + 1].index = Refs(stack[d])[stack[d].refsRead]
    /\ stack # << >> => stack[1].index = doc.top
    /\ step.op = "Resolve" => step.index = Asked

(* A child that was collected is the value of the object its reference     *)
(* names, at its own position: no child is lost, doubled or shifted by the *)
(* iterative loop, however objects are shared.                             *)
CollectedFaithful ==
  \A d \in 1 .. Len(stack) : \A k \in 1 .. Len(stack[d].collected) :
    LET ref == Refs(stack[d])[k] IN
      ref \in DOMAIN objects /\ stack[d].collected[k] = objects[ref]

(* Every finished object is what its marker says of the finished objects   *)
(* it refers to, so the memo is a solution of the equations that define    *)
(* the document, whatever the order it was filled in.                      *)
FaithfulMemo(d, memo) ==
  \A i \in DOMAIN memo : Solvable(d, i, memo) /\ memo[i] = ValueOf(d, i, memo)

MemoFaithful == FaithfulMemo(doc, objects)

(* The value on its way to a frame, or out, is the finished value of the   *)
(* object that was asked for.                                              *)
DeliveredFaithful ==
  /\ step.op = "Deliver" => Asked \in DOMAIN objects /\ step.value = objects[Asked]
  /\ step.op = "Ok" =>
       /\ stack = << >>
       /\ doc.top \in DOMAIN objects
       /\ step.value = objects[doc.top]

(* The loop's whole bookkeeping: its frames hang together, and what they   *)
(* have collected and what is on its way to them is what their references  *)
(* asked for, in whatever order objects are shared and finished.           *)
FramesFaithful == FramesLinked /\ CollectedFaithful /\ DeliveredFaithful

(* A finished object is never changed or forgotten: a value delivered from *)
(* the memo is the one an earlier reference to the object received.        *)
MemoStable ==
  [][\A i \in DOMAIN objects : i \in DOMAIN objects' /\ objects'[i] = objects[i]]_vars

(* Resolution ends, on cyclic and shared references too. *)
Terminates == <>Returned

(* The parser implements the order-free account of an object table. *)
outcome == CASE step.op = "Ok" -> "ok" [] step.op = "Err" -> "error" [] OTHER -> "running"

Graph == INSTANCE ObjectGraph
ImplementsObjectGraph == Graph!Spec

-----------------------------------------------------------------------------
(***************************************************************************)
(* The recursive traversal that the comment on resolve_object says the     *)
(* loop matches exactly (parser.rs:159-163), one call at a time.  A call   *)
(* resolves an object below the open containers at the offsets of path,    *)
(* or the references of a list after those collected; memo holds the       *)
(* finished objects, to which a call adds those it finishes in the         *)
(* "memoized" mode, and not in the "plain" one.  It returns the memo it    *)
(* leaves and how it ended.                                                *)
(***************************************************************************)
ObjectCall(index, path, memo, mode) ==
  [kind |-> "object", index |-> index, path |-> path, memo |-> memo, mode |-> mode]
ListCall(refs, path, memo, mode, collected) ==
  [kind |-> "list", refs |-> refs, path |-> path, memo |-> memo, mode |-> mode,
   collected |-> collected]
Outcome(memo, out) == [memo |-> memo, out |-> out]
Failed(o) == o.out.op = "Err"

(* An object is finished with its value. *)
Finish(c, memo, value) ==
  Outcome(IF c.mode = "memoized" THEN With(memo, c.index, value) ELSE memo, Return(value))

(* A call for an unread container that may be entered calls its list, and  *)
(* one for a list with references left calls the next object, and then the *)
(* list without it.                                                        *)
IsBelow(c, off) == \E k \in 1 .. Len(c.path) : c.path[k] = off

Enters(d, c) ==
  /\ HasMarker(d, c.index) /\ c.index \notin DOMAIN c.memo
  /\ IsContainer(Marker(d, c.index)) /\ Marker(d, c.index).sound
  /\ Len(c.path) < MaxParseDepth
  /\ ~ IsBelow(c, d.offset[c.index])

ContentsCall(d, c) ==
  ListCall(Marker(d, c.index).refs, Append(c.path, d.offset[c.index]), c.memo, c.mode, << >>)

Asks(d, c) == d.refSizeLegal /\ Len(c.collected) # Len(c.refs)

ChildCall(c)   == ObjectCall(c.refs[Len(c.collected) + 1], c.path, c.memo, c.mode)
RestCall(c, o) == ListCall(c.refs, c.path, o.memo, c.mode, Append(c.collected, o.out.value))

(* What the calls that make no call return, and a container's call, once   *)
(* its list has returned o.                                                *)
ObjectAnswer(d, c) ==
  IF c.index \notin Indices(d) THEN Outcome(c.memo, Error("InvalidObject"))
  ELSE IF c.index \in DOMAIN c.memo THEN Outcome(c.memo, Return(c.memo[c.index]))
  ELSE IF ~ d.entrySizeLegal THEN Outcome(c.memo, Error("IllegalIntegerSize"))
  ELSE IF d.offset[c.index] \notin Offsets(d) THEN Outcome(c.memo, Error("BeyondTable"))
  ELSE IF IsContainer(Marker(d, c.index))
       THEN Outcome(c.memo, Error(
              IF Len(c.path) >= MaxParseDepth THEN "MaxDepthExceeded"
              ELSE IF IsBelow(c, d.offset[c.index]) THEN "SelfReferential" ELSE "BadContainer"))
  ELSE IF Marker(d, c.index).sound THEN Finish(c, c.memo, Marker(d, c.index).value)
  ELSE Outcome(c.memo, Error("BadScalar"))

ListAnswer(c) ==
  Outcome(c.memo, IF Len(c.collected) = Len(c.refs) THEN Return(c.collected)
                  ELSE Error("IllegalIntegerSize"))

Closed(d, c, o) ==
  IF Failed(o) THEN o
  ELSE IF Buildable(Marker(d, c.index), o.out.value)
       THEN Finish(c, o.memo, Build(Marker(d, c.index), o.out.value))
  ELSE Outcome(o.memo, Error("NonStringKey"))

(* The call resolve_object starts from. *)
WholeCall(d, mode) == ObjectCall(d.top, << >>, << >>, mode)

=============================================================================
