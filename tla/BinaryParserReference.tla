------------------------ MODULE BinaryParserReference ------------------------
(***************************************************************************)
(* The recursive traversal of a binary document, with its memo and without *)
(* it: the calls of BinaryParser, each made as soon as it is asked for.    *)
(* For TLC only; BinaryParser_proofs states the same traversal by rules.   *)
(***************************************************************************)
EXTENDS BinaryParser, ValueNesting, FiniteSets

(* Resolves call c of document d. *)
RECURSIVE Traverse(_, _)
Traverse(d, c) ==
  IF c.kind = "object"
  THEN IF Enters(d, c) THEN Closed(d, c, Traverse(d, ContentsCall(d, c))) ELSE ObjectAnswer(d, c)
  ELSE IF Asks(d, c)
       THEN LET child == Traverse(d, ChildCall(c)) IN
              IF Failed(child) THEN child ELSE Traverse(d, RestCall(c, child))
       ELSE ListAnswer(c)

-----------------------------------------------------------------------------
(* The loop returns what the recursive traversal returns, the same value   *)
(* or the same error, and leaves the same memo: the claim of the comment   *)
(* on resolve_object.                                                      *)
MatchesRecursion ==
  Returned => LET reference == Traverse(doc, WholeCall(doc, "memoized")) IN
    step = reference.out /\ objects = reference.memo

(* The memo only saves work: resolving a shared object again would give    *)
(* the same value or error, except that it may meet the depth cap, which   *)
(* the memo passes by.                                                     *)
MemoOnlySavesWork ==
  Returned => Traverse(doc, WholeCall(doc, "plain")).out \in {step, Error("MaxDepthExceeded")}

(* parser.rs:22 and depth.rs:6: a document nested beyond the cap is        *)
(* answered with MaxDepthExceeded, so a value that is returned nests no    *)
(* deeper.                                                                 *)
NestingWithinCap == step.op = "Ok" => Nesting(step.value) <= MaxParseDepth

=============================================================================
