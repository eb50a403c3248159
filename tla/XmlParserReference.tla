------------------------- MODULE XmlParserReference -------------------------
(***************************************************************************)
(* The recursive parse: the calls of XmlParser, each made as soon as it is *)
(* asked for.  For TLC only; XmlParser_proofs states the same parse by     *)
(* rules.                                                                  *)
(***************************************************************************)
EXTENDS XmlParser

RECURSIVE Parse(_, _)
Parse(d, c) ==
  IF Continues(d, c) THEN Parse(d, Continuation(d, c))
  ELSE IF Asks(d, c)
       THEN LET child == Parse(d, ChildCall(d, c)) IN
              IF Resumes(c, child) THEN Parse(d, RestCall(d, c, child)) ELSE Settled(c, child)
       ELSE Answer(d, c)

-----------------------------------------------------------------------------
(* The walker returns what the recursive parse returns, the same value or  *)
(* the same error, having read the same tokens and with the same failure   *)
(* deferred: the claim of the comment on parse_element.                    *)
MatchesRecursion ==
  Returned => Parse(input, DocumentCall(0)) = Outcome(step, Len(input), poison)

=============================================================================
