------------------------- MODULE TextParserReference -------------------------
(***************************************************************************)
(* The recursive parse: the calls of TextParser, each made as soon as it   *)
(* is asked for.  For TLC only; TextParser_proofs states the same parse by *)
(* rules.                                                                  *)
(***************************************************************************)
EXTENDS TextParser

RECURSIVE Parse(_, _)
Parse(d, c) ==
  IF Continues(d, c) THEN Parse(d, Continuation(d, c))
  ELSE IF Asks(d, c)
       THEN LET value == Parse(d, ChildCall(c)) IN
              IF Resumes(d, c, value) THEN Parse(d, RestCall(d, c, value)) ELSE Settled(d, c, value)
       ELSE Answer(d, c)

-----------------------------------------------------------------------------
(* The walker returns what the recursive parse returns, the same value in  *)
(* the same dialect or the same error, and where that error is: the claim  *)
(* of the comment on run.                                                  *)
MatchesRecursion ==
  Returned => Parse(input, DocumentCall) = Outcome(step, pos, format)

(* parse, parser.rs:34: every malformed document is refused; what follows  *)
(* the root makes one malformed (parser.rs:249).                           *)
GarbageRefused == step.op = "Ok" => input[Len(input)] = Eof

=============================================================================
