------------------------------- MODULE Session --------------------------------
(***************************************************************************)
(* A decoder over a document that was found, or over what an encoder has   *)
(* written by then: whole documents one after the other, and documents     *)
(* that a failing writer cut off.  Each is of a build of its own.          *)
(***************************************************************************)
EXTENDS Decoder, Encoder

VARIABLES
  phase   (* "writing", then "reading" *)

sessionVars == <<vars, encoderVars, phase>>

SessionInit ==
  /\ EncoderInit
  /\ \/ phase = "reading" /\ Init
     \/ /\ phase = "writing"
        /\ document = << >> /\ features = Codecs /\ rest = << >>
        /\ buffer = {} /\ format = {} /\ answer = NoAnswer /\ faults = 0

Write == phase = "writing" /\ EncoderNext /\ UNCHANGED <<vars, phase>>

(* The encoder is gone, and what it wrote is opened. *)
Open ==
  /\ phase = "writing" /\ Idle /\ calls # << >>
  /\ phase' = "reading"
  /\ document' = sink /\ rest' = sink
  /\ features' \in Builds
  /\ UNCHANGED <<encoderVars, buffer, format, answer, faults>>

Read == phase = "reading" /\ Next /\ UNCHANGED <<encoderVars, phase>>

SessionNext == Write \/ Open \/ Read

SessionSpec == SessionInit /\ [][SessionNext]_sessionVars

=============================================================================
