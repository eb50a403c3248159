------------------------------ MODULE TextTables ------------------------------
(***************************************************************************)
(* The character classes of the text codec (src/src/text/tables.rs), and   *)
(* the code points of the characters that texts are made of.  For TLC      *)
(* only.                                                                   *)
(***************************************************************************)
LOCAL INSTANCE Integers
LOCAL INSTANCE Sequences

CONSTANTS
  Wide,     (* the characters above U+007F, with their code points *)
  Base64    (* some bytes with their base64 form *)

Printable == <<" ", "!", "\"", "#", "$", "%", "&", "'", "(", ")", "*", "+", ",", "-", ".", "/",
  "0", "1", "2", "3", "4", "5", "6", "7", "8", "9", ":", ";", "<", "=", ">", "?",
  "@", "A", "B", "C", "D", "E", "F", "G", "H", "I", "J", "K", "L", "M", "N", "O",
  "P", "Q", "R", "S", "T", "U", "V", "W", "X", "Y", "Z", "[", "\\", "]", "^", "_",
  "grave", "a", "b", "c", "d", "e", "f", "g", "h", "i", "j", "k", "l", "m", "n", "o",
  "p", "q", "r", "s", "t", "u", "v", "w", "x", "y", "z", "{", "|", "}", "~">>
Controls  == <<"NUL", "SOH", "BEL", "BS", "\t", "\n", "VT", "FF", "\r">>
ControlAt == <<0, 1, 7, 8, 9, 10, 11, 12, 13>>

Place(c, in) == CHOOSE k \in DOMAIN in : in[k] = c
Ascii  == {Printable[k] : k \in DOMAIN Printable} \cup {Controls[k] : k \in DOMAIN Controls}
Chars  == Ascii \cup DOMAIN Wide
Code   == [c \in Chars |-> IF c \in DOMAIN Wide THEN Wide[c]
                           ELSE IF \E k \in DOMAIN Controls : Controls[k] = c THEN ControlAt[Place(c, Controls)]
                           ELSE Place(c, Printable) + 31]
(* A character no text has stands for the other code points. *)
CharOf(n) == IF \E c \in Chars : Code[c] = n THEN CHOOSE c \in Chars : Code[c] = n ELSE "other"

(* The bits of the first two words, sixteen at a time; the words above     *)
(* them are all ones or all zeros.                                         *)
CharSet(words, above) ==
  {c \in Chars : /\ Code[c] < 256
                 /\ IF Code[c] >= 128 THEN above
                    ELSE (words[(Code[c] \div 16) + 1] \div (2 ^ (Code[c] % 16))) % 2 = 1}

GS_QUOTABLE  == CharSet(<<\hffff, \hffff, \h1385, \h7800, \h0000, \h3800, \h0001, \ha800>>, TRUE)
OS_QUOTABLE  == CharSet(<<\hffff, \hffff, \h7fef, \hf400, \h0001, \hf800, \h0001, \hf800>>, TRUE)
WHITESPACE   == CharSet(<<\h3f00, \h0000, \h0001, \h0000, \h0000, \h0000, \h0000, \h0000>>, FALSE)
NEWLINE      == CharSet(<<\h2400, \h0000, \h0000, \h0000, \h0000, \h0000, \h0000, \h0000>>, FALSE)
BASE64_VALID == CharSet(<<\h0000, \h0000, \h8800, \h23ff, \hfffe, \h07ff, \hfffe, \h07ff>>, FALSE)

=============================================================================
