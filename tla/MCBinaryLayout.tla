--------------------------- MODULE MCBinaryLayout ---------------------------
(***************************************************************************)
(* BinaryLayout on a small machine: bytes of two bits that a u8 of sixteen *)
(* values counts, words of four bytes.  The sizes include ones that wrap   *)
(* the shift of the reference size, ones no integer has, and counts whose  *)
(* product with them wraps the word.                                       *)
(***************************************************************************)
EXTENDS BinaryLayout

MCValues == {0, 1, 2, 3, 5, 255}

MCTrailers ==
  [offsetIntSize : {0, 1, 2, 3, 4, 5, 8, 15},
   objectRefSize : {0, 1, 2, 3, 8, 9},
   numObjects    : {0, 1, 2, 3, 4, 16, 17, 32, 52, 64, 128, 255},
   topObject     : {0, 3, 255},
   table         : {0, 2, 3, 4, 7, 9, 255},
   start         : {4, 7, 11}]

=============================================================================
