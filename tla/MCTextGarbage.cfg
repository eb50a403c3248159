SPECIFICATION RoundTripSpec
CONSTANTS
  Lexemes <- MCLexemes
  Writings = {}
  MaxLexemes = 7
  MaxParseDepth = 3
  UidKey <- Key
  Word = 8
  ParseU64 <- MCParseU64
  Wide <- MCWide
  Base64 <- MCBase64
  IntMin <- MCIntMin
  MaxDecimal = 7
  MinDecimal <- MCMinDecimal
  MantBits = 3
  ExpBits = 3
  WordDigits = 2
INVARIANTS
  GarbageRefused
