SPECIFICATION RoundTripSpec
CONSTANTS
  Tokens <- MCTokens
  MaxTokens = 5
  Nesting <- MCNesting
  MaxNesting = 7
  Writings <- MCWritings
  MaxParseDepth = 3
  UidKey <- Key
  Word = 8
  ParseU64 <- MCParseU64
  Decoded <- decoded
  Wide <- MCWide
  Base64 <- MCBase64
  IntMin <- MCIntMin
  MaxDecimal = 7
  MinDecimal <- MCMinDecimal
  MantBits = 3
  ExpBits = 3
  WordDigits = 2
INVARIANTS
  RetryOnlyBeforeRecognition
  MatchesRecursion
  DepthBalanced
  FramesTrackMarkup
  RoundTrip
PROPERTIES
  PoisonEndsReading
  Terminates
