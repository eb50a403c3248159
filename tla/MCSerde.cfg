SPECIFICATION SerdeSpec
CONSTANTS
  UidNewtype = "$uid"
  DateNewtype = "$date"
  ByteOf <- MCByteOf
  MaxParseDepth = 2
  Values <- MCValues
  Leaves <- MCLeaves
  Openings <- MCOpenings
  KeyCalls <- MCKeyCalls
  MaxCalls = 6
  IntMin <- MCIntMin
  Word = 8
  MaxDecimal = 7
  MinDecimal <- MCMinDecimal
  MantBits = 3
  ExpBits = 3
  WordDigits = 2
INVARIANTS
  BuildersHoldWhatWasGiven
  PartsAccountedFor
  DepthCountsContainers
  RoundTrip
