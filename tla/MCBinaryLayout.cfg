SPECIFICATION Spec
CONSTANTS
  Trailers <- MCTrailers
  Values <- MCValues
  WordMax = 255
  ByteBits = 2
  ByteRange = 16
  WordBytes = 4
  HeaderLen = 3
  TrailerLen = 4
  EscapeNibble = 3
INVARIANTS
  AcceptedIsSane
  ReadsStayInRegion
