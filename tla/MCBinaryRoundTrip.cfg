SPECIFICATION RoundTripSpec
CONSTANTS
  Roots <- MCRoots
  Crc <- MCCrc
  Max8 = 3
  Max16 = 7
  Max32 = 15
  Word = 64
  MaxParseDepth = 3
INVARIANTS
  TableFaithful
  RoundTrip
