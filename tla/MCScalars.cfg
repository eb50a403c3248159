SPECIFICATION Spec
CONSTANTS
  Dates <- MCDates
  Nanos <- MCNanos
  Offsets <- MCOffsets
  Beginnings <- MCBeginnings
  Keys <- MCKeys
  MaxText = 8
  MaxTrips = 3
  IntMin <- MCIntMin
  Word = 8
  MaxDecimal = 7
  MinDecimal <- MCMinDecimal
  MantBits = 3
  ExpBits = 3
  WordDigits = 2
  Precision = 7
  Grid = 1024
  NanosPerSecond = 24
  AppleEpochSeconds = 20
  FirstNano <- MCFirstNano
  LastNano = 1200
INVARIANTS
  DatesSurvive
  BinaryDatesSettle
  HexFloatsAreNearest
  UnderscoresOnlyGroup
  DecimalsReadBack
  IntegersAgree
CHECK_DEADLOCK FALSE
