SPECIFICATION SessionSpec
CONSTANTS
  Documents <- MCDocuments
  Builds <- MCBuilds
  HasMagic <- MCHasMagic
  BinaryParse <- MCBinaryParse
  XmlParse <- MCXmlParse
  TextParse <- MCTextParse
  Maps <- MCMaps
  MaxFaults = 2
  Values <- MCValues
  Targets <- MCTargets
  WriterBuilds <- MCBuilds
  Indents <- MCIndents
  Serializes <- MCSerializes
  HoldsNaN <- MCHoldsNaN
  Pieces <- MCPieces
  MaxCalls = 2
INVARIANTS
  FeaturesOnlyAdd
