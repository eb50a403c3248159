SPECIFICATION FairSpec
CONSTANTS
  Documents <- ChainDocuments
  MaxParseDepth = 3
INVARIANTS
  NestingWithinCap
