SPECIFICATION FairSpec
CONSTANTS
  Documents <- AllDocuments
  MaxParseDepth = 3
INVARIANTS
  TypeOK
  NeverReentered
  FramesFaithful
  MemoFaithful
  MatchesRecursion
  MemoOnlySavesWork
PROPERTIES
  Terminates
  ImplementsObjectGraph
