CONSTANTS
  Builds <- CompressedBuild
  Fetched <- MCFetched
  Operands <- MCOperands

SPECIFICATION Spec

INVARIANTS
  CastIsExact
