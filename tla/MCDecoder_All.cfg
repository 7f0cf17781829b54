CONSTANTS
  Builds <- AllBuilds
  Fetched <- MCFetched
  Operands <- MCOperands

SPECIFICATION Spec

INVARIANTS
  VisitorAndCastAgree
  ConstructedIsDecoded
  CompressedOffsetsExact
  CompressedAsManual
  CompressedLowBitsExact
