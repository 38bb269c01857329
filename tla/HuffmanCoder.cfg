SPECIFICATION CoderSpec
CONSTANTS
  Arrays <- MCArrays
  MemoryBits = 90
  ByteBits = 3
  WordBytes = 2
  Narrow = 3
  Middle = 7
  Wide = 15
INVARIANTS
  OptimalCode
  PackedCodes
  ReadsInsideSegment
PROPERTIES
  DecodesAll
