SPECIFICATION Spec
CONSTANTS
  Shapes <- MCShapes
  PredIndices = {0, 1, 4, 9}
  PredBound = 9
  Diffs <- MCDiffs
  DiffBound = 9
  QuantIntvMeanCapacity = 6
  QuantIntvSampleDistance = 3
  QuantIntvSampleCapacity = 4
  QuantIntvAccThreshold <- MCThreshold
  FewestIntervals = 4
INVARIANTS
  ReadsInside
  CapacityCovers
  MeanSupported
PROPERTIES
  WalksEnd
