SPECIFICATION Spec
CONSTANTS
  Num = 4
  Blocks = 3
  Capacity = 6
  Fits <- MCFits
  Precisions <- MCPrecisions
  Fl <- MCFl
  Scale <- MCScale
  Samples <- MCSamples
  Dim0 = 12
  Dim1 = 3
  Whole = 24
INVARIANTS
  TypeOK
  RecoversCoefficients
  CoefficientsAccurate
  FitsAreLeastSquares
PROPERTIES
  AllRecovered
