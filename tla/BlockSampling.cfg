SPECIFICATION Spec
CONSTANTS
  Shapes <- MCShapes
  Errors <- MCErrors
  Ratio <- MCRatio
INVARIANTS
  TypeOK
  ReadsInside
  BufferedBeforeUse
  ChoosesBest
PROPERTIES
  SamplingEnds
