SPECIFICATION Spec
CONSTANTS
  Shapes <- ReadmeShapes
  Errors <- MCErrors
  Ratio <- TunerRatio
INVARIANTS
  SomethingSampled
