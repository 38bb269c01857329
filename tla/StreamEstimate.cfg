SPECIFICATION Spec
CONSTANTS
  Messages <- NoiseMessages
  NumElements = 1000
  ParamsBytes = 96
  Estimate <- MCEstimate
  BlockBytes = 128
  WindowBytes = 300
INVARIANTS
  FitsEstimate
