SPECIFICATION Spec
CONSTANTS
  Shapes <- MCShapes
  Layers = {1, 2}
INVARIANTS
  PointersAgree
  EachElementOnce
  StencilReadsNeighbours
