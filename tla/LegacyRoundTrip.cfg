SPECIFICATION Spec
CONSTANTS
  Calls <- MCCalls
  Inputs <- MCInputs
  Fl <- MCFl
  Scale <- MCScale
  Precision = 1
  IntMax = 2047
  RegCoeffs <- MCRegCoeffs
  Unset = Unset
INVARIANTS
  Lockstep
  TypeInAlphabet
  PredictsFromNeighbours
PROPERTIES
  ImplementsCodec
  OutputCompletes
