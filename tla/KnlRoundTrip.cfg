SPECIFICATION Spec
CONSTANTS
  Calls <- MCCalls
  Inputs <- MCInputs
  Fl <- MCFl
  Scale <- MCScale
  Precision = 1
  IntMax = 2047
  RegCoeffs <- MCRegCoeffs
  RegPolyCoeffs <- MCRegPolyCoeffs
  Unset = Unset
INVARIANTS
  TypeOK
  Lockstep
  ErrorBound
  TypeInAlphabet
  LaneFits
PROPERTIES
  ImplementsCodec
  OutputCompletes
