SPECIFICATION Spec
CONSTANTS
  Calls <- MCCalls
  Inputs <- MCInputs
  Fl <- MCFl
  Scale <- MCScale
  Precision = 1
  IntMax = 63
  RegCoeffs <- MCRegCoeffs
  RegPolyCoeffs <- MCRegPolyCoeffs
  Unset = Unset
INVARIANT TypeInAlphabet
