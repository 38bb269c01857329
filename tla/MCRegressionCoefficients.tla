---------------------- MODULE MCRegressionCoefficients ----------------------
(* The linear regression over blocks of 2 x 3 x 2, and of 2 x 2 x 2 at the  *)
(* end of a slice, in an array of 3 x 4 x 3: the fits of a ramp, of a       *)
(* step, of a peak and of a rough block, in twenty-fourths, with a wider    *)
(* precision for the last coefficient.                                      *)
EXTENDS FiniteSets, FittedCoefficients

MCBlock == [x |-> 2, y |-> 3, z |-> 2]
MCDataOf(value(_, _, _)) ==
  [a \in 0 .. 35 |-> value(a \div 12, (a \div 3) % 4, a % 3)]
MCStep == MCDataOf(LAMBDA x, y, z : IF x = y THEN 3 ELSE 0)
MCData ==
  {MCDataOf(LAMBDA x, y, z : x - z), MCStep,
   MCDataOf(LAMBDA x, y, z : IF <<x, y, z>> = <<0, 0, 0>> THEN 5 ELSE 0),
   MCDataOf(LAMBDA x, y, z : IF x = y THEN 2 * z ELSE x)}
MCSamples ==
  {[shape |-> MCBlock, data |-> data] : data \in MCData}
    \cup {[shape |-> [MCBlock EXCEPT !.y = 2], data |-> MCStep]}

\* The fit of a block of those shapes is a whole number of twenty-fourths.
MCFitOf(b) ==
  [j \in 0 .. 3 |-> LinearFit(b.data, b.shape, 12, 3)[j] \div (Unit(b.shape) \div 24)]
MCFits == {MCFitOf(b) : b \in MCSamples}
MCPrecisions == [j \in Coefficient |-> IF j < Num - 1 THEN 1 ELSE 3]

\* Rounding to nearest: integers up to 8 are exact, then only multiples of 4.
MCFl(x) == IF Abs(x) <= 8 THEN x ELSE 4 * ((x + 2) \div 4)
\* recip_precision is inexact: at some multiples the product falls one short.
MCScale(j, x) == x \div MCPrecisions[j] - (IF x > 4 /\ x % 3 = 0 THEN 1 ELSE 0)

\* The fits are those of the samples.
ASSUME Fitted

\* Rows of the table do not overlap.
ASSUME /\ \A s \in CoefAuxShapes : CoefAuxListIdx(s) < CoefAuxListSize
       /\ Cardinality({CoefAuxListIdx(s) : s \in CoefAuxShapes}) = Cardinality(CoefAuxShapes)
=============================================================================
