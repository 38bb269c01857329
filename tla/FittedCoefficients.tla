------------------------- MODULE FittedCoefficients -------------------------
(***************************************************************************)
(* The channel of the regression coefficients with the linear fit in       *)
(* place: what the pass writes into the next slot is the fit of a block.   *)
(* Blocks at the ends of the array are smaller than the others.            *)
(***************************************************************************)
EXTENDS RegressionCoefficients, RegressionFit

CONSTANTS
  Samples,      (* blocks: the edges, and the array from the first element *)
                (* of the block on                                         *)
  Dim0, Dim1,   (* the elements of a slice and of a row of the array       *)
  Whole         (* the points of the lattice from 0 to 1                   *)

\* enable_regression: the linear regression is for edges of two at least.
Enabled(s) == \A edge \in {s.x, s.y, s.z} : edge >= 2

\* p is, on the lattice, what compute_regression_coeffcients_3d makes of a block.
IsFitOf(p, b) ==
  \A j \in Coefficient :
    (Unit(b.shape) \div Whole) * p[j] = LinearFit(b.data, b.shape, Dim0, Dim1)[j]

\* Every fit is that of a block, in an array of integers.
Fitted ==
  /\ Num = 4 /\ Whole \in Nat \ {0} /\ Dim0 \in Nat /\ Dim1 \in Nat
  /\ \A b \in Samples :
       /\ b.shape.x \in Nat /\ b.shape.y \in Nat /\ b.shape.z \in Nat /\ Enabled(b.shape)
       /\ Unit(b.shape) % Whole = 0
       /\ \A n \in Elements(b.shape) :
            b.data[I(b.shape, n) * Dim0 + J(b.shape, n) * Dim1 + K(b.shape, n)] \in Int
  /\ \A p \in Fits : \E b \in Samples : IsFitOf(p, b)

\* The coefficients of number n of the blocks that selected the regression.
FittedBlock(n) == [j \in Coefficient |-> fitted[Num * n + j + 1]]

\* The coefficients of every block that selected the regression are the least
\* squares fit of a block, wherever it lies in its rows and slices: the walk of
\* the fit by pointer bumps reads the block's own elements, and no later fit
\* replaces the coefficients between fit and selection.
FitsAreLeastSquares ==
  \A n \in 0 .. Len(fitted) \div Num - 1 :
    \E b \in Samples : LeastSquares(b.data, b.shape, Dim0, Dim1, FittedBlock(n), Whole)
=============================================================================
