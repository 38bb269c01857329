---------------------------- MODULE RegressionFit ----------------------------
(***************************************************************************)
(* The linear fit of a block, compute_regression_coeffcients_3d, and the   *)
(* row of the precomputed table that the polynomial fit of a block uses.   *)
(*                                                                         *)
(* A block s has edges x, y, z; data maps every offset from the first      *)
(* element of the block, in an array with dim0 elements a slice and dim1 a *)
(* row, to an integer.  Elements of the block are numbered from 0 in the   *)
(* order of the loops.  Sums are exact: the rounding of the float          *)
(* accumulators is left to Fl of RegressionCoefficients.                   *)
(*                                                                         *)
(* A definition whose name ends in an underscore and a word is a slip in   *)
(* the definition that follows it, which no specification uses.            *)
(***************************************************************************)
EXTENDS Integers, Functions

I(s, n) == n \div (s.y * s.z)
J(s, n) == (n \div s.z) % s.y
K(s, n) == n % s.z
Elements(s) == 0 .. s.x * s.y * s.z - 1

Bump_wholeSlice(s, dim0, dim1, n) ==
  1 + (IF K(s, n) = 0 THEN dim1 - s.z ELSE 0)
    + (IF K(s, n) = 0 /\ J(s, n) = 0 THEN dim0 ELSE 0)
\* What the pointer moves on by before element n: one, the rest of the row of
\* the array, and, past the last row of the block, the rest of its slice.
Bump(s, dim0, dim1, n) ==
  1 + (IF K(s, n) = 0 THEN dim1 - s.z ELSE 0)
    + (IF K(s, n) = 0 /\ J(s, n) = 0 THEN dim0 - s.y * dim1 ELSE 0)

\* cur_data_pos at every element of the block.
DataPos(s, dim0, dim1) ==
  LET pos[n \in Elements(s)] == IF n = 0 THEN 0 ELSE pos[n - 1] + Bump(s, dim0, dim1, n)
  IN  pos

\* f, fx, fy and fz: the sums of the data, plain and by position.
Sums(data, s, dim0, dim1) ==
  LET pos == DataPos(s, dim0, dim1)
  IN  [f  |-> SumFunction([n \in Elements(s) |-> data[pos[n]]]),
       fx |-> SumFunction([n \in Elements(s) |-> data[pos[n]] * I(s, n)]),
       fy |-> SumFunction([n \in Elements(s) |-> data[pos[n]] * J(s, n)]),
       fz |-> SumFunction([n \in Elements(s) |-> data[pos[n]] * K(s, n)])]

\* The coefficients are fractions of this, in a block of edges of two at least.
Unit(s) == s.x * s.y * s.z * (s.x * s.x - 1) * (s.y * s.y - 1) * (s.z * s.z - 1)

\* The four coefficients, slopes along x, y and z and the value at the first
\* element, in fractions of the unit.
LinearFit(data, s, dim0, dim1) ==
  LET t  == Sums(data, s, dim0, dim1)
      mx == s.x * s.x - 1
      my == s.y * s.y - 1
      mz == s.z * s.z - 1
      x  == (2 * t.fx - t.f * (s.x - 1)) * 6 * my * mz
      y  == (2 * t.fy - t.f * (s.y - 1)) * 6 * mx * mz
      z  == (2 * t.fz - t.f * (s.z - 1)) * 6 * mx * my
  IN  [j \in 0 .. 3 |->
        CASE j = 0 -> x
          [] j = 1 -> y
          [] j = 2 -> z
          [] j = 3 -> t.f * mx * my * mz
                        - ((s.x - 1) * x + (s.y - 1) * y + (s.z - 1) * z) \div 2]

\* The normal equations: what is left of the data after the fit p, in fractions
\* of the unit, has no mean and no slope.  The data is read at its address.
LeastSquares(data, s, dim0, dim1, p, unit) ==
  LET rest == [n \in Elements(s) |->
                 unit * data[I(s, n) * dim0 + J(s, n) * dim1 + K(s, n)]
                   - (p[0] * I(s, n) + p[1] * J(s, n) + p[2] * K(s, n) + p[3])]
  IN  /\ SumFunction(rest) = 0
      /\ SumFunction([n \in Elements(s) |-> rest[n] * I(s, n)]) = 0
      /\ SumFunction([n \in Elements(s) |-> rest[n] * J(s, n)]) = 0
      /\ SumFunction([n \in Elements(s) |-> rest[n] * K(s, n)]) = 0

----------------------------------------------------------------------------
COEF_AUX_MAX_BLOCK == 17

\* The row of the table for a block, by mixed digits; the table has room for
\* edges up to COEF_AUX_MAX_BLOCK and is filled for edges from 3 to 16.
CoefAuxListIdx(s) == (s.x * COEF_AUX_MAX_BLOCK + s.y) * COEF_AUX_MAX_BLOCK + s.z
CoefAuxListSize == (COEF_AUX_MAX_BLOCK + 1) * (COEF_AUX_MAX_BLOCK + 1) * (COEF_AUX_MAX_BLOCK + 1)
CoefAuxShapes == [x : 3 .. 16, y : 3 .. 16, z : 3 .. 16]
=============================================================================
