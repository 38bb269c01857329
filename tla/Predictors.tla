----------------------------- MODULE Predictors -----------------------------
(***************************************************************************)
(* The predictors of the knl kernels: Lorenzo stencils over the prediction *)
(* buffer and polynomials in the position inside the block.                *)
(***************************************************************************)
EXTENDS BlockGeometry

\* The weight of the neighbour (dx, dy, dz) back in the mixed difference that
\* prediction_dim and the number of layers select: differences along z only,
\* along x and z, or along all three dimensions.
Difference(two, n) == IF two THEN <<1, -2, 1>>[n + 1] ELSE <<1, -1, 0>>[n + 1]
Still(n) == IF n = 0 THEN 1 ELSE 0
Lorenzo1d(two, dx, dy, dz) == Still(dx) * Still(dy) * Difference(two, dz)
Lorenzo2d(two, dx, dy, dz) == Difference(two, dx) * Still(dy) * Difference(two, dz)
Lorenzo3d(two, dx, dy, dz) == Difference(two, dx) * Difference(two, dy) * Difference(two, dz)
Weight(dim, two, dx, dy, dz) ==
  CASE dim = 1 -> Lorenzo1d(two, dx, dy, dz)
    [] dim = 2 -> Lorenzo2d(two, dx, dy, dz)
    [] OTHER   -> Lorenzo3d(two, dx, dy, dz)

\* The value that makes the mixed difference vanish; neighbours are numbered
\* 9 * dx + 3 * dy + dz.
LorenzoPrediction(size, layer, dim, two, buffer, c) ==
  LET term(dx, dy, dz) ==
        LET w == Weight(dim, two, dx, dy, dz)
        IN  IF w = 0 THEN 0
            ELSE w * buffer[BufAt(size, layer, c) - dx * BufferDim0(size, layer)
                              - dy * BufferDim1(size, layer) - dz]
      total[n \in 0..26] ==
        IF n = 0 THEN 0 ELSE total[n - 1] + term(n \div 9, (n \div 3) % 3, n % 3)
  IN  -total[26]

RegressionPrediction(p, c) == p[1] * c.ii + p[2] * c.jj + p[3] * c.kk + p[4]

PolyPrediction(p, c) ==
  p[1] + p[2] * c.ii + p[3] * c.jj + p[4] * c.kk
    + p[5] * c.ii * c.ii + p[6] * c.ii * c.jj + p[7] * c.ii * c.kk
    + p[8] * c.jj * c.jj + p[9] * c.jj * c.kk + p[10] * c.kk * c.kk
=============================================================================
