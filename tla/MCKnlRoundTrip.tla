--------------------------- MODULE MCKnlRoundTrip ---------------------------
(* Small arrays, a 4-bit T and every choice of predictor.                   *)
EXTENDS KnlRoundTrip

\* Rounding to nearest: integers up to 8 are exact, then only multiples of 4.
Rounded == [x \in -999..999 |-> IF Abs(x) <= 8 THEN x ELSE 4 * ((x + 2) \div 4)]
MCFl(x) == Rounded[x]

\* recip_precision is inexact: at some multiples the product falls one short.
Scaled == [x \in 0..999 |-> IF x > 4 /\ x % 3 = 0 THEN x \div Precision - 1 ELSE x \div Precision]
MCScale(x) == Scaled[x]

MCRegCoeffs == {<<1, 0, 2, 1>>}
MCRegPolyCoeffs == {<<1, 0, 1, 0, 2, 0, 0, 1, 0, 0>>}

Call(r1, r2, r3, bs, dim, two, reg, mean, cap) ==
  [size |-> DSize_3d(r1, r2, r3, bs), layer |-> IF two THEN 2 ELSE 1,
   dim |-> dim, two |-> two, linear |-> reg, poly |-> reg,
   use_mean |-> mean # 0, mean |-> mean, capacity |-> cap]

MCCalls ==
  {Call(1, 1, 5, 2, 3, FALSE, FALSE, m, 6) : m \in {0, 2}}
  \cup {Call(3, 1, 2, 2, dim, FALSE, FALSE, 0, 4) : dim \in {2, 3}}
  \cup {Call(2, 2, 2, 2, 3, FALSE, TRUE, 2, 6)}
  \cup {Call(r1, 3, r3, r3, dim, two, TRUE, 2, 8) :
          r1 \in {3, 4}, r3 \in {2, 3}, dim \in 1..3, two \in BOOLEAN}

\* Every array over a few values for the smallest sizes, patterns for others.
MCInputs(k) ==
  LET n == k.size.num_elements
      cells == 0 .. n - 1
  IN  IF n = 5 THEN [cells -> {0, 2, 5, 12}]
      ELSE IF n = 6 THEN [cells -> {0, 3, 9}]
      ELSE IF n = 8 THEN [cells -> {2, 12}]
      ELSE {[a \in cells |-> ((a * a * p) \div 3 + a * p) % 11] : p \in {1, 4, 9}}
=============================================================================
