------------------------- MODULE MCLegacyRoundTrip -------------------------
(* One to eight blocks, whole and partial, in both modes; a 4-bit T.        *)
EXTENDS LegacyRoundTrip

\* Rounding and reciprocal as inexact as in MCKnlRoundTrip.
Rounded == [x \in -999..999 |-> IF Abs(x) <= 8 THEN x ELSE 4 * ((x + 2) \div 4)]
MCFl(x) == Rounded[x]
Scaled == [x \in 0..999 |-> IF x > 4 /\ x % 3 = 0 THEN x \div Precision - 1 ELSE x \div Precision]
MCScale(x) == Scaled[x]

MCRegCoeffs == {<<1, 0, 0, 1>>, <<-1, 1, 0, 2>>}

Call(r1, r2, r3, bs, mean, cap, independant) ==
  [size |-> DSize_3d(r1, r2, r3, bs), layer |-> 1, dim |-> 3, two |-> FALSE,
   linear |-> TRUE, poly |-> FALSE, use_mean |-> mean # 0, mean |-> mean,
   capacity |-> cap, block_independant |-> independant]

MCCalls ==
  {Call(5, 4, 4, 4, 2, 8, ind) : ind \in BOOLEAN}
  \cup {Call(4, 4, 8, 4, 0, 8, ind) : ind \in BOOLEAN}
  \cup {Call(8, 5, 4, 4, 2, 8, FALSE)}
  \cup {Call(3, 3, r3, 2, mean, 16, ind) : r3 \in {3, 4}, mean \in {0, 2}, ind \in BOOLEAN}

\* Smooth data with one or two peaks, so that few values go without a code,
\* and one array that outgrows the reserve.
Smooth(n, p) == [a \in 0 .. n - 1 |-> ((a * p) % 5) + (a % 2)]
MCInputs(k) ==
  LET n == k.size.num_elements
  IN  {Smooth(n, 3)}
        \cup {[Smooth(n, 1) EXCEPT ![n \div 2] = v] : v \in {20, -4, 8}}
        \cup {[a \in 0 .. n - 1 |-> IF a % 2 = 0 THEN 0 ELSE 40]}
=============================================================================
